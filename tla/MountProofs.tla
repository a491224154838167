------------------------------ MODULE MountProofs ------------------------------
(***************************************************************************)
(* What the life of the process guarantees for any command line, script    *)
(* and names, and any number of workers.                                   *)
(***************************************************************************)
EXTENDS Mount, Foundations

\* The first of some positions is one of them, if there are any.
LEMMA FirstPosition ==
  ASSUME NEW positions \in SUBSET Nat
  PROVE  IF positions = {} THEN first(positions) = 0
         ELSE /\ first(positions) \in positions
              /\ \A k \in positions : first(positions) <= k
BY LeastNumber DEF first

\* The options of a command line that begins with the script.
LEMMA ParsedRight ==
  ASSUME args \in Seq(STRING), args # <<>>, args[1] = "script"
  PROVE  /\ parsed.script \in 0 .. Len(args) /\ parsed.mountpoint \in 0 .. Len(args)
         /\ parsed.foreground \in BOOLEAN /\ parsed.singlethread \in BOOLEAN
         /\ parsed.mountpoint # 0 => parsed.script = 1 /\ parsed.mountpoint > 1
<1>1. DOMAIN args = 1 .. Len(args) /\ Len(args) \in Nat \ {0}
  BY EmptySeq, LenProperties
<1>2. paths \in SUBSET Nat /\ paths \subseteq 1 .. Len(args) /\ 1 \in paths
  BY <1>1 DEF paths
<1>3. first(paths) = 1
  <2>1. first(paths) \in paths /\ first(paths) <= 1
    BY <1>2, FirstPosition
  <2>2. first(paths) \in 1 .. Len(args)
    BY <1>2, <2>1
  <2> QED
    BY <1>1, <2>1, <2>2
<1>4. paths \ {1} \in SUBSET Nat /\ \A i \in paths \ {1} : i \in 2 .. Len(args)
  BY <1>2
<1>5. first(paths \ {1}) = 0 \/ first(paths \ {1}) \in 2 .. Len(args)
  BY <1>4, FirstPosition
<1> QED
  BY <1>1, <1>3, <1>5 DEF parsed, has

-----------------------------------------------------------------------------
(* The inductive invariant. *)

\* Types that TypeOK leaves out, because they follow from those of the constants.
Types ==
  /\ TypeOK
  /\ args \in Seq(STRING) /\ outputs \in Seq({"good", "refused", "broken", "unset"})
  /\ options.foreground \in BOOLEAN /\ options.singlethread \in BOOLEAN
  /\ \A w \in Workers : request[w] \in [op : {"none", "getattr", "readdir", "read"},
                                        name : Names \cup {Root}]

\* From its evaluation to the clean-up there is a script, the first argument.
ScriptLives ==
  pc \in {"outputs", "options", "mount", "new", "daemonize", "loop", "cleanup"} =>
    args # <<>> /\ args[1] = "script" /\ engine = "script"

\* main has the file system mounted between fuse_mount and the end of the loop,
\* and only with a mountpoint that is not the script.
MountLives ==
  /\ options.mountpoint # 0 => options.script = 1 /\ options.mountpoint > 1
  /\ mounted => options.mountpoint # 0 /\ pc \in {"new", "daemonize", "loop", "crashed", "killed"}

\* Until the process exits stream i is that of node i, every file has a stream,
\* and so has every name in a listing.
StreamsLive ==
  pc # "exited" =>
    /\ \A i \in 1 .. Len(streams) : streams[i] = i - 1
    /\ \A name \in files : InRange(name.number)
    /\ listed \subseteq 0 .. Len(streams) - 1

\* What the kernel takes for a file has a number, and it reads nothing else;
\* nobody is busy but in the loop.
Requests ==
  /\ \A name \in files : name.prefix /\ name.stoi = "number"
  /\ \A w \in Workers :
       /\ request[w].op = "read" => request[w].name \in files
       /\ request[w].op = "readdir" => request[w].name = Root
       /\ request[w] # Idle => pc \in {"loop", "crashed", "killed"}

MInv ==
  /\ Types /\ ScriptLives /\ MountLives /\ StreamsLive /\ Requests
  /\ ListedAreServed /\ ReadReachesStream

\* It holds when main is entered.
LEMMA MountInit == Init => MInv
<1> SUFFICES ASSUME Init
             PROVE  MInv
  OBVIOUS
<1>1. args \in Seq(STRING) /\ outputs \in Seq({"good", "refused", "broken", "unset"})
  BY CommandLinesAssumption, ScriptsAssumption DEF Init
<1>2. Len(args) \in Nat /\ Len(outputs) \in Nat /\ streams \in Seq(0 .. Len(outputs) - 1)
  BY <1>1 DEF Init
<1> USE DEF Init, NoOptions, NoReply, Idle, Root
<1>3. Types
  <2>1. Idle \in [op : {"none", "getattr", "readdir", "read"}, name : Names \cup {Root}]
    OBVIOUS
  <2>2. request \in [Workers -> [op : {"none", "getattr", "readdir", "read"}, name : Names \cup {Root}]]
    BY <2>1
  <2>3. TypeOK
    <3>1. mounted \in BOOLEAN /\ files \subseteq Names
      OBVIOUS
    <3>2. options.script \in 0 .. Len(args) /\ options.mountpoint \in 0 .. Len(args)
      BY <1>2
    <3>3. /\ pc \in {"init", "evaluate", "outputs", "options", "mount", "new", "daemonize", "loop",
                     "cleanup", "return", "exited", "crashed", "killed"}
          /\ engine \in {"down", "up", "script"}
          /\ reply.type \in {"none", "directory", "file", "data", "empty", "ENOENT", "exception"}
      OBVIOUS
    <3> QED
      BY <1>2, <2>2, <3>1, <3>2, <3>3 DEF TypeOK
  <2> QED
    BY <1>1, <2>2, <2>3 DEF Types
<1>4. ScriptLives /\ MountLives /\ StreamsLive /\ Requests
  BY DEF ScriptLives, MountLives, StreamsLive, Requests
<1>5. ListedAreServed /\ ReadReachesStream
  BY DEF ListedAreServed, ReadReachesStream
<1> QED
  BY <1>3, <1>4, <1>5 DEF MInv

\* The loop over the output nodes keeps it: the next stream is that of the next node.
LEMMA GetOutputStep == MInv /\ GetOutput => MInv'
<1> SUFFICES ASSUME MInv, GetOutput
             PROVE  MInv'
  OBVIOUS
<1> USE DEF MInv
<1>1. Len(streams) \in Nat /\ Len(outputs) \in Nat
  BY DEF Types, TypeOK
<1>2. UNCHANGED <<args, outputs, options, engine, mounted, files, listed, request, reply>>
  BY DEF GetOutput, outside
<1>3. CASE streams' = streams
  <2>1. pc = "outputs" /\ pc' \in {"outputs", "options", "return", "crashed"}
    BY DEF GetOutput, Goto
  <2>2. Types' /\ StreamsLive'
    BY <1>2, <1>3, <2>1 DEF Types, TypeOK, StreamsLive, InRange
  <2>3. ScriptLives' /\ MountLives' /\ Requests' /\ ListedAreServed' /\ ReadReachesStream'
    BY <1>2, <2>1 DEF ScriptLives, MountLives, Requests, ListedAreServed, ReadReachesStream
  <2> QED
    BY <2>2, <2>3
<1>4. CASE streams' # streams
  <2>1. pc = "outputs" /\ pc' = pc
        /\ Len(streams) < Len(outputs) /\ streams' = Append(streams, Len(streams))
    BY <1>4 DEF GetOutput
  <2>2. /\ streams' \in Seq(0 .. Len(outputs) - 1)
        /\ Len(streams') = Len(streams) + 1
        /\ \A i \in 1 .. Len(streams) : streams'[i] = streams[i]
        /\ streams'[Len(streams) + 1] = Len(streams)
    BY <1>1, <2>1 DEF Types, TypeOK
  <2>3. Types'
    BY <1>2, <2>1, <2>2 DEF Types, TypeOK
  <2>4. StreamsLive'
    <3>1. \A i \in 1 .. Len(streams') : streams'[i] = i - 1
      BY <1>1, <2>1, <2>2 DEF StreamsLive
    <3>2. \A name \in files : InRange(name.number)'
      <4>1. \A name \in files : name.number \in Int
        BY NamesAssumption DEF Types, TypeOK
      <4> QED
        BY <1>1, <2>1, <2>2, <4>1 DEF StreamsLive, InRange
    <3> QED
      BY <1>1, <1>2, <2>1, <2>2, <3>1, <3>2 DEF StreamsLive
  <2>5. ScriptLives' /\ MountLives' /\ Requests' /\ ListedAreServed' /\ ReadReachesStream'
    BY <1>2, <2>1 DEF ScriptLives, MountLives, Requests, ListedAreServed, ReadReachesStream
  <2> QED
    BY <2>3, <2>4, <2>5
<1> QED
  BY <1>3, <1>4

\* The other steps of main keep it, and what is outside alone.
LEMMA MainStep == MInv /\ Main => MInv'
<1> SUFFICES ASSUME MInv, Main, ~GetOutput
             PROVE  MInv'
  BY GetOutputStep
<1> USE DEF MInv, Goto
<1>1. UNCHANGED <<args, outputs, files, listed, request, reply>>
  BY DEF Main, InitEngine, Evaluate, ParseOptions, MountFs, NewFuse, Daemonize, LoopEnds,
         Cleanup, Exit, outside
<1>2. pc' = "exited" \/ (streams' = streams /\ pc # "exited")
  BY DEF Main, InitEngine, Evaluate, ParseOptions, MountFs, NewFuse, Daemonize, LoopEnds,
         Cleanup, Exit
<1>3. options' = options \/ (options' = parsed /\ pc = "options" /\ pc' = "mount" /\ mounted' = mounted)
  BY DEF Main, InitEngine, Evaluate, ParseOptions, MountFs, NewFuse, Daemonize, LoopEnds,
         Cleanup, Exit
<1>4. /\ options'.script \in 0 .. Len(args) /\ options'.mountpoint \in 0 .. Len(args)
      /\ options'.foreground \in BOOLEAN /\ options'.singlethread \in BOOLEAN
      /\ options'.mountpoint # 0 => options'.script = 1 /\ options'.mountpoint > 1
  BY <1>3, ParsedRight DEF Types, TypeOK, ScriptLives, MountLives
<1>5. Types'
  <2>1. pc' \in {"init", "evaluate", "outputs", "options", "mount", "new", "daemonize", "loop",
                 "cleanup", "return", "exited", "crashed", "killed"}
    BY DEF Main, InitEngine, Evaluate, ParseOptions, MountFs, NewFuse, Daemonize, LoopEnds,
           Cleanup, Exit
  <2>2. streams' \in Seq(0 .. Len(outputs) - 1)
    <3>1. streams' = streams \/ streams' = <<>>
      BY DEF Main, InitEngine, Evaluate, ParseOptions, MountFs, NewFuse, Daemonize, LoopEnds,
             Cleanup, Exit
    <3>2. <<>> \in Seq(0 .. Len(outputs) - 1)
      BY EmptySeq
    <3> QED
      BY <3>1, <3>2 DEF Types, TypeOK
  <2>3. engine' \in {"down", "up", "script"} /\ mounted' \in BOOLEAN
    BY DEF Main, InitEngine, Evaluate, ParseOptions, MountFs, NewFuse, Daemonize, LoopEnds,
           Cleanup, Exit, Types, TypeOK
  <2> QED
    BY <1>1, <1>4, <2>1, <2>2, <2>3 DEF Types, TypeOK
<1>6. ScriptLives'
  BY <1>1 DEF ScriptLives, Main, InitEngine, Evaluate, ParseOptions, MountFs, NewFuse, Daemonize,
              LoopEnds, Cleanup, Exit
<1>7. MountLives'
  <2>1. mounted' => options'.mountpoint # 0 /\ pc' \in {"new", "daemonize", "loop", "crashed", "killed"}
    BY <1>3 DEF MountLives, Main, InitEngine, Evaluate, ParseOptions, MountFs, NewFuse, Daemonize,
                LoopEnds, Cleanup, Exit
  <2> QED
    BY <1>4, <2>1 DEF MountLives
<1>8. StreamsLive'
  BY <1>1, <1>2 DEF StreamsLive, InRange
<1>9. Requests'
  <2>1. ASSUME NEW w \in Workers, request[w] # Idle
        PROVE  FALSE
    BY <2>1 DEF Requests, Main, InitEngine, Evaluate, ParseOptions, MountFs, NewFuse, Daemonize,
                LoopEnds, Cleanup, Exit
  <2> QED
    BY <1>1, <2>1 DEF Requests
<1>10. ListedAreServed' /\ ReadReachesStream'
  BY <1>1 DEF ListedAreServed, ReadReachesStream
<1> QED
  BY <1>5, <1>6, <1>7, <1>8, <1>9, <1>10

\* A request that is taken is one for a name the kernel may ask for.
LEMMA RequestStep ==
  ASSUME MInv, NEW w \in Workers, Request(w)
  PROVE  MInv'
<1> USE DEF MInv
<1>1. UNCHANGED <<pc, args, outputs, options, streams, engine, mounted, files, listed, reply>>
  BY DEF Request, main
<1>2. PICK r : /\ r \in [op : {"getattr"}, name : Names \cup {Root}] \cup
                         [op : {"readdir"}, name : {Root}] \cup
                         [op : {"read"},    name : files]
               /\ request' = [request EXCEPT ![w] = r]
  BY DEF Request
<1>3. /\ r \in [op : {"none", "getattr", "readdir", "read"}, name : Names \cup {Root}]
      /\ r.op = "read" => r.name \in files
      /\ r.op = "readdir" => r.name = Root
  BY <1>2 DEF Types, TypeOK
<1>4. \A u \in Workers : request'[u] = IF u = w THEN r ELSE request[u]
  BY <1>2 DEF Types, TypeOK
<1>5. Types'
  <2>1. request' \in [Workers -> [op : {"none", "getattr", "readdir", "read"}, name : Names \cup {Root}]]
    BY <1>2, <1>3 DEF Types, TypeOK
  <2> QED
    BY <1>1, <2>1 DEF Types, TypeOK
<1>6. Requests'
  BY <1>1, <1>3, <1>4 DEF Requests, Request
<1>7. ScriptLives' /\ MountLives' /\ StreamsLive' /\ ListedAreServed' /\ ReadReachesStream'
  BY <1>1 DEF ScriptLives, MountLives, StreamsLive, InRange, ListedAreServed, ReadReachesStream
<1> QED
  BY <1>5, <1>6, <1>7

\* What a handler may do: it lists the streams, finds a name to be a file, or
\* leaves both as they were; and it answers as the name deserves.
LEMMA HandlerStep ==
  ASSUME MInv, NEW w \in Workers, Handle(w)
  PROVE  /\ pc = "loop" /\ pc' \in {"loop", "crashed"}
         /\ UNCHANGED <<args, outputs, options, streams, engine, mounted>>
         /\ request' = [request EXCEPT ![w] = Idle]
         /\ reply'.name = request[w].name
         /\ reply'.type \in {"directory", "file", "data", "empty", "ENOENT", "exception"}
         /\ files' = files \/ (files' = files \cup {request[w].name} /\ request[w].name.prefix
                               /\ request[w].name.stoi = "number" /\ InRange(request[w].name.number)
                               /\ request[w].name # Root)
         /\ listed' = listed \/ (listed' = 0 .. Len(streams) - 1 /\ reply'.name = Root)
         /\ reply'.name.exact /\ reply'.name.number \in listed =>
              /\ reply'.index = reply'.name.number
              /\ reply'.type \in IF reply'.op = "read" THEN {"data", "exception"} ELSE {"file"}
         /\ reply'.op = "read" =>
              /\ reply'.type \in {"data", "exception"}
              /\ reply'.index = reply'.name.number /\ reply'.index >= 0
<1> USE DEF MInv
<1>1. /\ request[w].name \in Names \cup {Root}
      /\ request[w].name.exact =>
           request[w].name.prefix /\ request[w].name.stoi = "number" /\ request[w].name # Root
      /\ request[w].name.number \in Int
  BY NamesAssumption DEF Types, Root
<1>2. Len(streams) \in Nat
  BY DEF Types, TypeOK
<1>3. pc = "loop" =>
        /\ \A i \in 1 .. Len(streams) : streams[i] = i - 1
        /\ \A name \in files : InRange(name.number)
        /\ listed \subseteq 0 .. Len(streams) - 1
  BY DEF StreamsLive
<1>4. ASSUME pc = "loop", InRange(request[w].name.number)
      PROVE  streams[request[w].name.number + 1] = request[w].name.number
  BY <1>1, <1>2, <1>3, <1>4 DEF InRange
<1>5. pc = "loop" /\ request[w].name.number \in listed => InRange(request[w].name.number)
  BY <1>2, <1>3 DEF InRange
<1>6. CASE Readdir(w)
  <2>1. request[w].name = Root /\ ~Root.exact
    BY <1>6 DEF Readdir, Requests, Root
  <2> QED
    BY <1>6, <2>1 DEF Readdir, Answer, main
<1>7. CASE Getattr(w)
  BY <1>1, <1>4, <1>5, <1>7, SMTT(60) DEF Getattr, Answer, Throw, Goto, main, Root
<1>8. CASE Read(w)
  <2>1. /\ request[w].name.prefix /\ request[w].name.stoi = "number"
        /\ InRange(request[w].name.number)
    BY <1>3, <1>8 DEF Read, Requests
  <2>2. \/ Answer(w, "data", request[w].name.number) /\ pc' = pc
        \/ Answer(w, "exception", request[w].name.number) /\ pc' = "crashed"
    BY <1>4, <1>8, <2>1 DEF Read, Throw, Goto
  <2>3. request[w].op = "read" /\ request[w].name.number >= 0
    BY <1>8, <2>1 DEF Read, InRange
  <2> QED
    BY <1>1, <1>8, <2>2, <2>3 DEF Read, Answer, main
<1> QED
  BY <1>6, <1>7, <1>8 DEF Handle

\* So it keeps the invariant.
LEMMA HandleStep ==
  ASSUME MInv, NEW w \in Workers, Handle(w)
  PROVE  MInv'
<1> USE DEF MInv
<1>1. /\ pc = "loop" /\ pc' \in {"loop", "crashed"}
      /\ UNCHANGED <<args, outputs, options, streams, engine, mounted>>
      /\ request' = [request EXCEPT ![w] = Idle]
      /\ reply'.name = request[w].name
      /\ reply'.type \in {"directory", "file", "data", "empty", "ENOENT", "exception"}
  BY HandlerStep
<1>2. files' = files \/ (files' = files \cup {request[w].name} /\ request[w].name.prefix
                         /\ request[w].name.stoi = "number" /\ InRange(request[w].name.number)
                         /\ request[w].name # Root)
  BY HandlerStep
<1>3. /\ listed' = listed \/ (listed' = 0 .. Len(streams) - 1 /\ reply'.name = Root)
      /\ reply'.name.exact /\ reply'.name.number \in listed =>
           /\ reply'.index = reply'.name.number
           /\ reply'.type \in IF reply'.op = "read" THEN {"data", "exception"} ELSE {"file"}
      /\ reply'.op = "read" =>
           /\ reply'.type \in {"data", "exception"}
           /\ reply'.index = reply'.name.number /\ reply'.index >= 0
  BY HandlerStep
<1>4. \A u \in Workers : request'[u] = IF u = w THEN Idle ELSE request[u]
  BY <1>1 DEF Types, TypeOK
<1>5. Types'
  <2>1. Idle \in [op : {"none", "getattr", "readdir", "read"}, name : Names \cup {Root}]
    BY DEF Idle
  <2>2. request' \in [Workers -> [op : {"none", "getattr", "readdir", "read"}, name : Names \cup {Root}]]
    BY <1>1, <2>1 DEF Types, TypeOK
  <2>3. files' \subseteq Names
    BY <1>2 DEF Types, TypeOK
  <2> QED
    BY <1>1, <2>2, <2>3 DEF Types, TypeOK
<1>6. ScriptLives' /\ MountLives'
  BY <1>1 DEF ScriptLives, MountLives
<1>7. StreamsLive'
  BY <1>1, <1>2, <1>3 DEF StreamsLive, InRange
<1>8. Requests'
  BY <1>1, <1>2, <1>4 DEF Requests, Idle
<1>9. ListedAreServed' /\ ReadReachesStream'
  BY <1>3 DEF ListedAreServed, ReadReachesStream, Root
<1> QED
  BY <1>5, <1>6, <1>7, <1>8, <1>9

\* No step of the process, the kernel or those who unmount it violates it.
LEMMA MountNext == MInv /\ [Next]_vars => MInv'
<1> SUFFICES ASSUME MInv, [Next]_vars
             PROVE  MInv'
  OBVIOUS
<1>1. CASE Main
  BY <1>1, MainStep
<1>2. CASE \E w \in Workers : Request(w) \/ Handle(w)
  BY <1>2, RequestStep, HandleStep
<1>3. CASE Unmount \/ Interrupt
  <2>1. UNCHANGED <<args, outputs, options, streams, engine, files, listed, request, reply>>
        /\ mounted' \in {mounted, FALSE}
        /\ (pc' = pc \/ (pc' = "killed" /\ pc # "exited"))
    BY <1>3 DEF Unmount, Interrupt, outside, main, Goto
  <2>2. Types'
    BY <2>1 DEF MInv, Types, TypeOK
  <2>3. ScriptLives' /\ StreamsLive'
    BY <2>1 DEF MInv, ScriptLives, StreamsLive, InRange
  <2>4. MountLives'
    BY <1>3, <2>1 DEF MInv, MountLives, Unmount, Interrupt, Goto, main
  <2>5. Requests' /\ ListedAreServed' /\ ReadReachesStream'
    BY <1>3, <2>1 DEF MInv, Requests, ListedAreServed, ReadReachesStream, Unmount, Interrupt, Goto
  <2> QED
    BY <2>2, <2>3, <2>4, <2>5 DEF MInv
<1>4. CASE UNCHANGED vars
  BY <1>4 DEF vars, outside, MInv, Types, TypeOK, ScriptLives, MountLives, StreamsLive, InRange,
              Requests, ListedAreServed, ReadReachesStream
<1> QED
  BY <1>1, <1>2, <1>3, <1>4 DEF Next

\* So it holds throughout.
LEMMA MountInvariant == Spec => []MInv
BY MountInit, MountNext, PTL DEF Spec

-----------------------------------------------------------------------------
(* What follows. *)

\* The variables keep their types; options and requests stay in range.
THEOREM MountTypeInvariant == Spec => []TypeOK
<1>1. MInv => TypeOK
  BY DEF MInv, Types
<1> QED
  BY <1>1, MountInvariant, PTL

\* A name that was listed is found, and reads of it go to the output node it is
\* named after (main.cpp:76-79, 96-100).
THEOREM ListedAreServedInvariant == Spec => []ListedAreServed
<1>1. MInv => ListedAreServed
  BY DEF MInv
<1> QED
  BY <1>1, MountInvariant, PTL

\* read, which has no try block, is never given a name that std::stoi refuses: each
\* one gets to its stream (main.cpp:90-100).
THEOREM ReadReachesStreamInvariant == Spec => []ReadReachesStream
<1>1. MInv => ReadReachesStream
  BY DEF MInv
<1> QED
  BY <1>1, MountInvariant, PTL

\* No handler runs without the script, or with a file that has lost its stream.
THEOREM ServedFromLiveScriptInvariant == Spec => []ServedFromLiveScript
<1>1. MInv => ServedFromLiveScript
  BY DEF MInv, ServedFromLiveScript, Requests, ScriptLives, StreamsLive, Ended
<1> QED
  BY <1>1, MountInvariant, PTL

\* main never returns with the file system mounted.
THEOREM NoStaleMountInvariant == Spec => []NoStaleMount
<1>1. MInv => NoStaleMount
  BY DEF MInv, NoStaleMount, MountLives
<1> QED
  BY <1>1, MountInvariant, PTL

\* What is mounted is mounted somewhere else than on the script.
THEOREM MountpointIsNoScriptInvariant == Spec => []MountpointIsNoScript
<1>1. MInv => MountpointIsNoScript
  BY DEF MInv, MountpointIsNoScript, MountLives
<1> QED
  BY <1>1, MountInvariant, PTL
=============================================================================
