-------------------------------- MODULE Mount --------------------------------
(***************************************************************************)
(* The life of the process (src/src/main.cpp): the script is evaluated,    *)
(* its output nodes become streams, the file system is mounted and served  *)
(* by the threads of FUSE's loop until somebody unmounts it, and           *)
(* VapourSynth is cleaned up.  Every step may fail on its own.             *)
(*                                                                         *)
(* The kernel is the client.  It knows nothing but names: it lists them,   *)
(* looks them up, and reads those that it was told are files.              *)
(***************************************************************************)
EXTENDS Integers, Sequences

CONSTANTS
  Workers,       \* threads of fuse_loop_mt
  MainThread,    \* the one of them that fuse_loop uses
  CommandLines,  \* arguments: sequences of "script", "directory", "-f", "-s", ..
  Scripts,       \* what a script outputs, by index from 0 on: sequences of
                 \* "good", "refused" (no fourcc), "broken" (no first frame)
                 \* and "unset" (a gap)
  Names          \* names the kernel may be asked for, next to the root: [prefix,
                 \* stoi, number, exact], as the handlers take them apart

ASSUME CommandLinesAssumption == CommandLines \subseteq Seq(STRING)

ASSUME ScriptsAssumption == Scripts \subseteq Seq({"good", "refused", "broken", "unset"})

\* A name that readdir makes is a prefix and the decimal number of a stream.
ASSUME NamesAssumption ==
  /\ Names \subseteq [prefix : BOOLEAN, stoi : {"number", "invalid", "range"},
                     number : Int, exact : BOOLEAN]
  /\ \A name \in Names : name.exact => name.prefix /\ name.stoi = "number"

VARIABLES
  pc,            \* where main is
  args,          \* the command line
  outputs,       \* the output nodes of the script
  options,       \* what the option parsers found
  streams,       \* the index of the node of each stream
  engine,        \* VapourSynth: "down", "up", "script" (evaluated)
  mounted,
  files,         \* names the kernel was told are files
  listed,        \* numbers of the nodes in the last listing
  request,       \* what each worker is busy with
  reply          \* the last reply, or the exception, of a handler

vars == <<pc, args, outputs, options, streams, engine, mounted, files, listed, request, reply>>

outside == <<files, listed, request, reply>>

Root == [prefix |-> FALSE, stoi |-> "invalid", number |-> 0, exact |-> FALSE]

Idle    == [op |-> "none", name |-> Root]
NoReply == [op |-> "none", name |-> Root, type |-> "none", index |-> -1]

\* Mutant: options is not static, and so not zeroed.
NoOptionsGarbage == [script |-> -1, mountpoint |-> 0, foreground |-> FALSE, singlethread |-> FALSE]

NoOptions == [script |-> 0, mountpoint |-> 0, foreground |-> FALSE, singlethread |-> FALSE]

-----------------------------------------------------------------------------
(* main *)

Goto(label) == pc' = label

Init ==
  /\ pc = "init"
  /\ args \in CommandLines /\ outputs \in Scripts
  /\ options = NoOptions
  /\ streams = <<>>
  /\ engine = "down"
  /\ mounted = FALSE
  /\ files = {} /\ listed = {}
  /\ request = [w \in Workers |-> Idle]
  /\ reply = NoReply

\* vsscript_init
InitEngine ==
  /\ pc = "init"
  /\ \/ engine' = "up" /\ Goto("evaluate")
     \/ engine' = engine /\ Goto("return")
  /\ UNCHANGED <<args, outputs, options, streams, mounted, outside>>

\* vsscript_evaluateFile, of the first argument whatever it is.  A script that
\* does not load is freed and the engine finalised.
Evaluate ==
  /\ pc = "evaluate"
  /\ \/ args # <<>> /\ args[1] = "script" /\ engine' = "script" /\ Goto("outputs")
     \/ engine' = "down" /\ Goto("return")
  /\ UNCHANGED <<args, outputs, options, streams, mounted, outside>>

\* Mutant: a node that is refused is left out.
GetOutputSkipping ==
  /\ pc = "outputs"
  /\ LET kept == SelectSeq([i \in DOMAIN outputs |-> i - 1], LAMBDA i : outputs[i + 1] = "good")
     IN streams' = kept
  /\ Goto("options")
  /\ UNCHANGED <<args, outputs, options, engine, mounted, outside>>

\* One round of the loop over output nodes: a stream is made, or main returns
\* because the node was refused.  The first index without a node ends the loop.
\* A first frame that does not come is not noticed, and used.
GetOutput ==
  LET index == Len(streams)
  IN /\ pc = "outputs"
     /\ \/ /\ index < Len(outputs) /\ outputs[index + 1] = "good"
           /\ streams' = Append(streams, index)
           /\ pc' = pc
        \/ /\ index < Len(outputs) /\ outputs[index + 1] = "refused"
           /\ streams' = streams
           /\ Goto("return")
        \/ /\ index < Len(outputs) /\ outputs[index + 1] = "broken"
           /\ streams' = streams
           /\ Goto("crashed")
        \/ /\ IF index < Len(outputs) THEN outputs[index + 1] = "unset" ELSE TRUE
           /\ streams' = streams
           /\ Goto("options")
     /\ UNCHANGED <<args, outputs, options, engine, mounted, outside>>

\* The arguments that are no options, by position.
paths == {i \in DOMAIN args : args[i] \notin {"-f", "-s"}}

\* The first of them; 0 if there is none.
first(positions) ==
  IF positions = {} THEN 0 ELSE CHOOSE i \in positions : \A k \in positions : i <= k

has(option) == \E i \in DOMAIN args : args[i] = option

\* Mutant: opt_proc keeps the path of the script.
parsedKeeping ==
  [script       |-> first(paths),
   mountpoint   |-> first(paths),
   foreground   |-> has("-f"),
   singlethread |-> has("-s")]

\* opt_proc takes the first path for the script and leaves the others, of which
\* fuse_parse_cmdline takes the first for the mountpoint.
parsed ==
  [script       |-> first(paths),
   mountpoint   |-> first(paths \ {first(paths)}),
   foreground   |-> has("-f"),
   singlethread |-> has("-s")]

\* A third path is an error, and so is an option that the parsers do not like.
ParseOptions ==
  /\ pc = "options"
  /\ \/ paths \subseteq {parsed.script, parsed.mountpoint} /\ options' = parsed /\ Goto("mount")
     \/ options' = options /\ Goto("return")
  /\ UNCHANGED <<args, outputs, streams, engine, mounted, outside>>

\* fuse_mount
MountFs ==
  /\ pc = "mount"
  /\ \/ options.mountpoint # 0 /\ mounted' = TRUE /\ Goto("new")
     \/ mounted' = mounted /\ Goto("return")
  /\ UNCHANGED <<args, outputs, options, streams, engine, outside>>

\* fuse_new; without it main unmounts and returns.
NewFuse ==
  /\ pc = "new"
  /\ \/ mounted' = mounted /\ Goto("daemonize")
     \/ mounted' = FALSE /\ Goto("return")
  /\ UNCHANGED <<args, outputs, options, streams, engine, outside>>

\* Mutant: main returns at once.
DaemonizeLeavingMount ==
  /\ pc = "daemonize"
  /\ Goto("loop") \/ (~options.foreground /\ Goto("return"))
  /\ UNCHANGED <<args, outputs, options, streams, engine, mounted, outside>>

\* fuse_daemonize, which can only fail when it has to fork.
Daemonize ==
  /\ pc = "daemonize"
  /\ \/ mounted' = mounted /\ Goto("loop")
     \/ ~options.foreground /\ mounted' = FALSE /\ Goto("return")
  /\ UNCHANGED <<args, outputs, options, streams, engine, outside>>

\* Mutant: main goes on while workers are still busy.
LoopEndsEarly ==
  /\ pc = "loop" /\ ~mounted
  /\ Goto("cleanup")
  /\ UNCHANGED <<args, outputs, options, streams, engine, mounted, outside>>

\* Mutant: the loop waits until the kernel has forgotten all files.
LoopEndsForgotten ==
  /\ pc = "loop" /\ ~mounted /\ files = {}
  /\ \A w \in Workers : request[w] = Idle
  /\ Goto("cleanup")
  /\ UNCHANGED <<args, outputs, options, streams, engine, mounted, outside>>

\* The loop returns once the file system is unmounted; FUSE lets a worker finish
\* its handler and joins all of them.
LoopEnds ==
  /\ pc = "loop" /\ ~mounted
  /\ \A w \in Workers : request[w] = Idle
  /\ Goto("cleanup")
  /\ UNCHANGED <<args, outputs, options, streams, engine, mounted, outside>>

\* fuse_unmount and fuse_destroy, then the script is freed and VapourSynth is
\* finalised.
Cleanup ==
  /\ pc = "cleanup"
  /\ mounted' = FALSE
  /\ engine' = "down"
  /\ Goto("return")
  /\ UNCHANGED <<args, outputs, options, streams, outside>>

\* After main, the static options go away, and with them the streams; each gives
\* its node back to VapourSynth, finalised or not.
Exit ==
  /\ pc = "return"
  /\ streams' = <<>>
  /\ Goto("exited")
  /\ UNCHANGED <<args, outputs, options, engine, mounted, outside>>

Main ==
  \/ InitEngine \/ Evaluate \/ GetOutput \/ ParseOptions \/ MountFs \/ NewFuse
  \/ Daemonize \/ LoopEnds \/ Cleanup \/ Exit

-----------------------------------------------------------------------------
(* The handlers, and the kernel that calls them. *)

main == <<args, outputs, options, streams, engine, mounted>>

\* The workers of the loop.
Active == IF options.singlethread THEN {MainThread} ELSE Workers

\* A worker takes a request: to list the root or to look up any name, and to
\* read what was found to be a file.
Request(w) ==
  /\ pc = "loop" /\ mounted
  /\ w \in Active /\ request[w] = Idle
  /\ \E r \in [op : {"getattr"}, name : Names \cup {Root}] \cup
              [op : {"readdir"}, name : {Root}] \cup
              [op : {"read"},    name : files] :
       request' = [request EXCEPT ![w] = r]
  /\ UNCHANGED <<pc, main, files, listed, reply>>

InRange(n) == n < Len(streams) /\ n >= 0

Answer(w, type, index) ==
  /\ request' = [request EXCEPT ![w] = Idle]
  /\ reply' = [op |-> request[w].op, name |-> request[w].name, type |-> type, index |-> index]

\* Something throws, std::stoi or a stream, and nothing catches it.
Throw(w, index) ==
  /\ Answer(w, "exception", index)
  /\ Goto("crashed")

\* readdir lists a name for every stream.
Readdir(w) ==
  /\ pc = "loop" /\ request[w].op = "readdir"
  /\ listed' = 0 .. Len(streams) - 1
  /\ Answer(w, "directory", -1)
  /\ UNCHANGED <<pc, main, files>>

\* Mutant: a name is taken for a file before its number is known.
GetattrByPrefix(w) ==
  LET name == request[w].name
  IN /\ pc = "loop" /\ request[w].op = "getattr"
     /\ files' = IF name.prefix THEN files \cup {name} ELSE files
     /\ IF name.prefix THEN Answer(w, "file", -1) ELSE Answer(w, "directory", -1)
     /\ UNCHANGED <<pc, main, listed>>

\* getattr: the root is a directory, a number of a stream a file.  What is no
\* number at all is reported as found, but with an empty stat, which the kernel
\* takes for an error; a number too long for an int is not caught.
Getattr(w) ==
  LET name == request[w].name
  IN /\ pc = "loop" /\ request[w].op = "getattr"
     /\ UNCHANGED <<main, listed>>
     /\ \/ /\ name = Root
           /\ Answer(w, "directory", -1)
           /\ UNCHANGED <<pc, files>>
        \/ /\ name.prefix /\ name.stoi = "number" /\ InRange(name.number)
           /\ files' = files \cup {name}
           /\ Answer(w, "file", streams[name.number + 1])
           /\ pc' = pc
        \/ /\ name.prefix /\ name.stoi = "invalid"
           /\ Answer(w, "empty", -1)
           /\ UNCHANGED <<pc, files>>
        \/ /\ name.prefix /\ name.stoi = "range"
           /\ Throw(w, -1)
           /\ files' = files
        \/ /\ name # Root
           /\ IF name.prefix THEN name.stoi = "number" /\ ~InRange(name.number) ELSE TRUE
           /\ Answer(w, "ENOENT", -1)
           /\ UNCHANGED <<pc, files>>

\* read: the same tests without a net.  What the stream throws is not caught
\* either: a frame that does not come, a cluster lock that is not free in time.
Read(w) ==
  LET name == request[w].name
  IN /\ pc = "loop" /\ request[w].op = "read"
     /\ UNCHANGED <<main, files, listed>>
     /\ \/ /\ name.prefix /\ name.stoi = "number" /\ InRange(name.number)
           /\ LET index == streams[name.number + 1]
              IN (Answer(w, "data", index) /\ pc' = pc) \/ Throw(w, index)
        \/ /\ name.prefix /\ name.stoi # "number"
           /\ Throw(w, -1)
        \/ /\ IF name.prefix THEN name.stoi = "number" /\ ~InRange(name.number) ELSE TRUE
           /\ Answer(w, "ENOENT", -1)
           /\ pc' = pc

Handle(w) == Readdir(w) \/ Getattr(w) \/ Read(w)

\* Somebody unmounts the file system.
Unmount ==
  /\ pc = "loop" /\ mounted
  /\ mounted' = FALSE
  /\ UNCHANGED <<pc, args, outputs, options, streams, engine, outside>>

\* An interrupt: main installs no handlers, so the process ends where it is.
Interrupt ==
  /\ pc \notin {"exited", "crashed", "killed"}
  /\ Goto("killed")
  /\ UNCHANGED <<main, outside>>

Next == Main \/ Unmount \/ Interrupt \/ (\E w \in Workers : Request(w) \/ Handle(w))

\* main goes on, and a handler that was called comes to an end.
Spec == Init /\ [][Next]_vars /\ WF_vars(Main) /\ \A w \in Workers : WF_vars(Handle(w))

-----------------------------------------------------------------------------
Ended == pc \in {"exited", "crashed", "killed"}

TypeOK ==
  /\ pc \in {"init", "evaluate", "outputs", "options", "mount", "new", "daemonize", "loop",
             "cleanup", "return", "exited", "crashed", "killed"}
  /\ options.script \in 0 .. Len(args) /\ options.mountpoint \in 0 .. Len(args)
  /\ streams \in Seq(0 .. Len(outputs) - 1)
  /\ engine \in {"down", "up", "script"}
  /\ mounted \in BOOLEAN
  /\ files \subseteq Names
  /\ request \in [Workers -> [op : {"none", "getattr", "readdir", "read"}, name : Names \cup {Root}]]
  /\ reply.type \in {"none", "directory", "file", "data", "empty", "ENOENT", "exception"}

\* A name that was listed is found, and a read of it is left to the output node of
\* the script with that number, which has the data or throws
\* (main.cpp:55-59, 76-79, 96-100, 184-195).
ListedAreServed ==
  reply.name.exact /\ reply.name.number \in listed =>
    /\ reply.index = reply.name.number
    /\ reply.type \in IF reply.op = "read" THEN {"data", "exception"} ELSE {"file"}

\* Taking the name apart never ends a read, nor the process: read has no try block
\* for std::stoi and needs none, because it only sees names that getattr called
\* files (main.cpp:90-98).  Whatever comes of the read is up to the stream of that
\* number, whose exceptions nothing catches (main.cpp:100).
ReadReachesStream ==
  reply.op = "read" =>
    /\ reply.type \in {"data", "exception"}
    /\ reply.index = reply.name.number /\ reply.index >= 0

\* As long as a handler runs, there is a script and a stream for every file
\* (main.cpp:166-195 before, 270-272 after the loop).
ServedFromLiveScript ==
  \A w \in Workers : request[w] # Idle /\ ~Ended =>
    /\ engine = "script"
    /\ \A name \in files : InRange(name.number)

\* Wherever main returns from, it leaves nothing mounted (main.cpp:223-251, 261).
NoStaleMount == pc = "exited" => ~mounted

\* main evaluates its first argument before it looks at options; when it gets as
\* far as mounting, that was the path opt_proc takes away, and the mountpoint is
\* a later argument (main.cpp:103-119, 175, 199-206).
MountpointIsNoScript ==
  mounted => options.script = 1 /\ options.mountpoint > 1

\* Unmounting ends the process (main.cpp:254-274).
UnmountEnds == (pc = "loop" /\ ~mounted) ~> Ended
=============================================================================
