------------------------------- MODULE FileTree -------------------------------
(***************************************************************************)
(* What the race on the size of the root node (SizeMemo) does to the file  *)
(* a client sees.  Both FUSE handlers of a stream come to that node: the   *)
(* size is what getattr answers with (stream::getSize), and node::output   *)
(* compares the offset of every read with it before it descends into the   *)
(* EBML head and the segment (stream::read).                               *)
(*                                                                         *)
(* The kernel keeps the size it was last told and reads pages below it; a  *)
(* short answer tells it that the file ends there.                         *)
(***************************************************************************)
EXTENDS SizeMemo, Sequences

CONSTANTS
  Page,      \* bytes the kernel asks for
  Offsets    \* where its pages begin; bound to some

ASSUME PageAssumption == Page \in Nat \ {0} /\ Offsets \subseteq Nat

VARIABLES
  op,         \* what each thread serves: "getattr", "read" or "none"
  offset,     \* of its read
  reply,      \* bytes it read, each named by child and place in that child
  told,       \* the size the kernel knows
  disturbed   \* history: did others count while the thread was in its call?

request  == <<op, offset>>
fileVars == <<vars, request, reply, told, disturbed>>

FileInit ==
  /\ Init
  /\ op = [t \in Threads |-> "none"]
  /\ offset = [t \in Threads |-> 0]
  /\ reply = [t \in Threads |-> <<>>]
  /\ told = 0
  /\ disturbed = [t \in Threads |-> FALSE]

Disturb ==
  disturbed' = [t \in Threads |->
                  /\ pc'[t] # "idle"
                  /\ disturbed[t] \/ \E u \in Threads \ {t} : Counting(u)']

-----------------------------------------------------------------------------
(* node::output on the root, with the offset below the size it found. *)

least(a, b) == IF a < b THEN a ELSE b

\* Bytes first .. first + n - 1 of a child.
Slice(child, first, n) == [k \in 1 .. n |-> <<child, first + k - 1>>]

\* Mutant: what one child wrote does not count for the next.
outputChildInFull(cur, child) ==
  LET child_size == ChildSizes[child]
      n == least(cur.size, child_size - cur.offset)
  IN IF cur.offset < child_size /\ cur.size > 0
     THEN [cur EXCEPT !.bytes = @ \o Slice(child, cur.offset, n), !.offset = 0]
     ELSE [cur EXCEPT !.offset = @ - child_size]

\* Mutant: the offset is that in the file, not that in the child.
outputChildUnmoved(cur, child) ==
  LET child_size == ChildSizes[child]
      n == least(cur.size, child_size - cur.offset)
  IN IF cur.offset < child_size /\ cur.size > 0
     THEN [bytes |-> cur.bytes \o Slice(child, cur.offset, n), size |-> cur.size - n, offset |-> 0]
     ELSE cur

\* One round of the loop over children; each answers in full.  With nothing left
\* to write, the offset goes below zero, where the code's wraps around: it is
\* not looked at again.
outputChild(cur, child) ==
  LET child_size == ChildSizes[child]
      n == least(cur.size, child_size - cur.offset)
  IN IF cur.offset < child_size /\ cur.size > 0
     THEN [bytes |-> cur.bytes \o Slice(child, cur.offset, n), size |-> cur.size - n, offset |-> 0]
     ELSE [cur EXCEPT !.offset = @ - child_size]

\* Mutant: there has to be a whole page.
outputPages(length, from) ==
  IF from + Page <= length
  THEN outputChild(outputChild([bytes |-> <<>>, size |-> Page, offset |-> from], 1), 2).bytes
  ELSE <<>>

output(length, from) ==
  IF from < length
  THEN outputChild(outputChild([bytes |-> <<>>, size |-> Page, offset |-> from], 1), 2).bytes
  ELSE <<>>

-----------------------------------------------------------------------------
\* getattr is called.
Getattr(t) ==
  /\ Call(t)
  /\ op' = [op EXCEPT ![t] = "getattr"]
  /\ Disturb
  /\ UNCHANGED <<offset, reply, told>>

\* read is called for a page that the kernel takes to be in the file.
Read(t) ==
  /\ Call(t)
  /\ op' = [op EXCEPT ![t] = "read"]
  /\ \E from \in Offsets : from < told /\ offset' = [offset EXCEPT ![t] = from]
  /\ Disturb
  /\ UNCHANGED <<reply, told>>

\* Either sums up the children if nobody has.
Count(t) ==
  /\ Load(t) \/ Store(t)
  /\ Disturb
  /\ UNCHANGED <<request, reply, told>>

\* getSize returns, and output goes on with what it returned.
Sized(t) ==
  /\ Return(t)
  /\ reply' = [reply EXCEPT ![t] = IF op[t] = "read" THEN output(answer'[t], offset[t]) ELSE @]
  /\ Disturb
  /\ UNCHANGED <<request, told>>

\* The kernel gets the size ...
ReplySize(t) ==
  /\ op[t] = "getattr" /\ Again(t)
  /\ told' = answer[t]
  /\ op' = [op EXCEPT ![t] = "none"]
  /\ Disturb
  /\ UNCHANGED <<offset, reply>>

\* ... or the bytes.  It takes a short answer for the end of the file, unless
\* it was told a size meanwhile.
ReplyBytes(t) ==
  /\ op[t] = "read" /\ Again(t)
  /\ LET end == offset[t] + Len(reply[t])
     IN told' \in {told} \cup (IF Len(reply[t]) < Page /\ end < told THEN {end} ELSE {})
  /\ reply' = [reply EXCEPT ![t] = <<>>]
  /\ op' = [op EXCEPT ![t] = "none"]
  /\ offset' = [offset EXCEPT ![t] = 0]
  /\ Disturb

Serve(t) == Count(t) \/ Sized(t) \/ ReplySize(t) \/ ReplyBytes(t)

FileNext == \E t \in Threads : Getattr(t) \/ Read(t) \/ Serve(t)

\* A handler that was called comes to an end.
FileSpec == FileInit /\ [][FileNext]_fileVars /\ \A t \in Threads : WF_fileVars(Serve(t))

-----------------------------------------------------------------------------
Served(t, what) == pc[t] = "done" /\ op[t] = what

FileTypeOK ==
  /\ op \in [Threads -> {"getattr", "read", "none"}]
  /\ offset \in [Threads -> Offsets \cup {0}]
  /\ reply \in [Threads -> Seq((1 .. 2) \X Nat)]
  /\ \A t \in Threads : Len(reply[t]) <= Page
  /\ told \in Nat
  /\ disturbed \in [Threads -> BOOLEAN]

\* A byte of the file: of the EBML head, or of the segment behind it.
FileByte(at) == IF at < ChildSizes[1] THEN <<1, at>> ELSE <<2, at - ChildSizes[1]>>

\* The bytes from an offset on, up to the end of a page or of the file.
FileSlice(from) == [k \in 1 .. least(from + Page, Total) - from |-> FileByte(from + k - 1)]

\* Whatever size the race produced, a read is answered with the bytes at its
\* offset up to the end of its page or of the file, or with none at all
\* (node.cpp:47-63): never with some of them, and never with others.
AllOrNothing ==
  \A t \in Threads : Served(t, "read") => reply[t] \in {FileSlice(offset[t]), <<>>}

\* Bytes that exist are only denied to a read in whose time another thread was
\* still summing up (node.cpp:28-38, 47-49).
NoFalseEnd ==
  \A t \in Threads :
    Served(t, "read") /\ offset[t] < Total /\ ~disturbed[t] => reply[t] = FileSlice(offset[t])

\* As long as clients look at the file now and then, the kernel gets over a size
\* that was too small: from some time on it knows all of the file
\* (node.cpp:33-38, stream.cpp:124-126).
SizeHeals ==
  []<>(\E t \in Threads : Served(t, "getattr")) => <>[](told >= Total)
=============================================================================
