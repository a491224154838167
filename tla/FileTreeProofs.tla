---------------------------- MODULE FileTreeProofs ----------------------------
(***************************************************************************)
(* What the race on _size cannot do to a file, for any number of threads,  *)
(* any sizes of the two children and any pages.                            *)
(***************************************************************************)
EXTENDS FileTree, SizeMemoProofs, SequenceTheorems

-----------------------------------------------------------------------------
(* FileTree implements SizeMemo. *)

\* A step of a handler is a step of getSize or none at all.
LEMMA StepsAreSteps == [FileNext]_fileVars => [Next]_vars
<1>1. ASSUME NEW t \in Threads, Getattr(t) \/ Read(t) \/ Serve(t)
      PROVE  Next
  BY <1>1 DEF Getattr, Read, Serve, Count, Sized, ReplySize, ReplyBytes, Next
<1>2. CASE UNCHANGED fileVars
  BY <1>2 DEF fileVars
<1> QED
  BY <1>1, <1>2 DEF FileNext

\* The handlers call getSize in no way that SizeMemo does not have.
THEOREM FileImplementsSizeMemo == FileSpec => Spec
<1>1. FileInit => Init
  BY DEF FileInit
<1> QED
  BY <1>1, StepsAreSteps, PTL DEF FileSpec, Spec

\* So its invariant is one of FileTree.
LEMMA SizeInvariant == FileSpec => []IInv
<1>1. FileInit => Init
  BY DEF FileInit
<1> QED
  BY <1>1, StepsAreSteps, InitInvariant, NextInvariant, PTL DEF FileSpec

-----------------------------------------------------------------------------
(* The loop of node::output. *)

Bytes == (1 .. 2) \X Nat

\* A slice is a sequence of as many bytes as it says.
LEMMA Slices ==
  ASSUME NEW child \in 1 .. 2, NEW first \in Nat, NEW n \in Nat
  PROVE  /\ Slice(child, first, n) \in Seq(Bytes)
         /\ Len(Slice(child, first, n)) = n
         /\ \A k \in 1 .. n : Slice(child, first, n)[k] = <<child, first + k - 1>>
BY DEF Slice, Bytes

\* So is the part of the file that a page covers.
LEMMA FileSlices ==
  ASSUME NEW from \in Nat, NEW n \in Nat, n = least(from + Page, Total) - from
  PROVE  /\ FileSlice(from) \in Seq(Bytes)
         /\ Len(FileSlice(from)) = n
         /\ \A k \in 1 .. n : FileSlice(from)[k] = FileByte(from + k - 1)
<1>1. FileSlice(from) = [k \in 1 .. n |-> FileByte(from + k - 1)]
  BY DEF FileSlice
<1>2. \A at \in Nat : FileByte(at) \in Bytes
  BY SizesPositive DEF FileByte, Bytes
<1>3. \A k \in 1 .. n : from + k - 1 \in Nat
  OBVIOUS
<1> QED
  BY <1>1, <1>2, <1>3

\* A page within the first child.
LEMMA FirstChild ==
  ASSUME NEW from \in Nat, NEW n \in Nat, n = least(from + Page, Total) - from,
         from + n <= ChildSizes[1]
  PROVE  Slice(1, from, n) = FileSlice(from)
<1>1. \A k \in 1 .. n : FileByte(from + k - 1) = <<1, from + k - 1>>
  BY SizesPositive DEF FileByte
<1>2. /\ Slice(1, from, n) \in Seq(Bytes) /\ Len(Slice(1, from, n)) = n
      /\ \A k \in 1 .. n : Slice(1, from, n)[k] = <<1, from + k - 1>>
  <2>1. 1 \in 1 .. 2
    OBVIOUS
  <2> QED
    BY <2>1, Slices
<1>3. /\ FileSlice(from) \in Seq(Bytes) /\ Len(FileSlice(from)) = n
      /\ \A k \in 1 .. n : FileSlice(from)[k] = FileByte(from + k - 1)
  BY FileSlices
<1> QED
  BY <1>1, <1>2, <1>3, SeqEqual

\* A page within the second child.
LEMMA SecondChild ==
  ASSUME NEW from \in Nat, NEW n \in Nat, n = least(from + Page, Total) - from,
         NEW first \in Nat, first = from - ChildSizes[1]
  PROVE  Slice(2, first, n) = FileSlice(from)
<1>1. \A k \in 1 .. n : FileByte(from + k - 1) = <<2, first + k - 1>>
  BY SizesPositive DEF FileByte
<1>2. /\ Slice(2, first, n) \in Seq(Bytes) /\ Len(Slice(2, first, n)) = n
      /\ \A k \in 1 .. n : Slice(2, first, n)[k] = <<2, first + k - 1>>
  <2>1. 2 \in 1 .. 2
    OBVIOUS
  <2> QED
    BY <2>1, Slices
<1>3. /\ FileSlice(from) \in Seq(Bytes) /\ Len(FileSlice(from)) = n
      /\ \A k \in 1 .. n : FileSlice(from)[k] = FileByte(from + k - 1)
  BY FileSlices
<1> QED
  BY <1>1, <1>2, <1>3, SeqEqual

\* Two sequences of bytes, one behind the other.
LEMMA Concat ==
  ASSUME NEW s \in Seq(Bytes), NEW t \in Seq(Bytes), NEW m, NEW n, Len(s) = m, Len(t) = n
  PROVE  /\ s \o t \in Seq(Bytes)
         /\ Len(s \o t) = m + n
         /\ \A k \in 1 .. m + n : (s \o t)[k] = IF k <= m THEN s[k] ELSE t[k - m]
BY ConcatProperties

\* A page that begins in the first child and ends in the second.
LEMMA BothChildren ==
  ASSUME NEW from \in Nat, NEW m \in Nat, NEW n \in Nat,
         m = ChildSizes[1] - from, m + n = least(from + Page, Total) - from
  PROVE  Slice(1, from, m) \o Slice(2, 0, n) = FileSlice(from)
<1>a. /\ Slice(1, from, m) \in Seq(Bytes) /\ Len(Slice(1, from, m)) = m
      /\ \A k \in 1 .. m : Slice(1, from, m)[k] = <<1, from + k - 1>>
  <2>1. 1 \in 1 .. 2
    OBVIOUS
  <2> QED
    BY <2>1, Slices
<1>b. /\ Slice(2, 0, n) \in Seq(Bytes) /\ Len(Slice(2, 0, n)) = n
      /\ \A k \in 1 .. n : Slice(2, 0, n)[k] = <<2, k - 1>>
  <2>1. 2 \in 1 .. 2 /\ 0 \in Nat
    OBVIOUS
  <2>2. /\ Slice(2, 0, n) \in Seq(Bytes) /\ Len(Slice(2, 0, n)) = n
        /\ \A k \in 1 .. n : Slice(2, 0, n)[k] = <<2, 0 + k - 1>>
    BY <2>1, Slices
  <2> QED
    BY <2>2
<1>c. /\ FileSlice(from) \in Seq(Bytes) /\ Len(FileSlice(from)) = m + n
      /\ \A k \in 1 .. m + n : FileSlice(from)[k] = FileByte(from + k - 1)
  <2>1. m + n \in Nat
    OBVIOUS
  <2> QED
    BY <2>1, FileSlices
<1>2. /\ Slice(1, from, m) \o Slice(2, 0, n) \in Seq(Bytes)
      /\ Len(Slice(1, from, m) \o Slice(2, 0, n)) = m + n
      /\ \A k \in 1 .. m + n : (Slice(1, from, m) \o Slice(2, 0, n))[k] =
           IF k <= m THEN Slice(1, from, m)[k] ELSE Slice(2, 0, n)[k - m]
  <2> DEFINE s == Slice(1, from, m)
             u == Slice(2, 0, n)
  <2>1. s \in Seq(Bytes) /\ u \in Seq(Bytes) /\ Len(s) = m /\ Len(u) = n
    BY <1>a, <1>b
  <2> HIDE DEF s, u
  <2>2. /\ s \o u \in Seq(Bytes)
        /\ Len(s \o u) = m + n
        /\ \A k \in 1 .. m + n : (s \o u)[k] = IF k <= m THEN s[k] ELSE u[k - m]
    BY <2>1, Concat
  <2> QED
    BY <2>2 DEF s, u
<1>3. ASSUME NEW k \in 1 .. m + n
      PROVE  (Slice(1, from, m) \o Slice(2, 0, n))[k] = FileSlice(from)[k]
  <2>1. FileSlice(from)[k] = FileByte(from + k - 1)
    BY <1>c
  <2>2. CASE k <= m
    <3>1. Slice(1, from, m)[k] = <<1, from + k - 1>>
      BY <1>a, <2>2
    <3>2. FileByte(from + k - 1) = <<1, from + k - 1>>
      BY <2>2, SizesPositive DEF FileByte
    <3> QED
      BY <1>2, <2>1, <2>2, <3>1, <3>2
  <2>3. CASE k > m
    <3>1. k - m \in 1 .. n
      BY <2>3
    <3>2. Slice(2, 0, n)[k - m] = <<2, k - m - 1>>
      BY <1>b, <3>1
    <3>3. FileByte(from + k - 1) = <<2, k - m - 1>>
      BY <2>3, SizesPositive DEF FileByte
    <3>4. ~(k <= m)
      BY <2>3
    <3>5. (Slice(1, from, m) \o Slice(2, 0, n))[k] = Slice(2, 0, n)[k - m]
      BY <1>2, <3>4
    <3> QED
      BY <2>1, <3>2, <3>3, <3>5
  <2>4. k <= m \/ k > m
    OBVIOUS
  <2> QED
    BY <2>2, <2>3, <2>4
<1> QED
  BY <1>2, <1>3, <1>c, SeqEqual

\* A round of the loop that has nothing to copy from a child skips it.
LEMMA Skips ==
  ASSUME NEW child \in 1 .. 2, NEW bytes, NEW size \in Nat, NEW offs \in Nat,
         ~(offs < ChildSizes[child] /\ size > 0)
  PROVE  outputChild([bytes |-> bytes, size |-> size, offset |-> offs], child) =
           [bytes |-> bytes, size |-> size, offset |-> offs - ChildSizes[child]]
BY DEF outputChild

\* The loop reads the page from the first child, from the second, or from both.
LEMMA LoopRight ==
  ASSUME NEW from \in Nat,
         NEW start, start = [bytes |-> <<>>, size |-> Page, offset |-> from],
         NEW mid, mid = outputChild(start, 1)
  PROVE  outputChild(mid, 2).bytes = IF from < Total THEN FileSlice(from) ELSE <<>>
<1>1. /\ ChildSizes[1] \in Nat \ {0} /\ ChildSizes[2] \in Nat \ {0}
      /\ Total = ChildSizes[1] + ChildSizes[2] /\ Page \in Nat \ {0}
  BY SizesPositive, PageAssumption
<1>3. 1 \in 1 .. 2 /\ 2 \in 1 .. 2
  OBVIOUS
<1>4. CASE from < ChildSizes[1]
  <2>1. PICK m \in Int : m = least(Page, ChildSizes[1] - from)
    BY <1>1 DEF least
  <2>2. /\ m \in Nat \ {0}
        /\ mid = [bytes |-> <<>> \o Slice(1, from, m), size |-> Page - m, offset |-> 0]
    <3>1. Page \in Nat /\ Page > 0
      BY <1>1
    <3>2. /\ m \in Nat \ {0}
          /\ outputChild([bytes |-> <<>>, size |-> Page, offset |-> from], 1) =
               [bytes |-> <<>> \o Slice(1, from, m), size |-> Page - m, offset |-> 0]
      <4>1. m \in Nat \ {0}
        BY <1>1, <1>4, <2>1 DEF least
      <4> QED
        BY <1>4, <2>1, <3>1, <4>1 DEF outputChild
    <3> QED
      BY <3>2
  <2>3. m <= Page /\ from + m <= ChildSizes[1] /\ (m < Page => m = ChildSizes[1] - from)
    BY <1>1, <2>1 DEF least
  <2>4. Slice(1, from, m) \in Seq(Bytes)
    BY <1>3, <2>2, Slices
  <2>5. <<>> \o Slice(1, from, m) = Slice(1, from, m)
    BY <2>4, ConcatEmptySeq
  <2>6. CASE m = Page
    <3>1. m = least(from + Page, Total) - from
      BY <1>1, <2>3, <2>6 DEF least
    <3>2. mid = [bytes |-> Slice(1, from, m), size |-> 0, offset |-> 0]
      BY <1>1, <2>2, <2>5, <2>6
    <3>3. outputChild(mid, 2) =
            [bytes |-> Slice(1, from, m), size |-> 0, offset |-> 0 - ChildSizes[2]]
      <4> DEFINE whole == Slice(1, from, m)
      <4> HIDE DEF whole
      <4>1. outputChild([bytes |-> whole, size |-> 0, offset |-> 0], 2) =
              [bytes |-> whole, size |-> 0, offset |-> 0 - ChildSizes[2]]
        BY <1>1, Skips
      <4> QED
        BY <3>2, <4>1 DEF whole
    <3>4. Slice(1, from, m) = FileSlice(from)
      BY <2>2, <2>3, <3>1, FirstChild
    <3>5. from < Total
      BY <1>1, <1>4
    <3> QED
      BY <3>3, <3>4, <3>5
  <2>7. CASE m < Page
    <3>1. PICK n \in Int : n = least(Page - m, ChildSizes[2] - 0)
      BY <1>1, <2>2 DEF least
    <3>2. /\ mid = [bytes |-> Slice(1, from, m), size |-> Page - m, offset |-> 0]
          /\ Page - m \in Nat /\ Page - m > 0 /\ 0 < ChildSizes[2]
      BY <1>1, <2>2, <2>5, <2>7
    <3>3. /\ n \in Nat \ {0}
          /\ outputChild(mid, 2) = [bytes |-> Slice(1, from, m) \o Slice(2, 0, n),
                                    size |-> Page - m - n, offset |-> 0]
      <4>1. 0 \in Nat
        OBVIOUS
      <4>2. /\ n \in Nat \ {0}
            /\ outputChild([bytes |-> Slice(1, from, m), size |-> Page - m, offset |-> 0], 2) =
                 [bytes |-> Slice(1, from, m) \o Slice(2, 0, n), size |-> Page - m - n, offset |-> 0]
        <5>1. n \in Nat \ {0}
          BY <1>1, <2>2, <3>1, <3>2 DEF least
        <5> QED
          BY <3>1, <3>2, <5>1 DEF outputChild
      <4> QED
        BY <3>2, <4>2
    <3>4. m = ChildSizes[1] - from /\ m + n = least(from + Page, Total) - from
      BY <1>1, <2>2, <2>3, <2>7, <3>1, SMTT(30) DEF least
    <3>5. Slice(1, from, m) \o Slice(2, 0, n) = FileSlice(from)
      BY <2>2, <3>3, <3>4, BothChildren
    <3>6. from < Total
      BY <1>1, <1>4
    <3> QED
      BY <3>3, <3>5, <3>6
  <2> QED
    BY <1>1, <2>2, <2>3, <2>6, <2>7
<1>5. CASE ~(from < ChildSizes[1])
  <2> DEFINE first == from - ChildSizes[1]
  <2>1. first \in Nat
    BY <1>1, <1>5
  <2>2. mid = [bytes |-> <<>>, size |-> Page, offset |-> first]
    BY <1>1, <1>3, <1>5, Skips
  <2>3. from < Total <=> first < ChildSizes[2]
    BY <1>1
  <2>4. ASSUME NEW n \in Int, n = least(Page, ChildSizes[2] - first), first < ChildSizes[2]
        PROVE  outputChild(mid, 2).bytes = FileSlice(from)
    <3>1. n = least(from + Page, Total) - from
      BY <1>1, <2>1, <2>4 DEF least
    <3> HIDE DEF first
    <3>2. /\ n \in Nat \ {0}
          /\ outputChild(mid, 2) = [bytes |-> <<>> \o Slice(2, first, n),
                                    size |-> Page - n, offset |-> 0]
      <4>1. Page \in Nat /\ Page > 0
        BY <1>1
      <4> QED
        <5>1. n \in Nat \ {0}
          BY <1>1, <2>1, <2>4, <4>1 DEF least
        <5>2. outputChild([bytes |-> <<>>, size |-> Page, offset |-> first], 2) =
                [bytes |-> <<>> \o Slice(2, first, n), size |-> Page - n, offset |-> 0]
          BY <2>1, <2>4, <4>1, <5>1 DEF outputChild
        <5> QED
          BY <2>2, <5>1, <5>2
    <3>3. Slice(2, first, n) \in Seq(Bytes)
      BY <1>3, <2>1, <3>2, Slices
    <3>4. outputChild(mid, 2).bytes = Slice(2, first, n)
      BY <3>2, <3>3, ConcatEmptySeq
    <3>5. first = from - ChildSizes[1]
      BY DEF first
    <3> QED
      BY <2>1, <3>1, <3>2, <3>4, <3>5, SecondChild
  <2>5. ASSUME ~(first < ChildSizes[2])
        PROVE  outputChild(mid, 2).bytes = <<>>
    <3> HIDE DEF first
    <3>1. outputChild(mid, 2) =
            [bytes |-> <<>>, size |-> Page, offset |-> first - ChildSizes[2]]
      BY <1>1, <1>3, <2>1, <2>2, <2>5, Skips, SMTT(30)
    <3> QED
      BY <3>1
  <2>6. least(Page, ChildSizes[2] - first) \in Int
    BY <1>1, <2>1 DEF least
  <2> HIDE DEF first
  <2> QED
    BY <2>3, <2>4, <2>5, <2>6
<1> QED
  BY <1>4, <1>5

\* With a size that is at least the sum, output gives all the bytes of the page;
\* with any other it may give none.
LEMMA OutputRight ==
  ASSUME NEW from \in Nat, NEW size \in Nat
  PROVE  /\ output(size, from) \in {FileSlice(from), <<>>}
         /\ from < Total /\ size >= Total => output(size, from) = FileSlice(from)
         /\ ~(from < Total) => output(size, from) = <<>>
<1>1. output(size, from) = IF from < size /\ from < Total THEN FileSlice(from) ELSE <<>>
  BY LoopRight DEF output
<1>2. Total \in Nat
  BY SizesPositive
<1> QED
  BY <1>1, <1>2

-----------------------------------------------------------------------------
(* The handlers. *)

\* A read that is done got what output gives for the size that getSize returned.
Replied ==
  \A t \in Threads : Served(t, "read") => reply[t] = output(answer[t], offset[t])

\* A thread that nobody else counted beside goes by what it alone has added up,
\* or by a size that had settled before.
Undisturbed ==
  \A t \in Threads : pc[t] # "idle" /\ ~disturbed[t] =>
    /\ \A u \in Threads \ {t} : ~Counting(u)
    /\ pc[t] = "return" => _size >= Total /\ register[t] >= Total
    /\ pc[t] = "done" => answer[t] >= Total

FInv == IInv /\ FileTypeOK /\ Replied /\ Undisturbed

\* What output returns has the type of a reply.
LEMMA OutputType ==
  ASSUME NEW from \in Nat, NEW size \in Nat
  PROVE  output(size, from) \in Seq((1 .. 2) \X Nat) /\ Len(output(size, from)) <= Page
<1>1. CASE output(size, from) = <<>>
  BY <1>1, PageAssumption
<1>2. CASE output(size, from) # <<>>
  <2>1. from < Total /\ output(size, from) = FileSlice(from)
    BY <1>2, OutputRight
  <2>2. PICK n \in Nat : n = least(from + Page, Total) - from /\ n <= Page
    BY <2>1, SizesPositive, PageAssumption DEF least
  <2> QED
    BY <2>1, <2>2, FileSlices DEF Bytes
<1> QED
  BY <1>1, <1>2

\* The types of what a thread holds.
LEMMA ThreadTypes ==
  ASSUME FInv, NEW t \in Threads
  PROVE  answer[t] \in Nat /\ offset[t] \in Nat /\ Len(reply[t]) \in Nat
<1>1. answer[t] \in Nat
  BY DEF FInv, IInv, TypeOK
<1>2. offset[t] \in Offsets \cup {0}
  BY DEF FInv, FileTypeOK
<1>3. Offsets \cup {0} \subseteq Nat
  BY PageAssumption
<1>4. reply[t] \in Seq((1 .. 2) \X Nat)
  BY DEF FInv, FileTypeOK
<1>5. Len(reply[t]) \in Nat
  BY <1>4, LenProperties
<1> QED
  BY <1>1, <1>2, <1>3, <1>5

\* The invariant holds when a stream is first served.
LEMMA FileInitInvariant == FileInit => FInv
<1> SUFFICES ASSUME FileInit
             PROVE  FInv
  OBVIOUS
<1>1. IInv
  BY InitInvariant DEF FileInit
<1>2. FileTypeOK
  BY PageAssumption DEF FileInit, FileTypeOK
<1>3. Replied /\ Undisturbed
  BY DEF FileInit, Init, Replied, Undisturbed, Served
<1> QED
  BY <1>1, <1>2, <1>3 DEF FInv

\* All variables of the file keep their types.
LEMMA FileTypeStep ==
  ASSUME FInv, NEW t \in Threads, Getattr(t) \/ Read(t) \/ Serve(t)
  PROVE  FileTypeOK'
<1> USE DEF FInv, FileTypeOK
<1>1. disturbed' \in [Threads -> BOOLEAN]
  BY DEF Getattr, Read, Serve, Count, Sized, ReplySize, ReplyBytes, Disturb
<1>2. CASE Getattr(t) \/ Read(t) \/ Count(t)
  BY <1>1, <1>2 DEF Getattr, Read, Count, request
<1>3. CASE Sized(t)
  <2>1. answer'[t] \in Nat /\ offset[t] \in Nat
    BY <1>3, ThreadTypes DEF Sized, Return, IInv, TypeOK
  <2>2. /\ output(answer'[t], offset[t]) \in Seq((1 .. 2) \X Nat)
        /\ Len(output(answer'[t], offset[t])) <= Page
    BY <2>1, OutputType
  <2>3. \A u \in Threads : reply'[u] = reply[u] \/ reply'[u] = output(answer'[t], offset[t])
    BY <1>3 DEF Sized
  <2> QED
    BY <1>1, <1>3, <2>2, <2>3 DEF Sized, request
<1>4. CASE ReplySize(t)
  BY <1>1, <1>4 DEF ReplySize, IInv, TypeOK
<1>5. CASE ReplyBytes(t)
  <2>1. Len(reply[t]) \in Nat /\ offset[t] \in Nat
    BY ThreadTypes
  <2>2. told' \in Nat
    BY <1>5, <2>1 DEF ReplyBytes
  <2>3. <<>> \in Seq((1 .. 2) \X Nat) /\ Len(<<>>) <= Page
    BY PageAssumption
  <2>4. \A u \in Threads : reply'[u] = reply[u] \/ reply'[u] = <<>>
    BY <1>5 DEF ReplyBytes
  <2> QED
    BY <1>1, <1>5, <2>2, <2>3, <2>4 DEF ReplyBytes
<1> QED
  BY <1>2, <1>3, <1>4, <1>5 DEF Serve

\* A reply goes with the answer and the offset it was made from.
LEMMA RepliedStep ==
  ASSUME FInv, NEW t \in Threads, Getattr(t) \/ Read(t) \/ Serve(t)
  PROVE  Replied'
<1> USE DEF FInv, Replied, Served, IInv, TypeOK, FileTypeOK, Goto
<1>1. CASE Getattr(t)
  BY <1>1 DEF Getattr, Call
<1>2. CASE Read(t)
  BY <1>2 DEF Read, Call
<1>3. CASE Count(t)
  BY <1>3 DEF Count, Load, Store, request
<1>4. CASE Sized(t)
  <2>1. /\ op' = op /\ offset' = offset
        /\ pc'[t] = "done" /\ \A u \in Threads \ {t} : pc'[u] = pc[u] /\ answer'[u] = answer[u]
    BY <1>4 DEF Sized, Return, request
  <2>2. op[t] = "read" => reply'[t] = output(answer'[t], offset[t])
    BY <1>4 DEF Sized
  <2>3. \A u \in Threads \ {t} : reply'[u] = reply[u]
    BY <1>4 DEF Sized
  <2> QED
    BY <2>1, <2>2, <2>3
<1>5. CASE ReplySize(t)
  BY <1>5 DEF ReplySize, Again
<1>6. CASE ReplyBytes(t)
  BY <1>6 DEF ReplyBytes, Again
<1> QED
  BY <1>1, <1>2, <1>3, <1>4, <1>5, <1>6 DEF Serve

\* A thread u beside which nobody counts after a step had nobody beside it before:
\* another thread's step has left the size alone, and its own has made the most of it.
LEMMA UndisturbedStep ==
  ASSUME FInv, NEW t \in Threads, Getattr(t) \/ Read(t) \/ Serve(t)
  PROVE  Undisturbed'
<1> SUFFICES ASSUME NEW u \in Threads, pc'[u] # "idle", ~disturbed'[u]
             PROVE  /\ \A v \in Threads \ {u} : ~Counting(v)'
                    /\ pc'[u] = "return" => _size' >= Total /\ register'[u] >= Total
                    /\ pc'[u] = "done" => answer'[u] >= Total
  BY DEF Undisturbed, Counting
<1> USE DEF FInv, IInv, TypeOK, Goto
<1>1. ~disturbed[u] /\ \A v \in Threads \ {u} : ~Counting(v)'
  BY DEF Getattr, Read, Serve, Count, Sized, ReplySize, ReplyBytes, Disturb, FileTypeOK
<1>2. Call(t) \/ Load(t) \/ Store(t) \/ Return(t) \/ Again(t)
  BY DEF Getattr, Read, Serve, Count, Sized, ReplySize, ReplyBytes
<1>3. Total \in Nat /\ Total > 0
  BY SizesPositive
<1>4. CASE t # u
  <2>1. pc[u] # "idle" /\ pc'[u] = pc[u] /\ register'[u] = register[u] /\ answer'[u] = answer[u]
    BY <1>2, <1>4 DEF Call, Load, Store, Return, Again
  <2>2. ~Counting(t)
    BY <1>1, <1>4, <2>1 DEF Undisturbed
  <2>3. _size' = _size
    BY <1>2, <2>2 DEF Call, Load, Store, Return, Again, Counting
  <2> QED
    BY <1>1, <2>1, <2>3 DEF Undisturbed
<1>5. CASE t = u
  <2>1. CASE Call(u)
    <3>1. \A v \in Threads : ~Counting(v)
      BY <1>1, <2>1 DEF Call, Counting
    <3>2. _size = 0 \/ _size >= Total
      BY <3>1 DEF NeverSettlesShort
    <3> QED
      BY <1>1, <1>3, <2>1, <3>2 DEF Call
  <2>2. CASE Load(u)
    BY <1>1, <2>2 DEF Load
  <2>3. CASE Store(u)
    <3>1. i[u] = 1 => _size' >= Total /\ register'[u] >= Total
      BY <2>3, SizesPositive DEF Store, FirstChildSeen
    <3>2. i[u] = 0 => pc'[u] = "load"
      BY <2>3 DEF Store
    <3>3. i[u] = 0 \/ i[u] = 1
      BY <2>3 DEF Store, FirstChildSeen, Counting
    <3> QED
      BY <1>1, <2>3, <3>1, <3>2, <3>3 DEF Store
  <2>4. CASE Return(u)
    <3>1. _size >= Total /\ register[u] >= Total
      BY <1>1, <2>4 DEF Return, Undisturbed
    <3> QED
      BY <1>1, <2>4, <3>1 DEF Return
  <2>5. CASE Again(u)
    BY <2>5 DEF Again
  <2> QED
    BY <1>2, <1>5, <2>1, <2>2, <2>3, <2>4, <2>5
<1> QED
  BY <1>4, <1>5

\* No step of a handler violates the invariant.
LEMMA FileNextInvariant == FInv /\ [FileNext]_fileVars => FInv'
<1> SUFFICES ASSUME FInv, [FileNext]_fileVars
             PROVE  FInv'
  OBVIOUS
<1>1. IInv'
  BY StepsAreSteps, NextInvariant DEF FInv
<1>2. ASSUME NEW t \in Threads, Getattr(t) \/ Read(t) \/ Serve(t)
      PROVE  FInv'
  BY <1>1, <1>2, FileTypeStep, RepliedStep, UndisturbedStep DEF FInv
<1>3. CASE UNCHANGED fileVars
  BY <1>1, <1>3 DEF fileVars, request, vars, FInv, FileTypeOK, Replied, Undisturbed, Served, Counting
<1> QED
  BY <1>2, <1>3 DEF FileNext

\* The requests, the replies and the size the kernel knows keep their types; no
\* reply is longer than a page.
THEOREM FileTypeInvariant == FileSpec => []FileTypeOK
<1>1. FInv => FileTypeOK
  BY DEF FInv
<1> QED
  BY <1>1, FileInitInvariant, FileNextInvariant, PTL DEF FileSpec

\* A read is answered with all the bytes of its page or with none, whatever size
\* the race on _size made output compare its offset with.
THEOREM AllOrNothingInvariant == FileSpec => []AllOrNothing
<1>1. ASSUME FInv
      PROVE  AllOrNothing
  <2> SUFFICES ASSUME NEW t \in Threads, Served(t, "read")
               PROVE  reply[t] \in {FileSlice(offset[t]), <<>>}
    BY DEF AllOrNothing
  <2>1. answer[t] \in Nat /\ offset[t] \in Nat
    BY <1>1, ThreadTypes
  <2>2. reply[t] = output(answer[t], offset[t])
    BY <1>1 DEF FInv, Replied
  <2> QED
    BY <2>1, <2>2, OutputRight
<1> QED
  BY <1>1, FileInitInvariant, FileNextInvariant, PTL DEF FileSpec

\* A read of bytes that exist gets them all unless another thread was summing
\* up the children during the call.
THEOREM NoFalseEndInvariant == FileSpec => []NoFalseEnd
<1>1. ASSUME FInv
      PROVE  NoFalseEnd
  <2> SUFFICES ASSUME NEW t \in Threads,
                      Served(t, "read"), offset[t] < Total, ~disturbed[t]
               PROVE  reply[t] = FileSlice(offset[t])
    BY DEF NoFalseEnd
  <2>1. answer[t] \in Nat /\ offset[t] \in Nat
    BY <1>1, ThreadTypes
  <2>2. reply[t] = output(answer[t], offset[t])
    BY <1>1 DEF FInv, Replied
  <2>3. answer[t] >= Total
    BY <1>1 DEF FInv, Undisturbed, Served
  <2> QED
    BY <2>1, <2>2, <2>3, OutputRight
<1> QED
  BY <1>1, FileInitInvariant, FileNextInvariant, PTL DEF FileSpec
=============================================================================
