---------------------------- MODULE SizeMemoProofs ----------------------------
(***************************************************************************)
(* What the race on _size cannot do, for any number of threads and any     *)
(* sizes of the two children.                                              *)
(***************************************************************************)
EXTENDS SizeMemo, FiniteSetTheorems, TLAPS

\* A thread that has added the first child finds at least that child's size in
\* the member, whatever was stored there meanwhile.
FirstChildSeen ==
  /\ \A t \in Threads : Counting(t) => i[t] \in 0 .. 1
  /\ \A t \in Threads : Counting(t) /\ i[t] = 1 => _size >= ChildSizes[1]
  /\ \A t \in Threads : pc[t] = "store" /\ i[t] = 1 => register[t] >= ChildSizes[1]
  /\ _size = 0 \/ _size >= ChildSizes[1]

IInv == TypeOK /\ FirstChildSeen /\ NeverSettlesShort

\* The sizes that are added up are positive.
LEMMA SizesPositive ==
  /\ ChildSizes[1] \in Nat \ {0}
  /\ ChildSizes[2] \in Nat \ {0}
  /\ Total = ChildSizes[1] + ChildSizes[2]
BY ChildSizesAssumption DEF Total

\* The inductive invariant holds of a new node.
LEMMA InitInvariant == Init => IInv
BY DEF Init, IInv, TypeOK, FirstChildSeen, NeverSettlesShort, Counting

\* No step of any thread violates it.
LEMMA NextInvariant == IInv /\ [Next]_vars => IInv'
<1> SUFFICES ASSUME IInv, [Next]_vars
             PROVE  IInv'
  OBVIOUS
<1> USE SizesPositive DEF IInv, TypeOK, FirstChildSeen, Counting, Goto
<1>1. ASSUME NEW t \in Threads, Call(t)
      PROVE  IInv'
  BY <1>1 DEF Call, NeverSettlesShort
<1>2. ASSUME NEW t \in Threads, Load(t)
      PROVE  IInv'
  BY <1>2 DEF Load, NeverSettlesShort
<1>3. ASSUME NEW t \in Threads, Store(t)
      PROVE  IInv'
  <2>1. CASE i[t] = 0
    \* The thread goes on counting, and what it stored is no less than the
    \* first child's size.
    <3>1. _size' >= ChildSizes[1] /\ i'[t] = 1 /\ pc'[t] = "load"
      BY <1>3, <2>1 DEF Store
    <3> QED
      BY <1>3, <2>1, <3>1 DEF Store, NeverSettlesShort
  <2>2. CASE i[t] = 1
    \* What it stored last is no less than the sum.
    <3>1. _size' >= Total /\ pc'[t] = "return"
      BY <1>3, <2>2 DEF Store
    <3> QED
      BY <1>3, <2>2, <3>1 DEF Store, NeverSettlesShort
  <2> QED
    BY <1>3, <2>1, <2>2 DEF Store
<1>4. ASSUME NEW t \in Threads, Return(t) \/ Again(t)
      PROVE  IInv'
  BY <1>4 DEF Return, Again, NeverSettlesShort
<1>5. CASE UNCHANGED vars
  BY <1>5 DEF vars, NeverSettlesShort
<1> QED
  BY <1>1, <1>2, <1>3, <1>4, <1>5 DEF Next

\* All variables keep their types.
THEOREM SizeTypeInvariant == Spec => []TypeOK
<1>1. IInv => TypeOK
  BY DEF IInv
<1> QED
  BY <1>1, InitInvariant, NextInvariant, PTL DEF Spec

\* Once nobody counts any more, the cached size is not below the sum of the
\* two children: no race cuts off the end of a file for good.
THEOREM NeverSettlesShortInvariant == Spec => []NeverSettlesShort
<1>1. IInv => NeverSettlesShort
  BY DEF IInv
<1> QED
  BY <1>1, InitInvariant, NextInvariant, PTL DEF Spec

-----------------------------------------------------------------------------
(* How much can be counted.  A thread only begins to count while the member *)
(* is zero, and it stays above zero once anybody has stored: so each thread *)
(* counts once, and what it added is in the member at most once.            *)

\* Threads that have added the first child and not yet the second.
Halfway == {t \in Threads : Counting(t) /\ i[t] = 1}

\* What n threads that have counted and h threads halfway can have added.
Share(n, h) == n * Total + h * ChildSizes[1]

\* C are the threads that have counted.
CountedBy(C) ==
  /\ \A t \in C : ~Counting(t)
  /\ C # {} => _size > 0
  /\ _size <= Share(Cardinality(C), Cardinality(Halfway))
  /\ \A t \in Threads :
       pc[t] = "store" => register[t] <= Share(Cardinality(C), Cardinality(Halfway))

Counted == \E C \in SUBSET Threads : CountedBy(C)

\* Any set of threads has a number of members.
LEMMA Numbers ==
  ASSUME NEW C \in SUBSET Threads
  PROVE  IsFiniteSet(C) /\ Cardinality(C) \in Nat /\ Cardinality(C) <= Cardinality(Threads)
BY ThreadsAssumption, FS_Subset, FS_CardinalityType

\* What is needed of multiplication.
LEMMA Products ==
  ASSUME NEW m \in Nat, NEW k \in Nat, NEW x \in Nat, NEW y \in Nat
  PROVE  /\ m * x \in Nat
         /\ m * (x + y) = m * x + m * y
         /\ (m + k) * x = m * x + k * x
         /\ (m + 1) * x = m * x + x
         /\ (m - 1) * x = m * x - x
OBVIOUS

\* Shares are numbers, grow by what a thread adds, and with both numbers are
\* bounded by one sum per thread.
LEMMA Shares ==
  ASSUME NEW n \in Nat, NEW h \in Nat
  PROVE  /\ Share(n, h) \in Nat
         /\ Share(n, h + 1) = Share(n, h) + ChildSizes[1]
         /\ h > 0 => Share(n + 1, h - 1) = Share(n, h) + ChildSizes[2]
         /\ Share(n, h) <= (n + h) * Total
<1> DEFINE a == ChildSizes[1]
           b == ChildSizes[2]
<1>1. a \in Nat /\ b \in Nat /\ Total = a + b /\ ChildSizes[1] = a
  BY SizesPositive
<1> HIDE DEF a, b
<1>2. Share(n, h) = n * a + n * b + h * a
  <2>1. n * Total = n * a + n * b
    BY <1>1, Products
  <2> QED
    BY <1>1, <2>1 DEF Share
<1>3. Share(n, h + 1) = n * a + n * b + h * a + a
  <2>1. n * Total = n * a + n * b /\ (h + 1) * a = h * a + a
    BY <1>1, Products
  <2>2. Share(n, h + 1) = n * Total + (h + 1) * a
    BY <1>1 DEF Share
  <2> QED
    BY <1>1, <2>1, <2>2, Products
<1>4. h > 0 => Share(n + 1, h - 1) = n * a + a + n * b + b + h * a - a
  <2> SUFFICES ASSUME h > 0
               PROVE  Share(n + 1, h - 1) = n * a + a + n * b + b + h * a - a
    OBVIOUS
  <2>1. Share(n + 1, h - 1) = (n + 1) * Total + (h - 1) * a
    BY <1>1 DEF Share
  <2>2. (n + 1) * Total = (n + 1) * a + (n + 1) * b
    BY <1>1, Products
  <2>3. (n + 1) * a = n * a + a /\ (n + 1) * b = n * b + b /\ (h - 1) * a = h * a - a
    BY <1>1, Products
  <2>4. n * a \in Nat /\ n * b \in Nat /\ h * a \in Nat
    BY <1>1, Products
  <2> QED
    BY <1>1, <2>1, <2>2, <2>3, <2>4
<1>5. (n + h) * Total = n * a + h * a + n * b + h * b
  <2>1. (n + h) * Total = (n + h) * a + (n + h) * b
    BY <1>1, Products
  <2>2. (n + h) * a = n * a + h * a /\ (n + h) * b = n * b + h * b
    BY <1>1, Products
  <2> QED
    BY <1>1, <2>1, <2>2, Products
<1>6. n * a \in Nat /\ n * b \in Nat /\ h * a \in Nat /\ h * b \in Nat
  BY <1>1, Products
<1>7. Share(n, h) \in Nat /\ Share(n, h + 1) = Share(n, h) + a /\ Share(n, h) <= (n + h) * Total
  BY <1>1, <1>2, <1>3, <1>5, <1>6
<1>8. h > 0 => Share(n + 1, h - 1) = Share(n, h) + b
  BY <1>1, <1>2, <1>4, <1>6
<1> QED
  BY <1>7, <1>8 DEF a, b

\* Threads that are halfway have not counted.
LEMMA CountedBounds == TypeOK /\ Counted => CountedOncePerThread
<1> SUFFICES ASSUME TypeOK, NEW C \in SUBSET Threads, CountedBy(C)
             PROVE  CountedOncePerThread
  BY DEF Counted
<1> DEFINE c == Cardinality(C)
           h == Cardinality(Halfway)
           n == Cardinality(Threads)
<1>1. Halfway \in SUBSET Threads /\ C \cap Halfway = {}
  BY DEF Halfway, CountedBy
<1>2. c \in Nat /\ h \in Nat /\ n \in Nat
  BY <1>1, Numbers
<1>3. c + h <= n
  <2>1. Cardinality(C \cup Halfway) = c + h - Cardinality(C \cap Halfway)
    BY <1>1, Numbers, FS_Union
  <2>2. Cardinality(C \cap Halfway) = 0
    BY <1>1, FS_EmptySet
  <2>3. Cardinality(C \cup Halfway) <= n
    BY <1>1, Numbers
  <2> QED
    BY <1>2, <2>1, <2>2, <2>3
<1>4. (c + h) * Total <= n * Total
  BY <1>2, <1>3, SizesPositive
<1>5. _size <= Share(c, h) /\ Share(c, h) <= (c + h) * Total /\ Share(c, h) \in Nat
  BY <1>2, Shares DEF CountedBy
<1>6. (c + h) * Total \in Nat /\ n * Total \in Nat
  BY <1>2, SizesPositive
<1>7. _size <= n * Total
  <2> HIDE DEF c, h, n
  <2> QED
    BY <1>4, <1>5, <1>6 DEF TypeOK
<1> QED
  BY <1>7 DEF CountedOncePerThread

\* Of a new node nobody has counted anything.
LEMMA InitCounted == Init => Counted
<1> SUFFICES ASSUME Init
             PROVE  CountedBy({})
  BY DEF Counted
<1>1. Halfway \in SUBSET Threads
  BY DEF Halfway
<1>2. Cardinality({}) \in Nat /\ Cardinality(Halfway) \in Nat
  BY <1>1, Numbers
<1>3. 0 <= Share(Cardinality({}), Cardinality(Halfway))
  BY <1>2, Shares
<1> QED
  BY <1>3 DEF Init, CountedBy, Counting

\* No step adds more than the share of its thread.
LEMMA NextCounted == IInv /\ Counted /\ [Next]_vars => Counted'
<1> SUFFICES ASSUME IInv, [Next]_vars, NEW C \in SUBSET Threads, CountedBy(C)
             PROVE  Counted'
  BY DEF Counted
<1> USE DEF IInv, TypeOK, Goto
<1> DEFINE c == Cardinality(C)
           h == Cardinality(Halfway)
<1>0. /\ Halfway \in SUBSET Threads
      /\ IsFiniteSet(C) /\ IsFiniteSet(Halfway)
      /\ c \in Nat /\ h \in Nat
      /\ Share(c, h) \in Nat
  <2>1. Halfway \in SUBSET Threads
    BY DEF Halfway
  <2>2. c \in Nat /\ h \in Nat /\ IsFiniteSet(C) /\ IsFiniteSet(Halfway)
    BY <2>1, Numbers
  <2> QED
    BY <2>1, <2>2, Shares
<1>1. ASSUME NEW t \in Threads, Call(t)
      PROVE  Counted'
  <2>1. Halfway' = Halfway
    BY <1>1 DEF Call, Halfway, Counting
  <2>2. \A u \in C : ~Counting(u)'
    BY <1>1 DEF Call, CountedBy, Counting
  <2>3. CountedBy(C)'
    BY <1>1, <2>1, <2>2 DEF Call, CountedBy, Share, Total
  <2> QED
    BY <2>3 DEF Counted
<1>2. ASSUME NEW t \in Threads, Load(t)
      PROVE  Counted'
  <2>1. Halfway' = Halfway
    BY <1>2 DEF Load, Halfway, Counting
  <2>2. \A u \in C : ~Counting(u)'
    BY <1>2 DEF Load, CountedBy, Counting
  <2>3. CountedBy(C)'
    BY <1>2, <2>1, <2>2 DEF Load, CountedBy, Share, Total
  <2> QED
    BY <2>3 DEF Counted
<1>3. ASSUME NEW t \in Threads, Store(t), i[t] = 0
      PROVE  Counted'
  \* The thread comes to be halfway.
  <2>1. Halfway' = Halfway \cup {t} /\ t \notin Halfway
    BY <1>3 DEF Store, Halfway, Counting
  <2>2. Cardinality(Halfway') = h + 1
    BY <1>0, <2>1, FS_AddElement
  <2>3. Share(c, h + 1) = Share(c, h) + ChildSizes[1]
    BY <1>0, Shares
  <2>4. \A u \in C : ~Counting(u)'
    BY <1>3 DEF Store, CountedBy, Counting
  <2>5. /\ _size' = register[t] + ChildSizes[1] /\ register[t] <= Share(c, h)
        /\ \A u \in Threads : pc'[u] = "store" => u # t /\ register'[u] = register[u] /\ pc[u] = "store"
    BY <1>3 DEF Store, CountedBy
  <2>6. _size' > 0 /\ _size' <= Share(c, h + 1)
    BY <1>0, <2>3, <2>5, SizesPositive
  <2>7. \A u \in Threads : pc'[u] = "store" => register'[u] <= Share(c, h + 1)
    BY <1>0, <2>3, <2>5, SizesPositive DEF CountedBy
  <2>8. CountedBy(C)'
    BY <2>2, <2>4, <2>6, <2>7 DEF CountedBy, Share, Total
  <2> QED
    BY <2>8 DEF Counted
<1>4. ASSUME NEW t \in Threads, Store(t), i[t] = 1
      PROVE  Counted'
  \* The thread has counted.
  <2> DEFINE D == C \cup {t}
  <2>1. Halfway' = Halfway \ {t} /\ t \in Halfway /\ t \notin C
    BY <1>4 DEF Store, Halfway, Counting, CountedBy
  <2>2. Cardinality(Halfway') = h - 1 /\ Cardinality(D) = c + 1 /\ h > 0
    <3>1. Cardinality(Halfway') = h - 1 /\ Cardinality(D) = c + 1
      BY <1>0, <2>1, FS_RemoveElement, FS_AddElement
    <3>2. h # 0
      BY <1>0, <2>1, FS_EmptySet
    <3> QED
      BY <1>0, <3>1, <3>2
  <2>3. Share(c + 1, h - 1) = Share(c, h) + ChildSizes[2]
    BY <1>0, <2>2, Shares
  <2>4. \A u \in D : ~Counting(u)'
    BY <1>4 DEF Store, CountedBy, Counting
  <2>5. /\ _size' = register[t] + ChildSizes[2] /\ register[t] <= Share(c, h)
        /\ \A u \in Threads : pc'[u] = "store" => u # t /\ register'[u] = register[u] /\ pc[u] = "store"
    BY <1>4 DEF Store, CountedBy
  <2>6. _size' > 0 /\ _size' <= Share(c + 1, h - 1)
    BY <1>0, <2>3, <2>5, SizesPositive
  <2>7. \A u \in Threads : pc'[u] = "store" => register'[u] <= Share(c + 1, h - 1)
    BY <1>0, <2>3, <2>5, SizesPositive DEF CountedBy
  <2>8. CountedBy(D)'
    BY <2>2, <2>4, <2>6, <2>7 DEF CountedBy, Share, Total
  <2> QED
    BY <2>8 DEF Counted
<1>5. ASSUME NEW t \in Threads, Return(t) \/ Again(t)
      PROVE  Counted'
  <2>1. Halfway' = Halfway
    BY <1>5 DEF Return, Again, Halfway, Counting
  <2>2. \A u \in C : ~Counting(u)'
    BY <1>5 DEF Return, Again, CountedBy, Counting
  <2>3. CountedBy(C)'
    BY <1>5, <2>1, <2>2 DEF Return, Again, CountedBy, Share, Total
  <2> QED
    BY <2>3 DEF Counted
<1>6. CASE UNCHANGED vars
  <2>1. Halfway' = Halfway
    BY <1>6 DEF vars, Halfway, Counting
  <2>2. CountedBy(C)'
    BY <1>6, <2>1 DEF vars, CountedBy, Counting, Share, Total
  <2> QED
    BY <2>2 DEF Counted
<1>7. ASSUME NEW t \in Threads, Store(t)
      PROVE  i[t] = 0 \/ i[t] = 1
  BY <1>7 DEF Store, FirstChildSeen, Counting
<1> QED
  BY <1>1, <1>2, <1>3, <1>4, <1>5, <1>6, <1>7 DEF Next

\* However the stores interleave, the member never exceeds one sum per thread.
THEOREM CountedOncePerThreadInvariant == Spec => []CountedOncePerThread
<1>1. IInv /\ Counted => CountedOncePerThread
  BY CountedBounds DEF IInv
<1> QED
  BY <1>1, InitInvariant, NextInvariant, InitCounted, NextCounted, PTL DEF Spec
=============================================================================
