--------------------------- MODULE ClusterCacheReads ---------------------------
(***************************************************************************)
(* Proofs about what a read of ClusterCache returns: for all reads, that   *)
(* it stays within the stream and that its chunks do not tear; for tamed   *)
(* clients, that it returns the bytes of the file.                         *)
(***************************************************************************)
EXTENDS ClusterCacheProofs

-----------------------------------------------------------------------------
(* Positions and clusters. *)

\* A request that goes on behind the cluster it starts in ends in a cluster of
\* the stream, and behind the first.
LEMMA Crossing ==
  ASSUME NEW r \in Requests,
         cluster_size(r.stream) < cluster_offset(r) + r.size
  PROVE  /\ cluster_number(r) + 1 <= NumClusters[r.stream]
         /\ last_cluster(r) # cluster_number(r)
<1> DEFINE c == cluster_size(r.stream)
           n == cluster_number(r)
           o == cluster_offset(r)
           N == NumClusters[r.stream]
           tail == tail_cluster_size(r.stream)
           l == last_cluster(r)
           e == r.offset + r.size - 1
<1>1. /\ r.stream \in Streams /\ r.size \in Nat \ {0} /\ n \in Nat
      /\ o \in 0 .. c - 1
      /\ r.offset \in Nat /\ r.offset = c * n + o
      /\ r.offset + r.size <= total_size(r.stream)
  BY RequestFacts
<1>2. /\ c \in Nat \ {0} /\ tail \in Nat \ {0} /\ tail < c
      /\ N \in Nat
  BY <1>1, Sizes, LayoutAssumption
<1>3. total_size(r.stream) = c * N + tail
  BY DEF total_size
<1>4. e \in Nat /\ l = e \div c
  BY <1>1 DEF last_cluster
<1>5. c < o + r.size
  OBVIOUS
<1> HIDE DEF c, n, o, N, tail, e
<1>6. l \in Nat /\ e % c \in 0 .. c - 1 /\ e = c * l + (e % c)
  BY <1>2, <1>4, Z3
<1>7. /\ c * n \in Nat /\ c * N \in Nat
      /\ c * (n + 1) = c * n + c /\ c * (N + 1) = c * N + c
  BY <1>1, <1>2, ProductInNat
<1>8. c * (n + 1) < c * (N + 1)
  BY <1>1, <1>2, <1>3, <1>5, <1>7
<1>9. n + 1 < N + 1
  BY <1>1, <1>2, <1>8, FactorLess
<1>10. l # n
  BY <1>1, <1>2, <1>5, <1>6, <1>7 DEF e
<1> QED
  BY <1>1, <1>2, <1>9, <1>10 DEF n, N

\* A request starts in a cluster of the stream, and if that is the tail it
\* ends within it.
LEMMA Starting ==
  ASSUME NEW r \in Requests
  PROVE  /\ cluster_number(r) <= NumClusters[r.stream]
         /\ cluster_number(r) = NumClusters[r.stream] =>
              cluster_offset(r) + r.size <= tail_cluster_size(r.stream)
         /\ cluster_number(r) + 1 = NumClusters[r.stream] =>
              cluster_offset(r) + r.size <=
                cluster_size(r.stream) + tail_cluster_size(r.stream)
<1> DEFINE c == cluster_size(r.stream)
           n == cluster_number(r)
           o == cluster_offset(r)
           N == NumClusters[r.stream]
           tail == tail_cluster_size(r.stream)
<1>1. /\ r.stream \in Streams /\ r.size \in Nat \ {0} /\ n \in Nat
      /\ o \in 0 .. c - 1
      /\ r.offset \in Nat /\ r.offset = c * n + o
      /\ r.offset + r.size <= total_size(r.stream)
  BY RequestFacts
<1>2. /\ c \in Nat \ {0} /\ tail \in Nat \ {0} /\ tail < c
      /\ N \in Nat
  BY <1>1, Sizes, LayoutAssumption
<1>3. total_size(r.stream) = c * N + tail
  BY DEF total_size
<1> HIDE DEF c, n, o, N, tail
<1>4. /\ c * n \in Nat /\ c * N \in Nat
      /\ c * (n + 1) = c * n + c /\ c * (N + 1) = c * N + c
  BY <1>1, <1>2, ProductInNat
<1>5. c * n < c * (N + 1)
  BY <1>1, <1>2, <1>3, <1>4
<1>6. n <= N
  BY <1>1, <1>2, <1>5, FactorLess
<1>7. n = N => o + r.size <= tail
  BY <1>1, <1>2, <1>3, <1>4
<1>8. n + 1 = N => o + r.size <= c + tail
  BY <1>1, <1>2, <1>3, <1>4
<1> QED
  BY <1>6, <1>7, <1>8 DEF n, N, o, tail, c

-----------------------------------------------------------------------------
(* The chunks of a read, whatever other reads do. *)

BeforeCopy(t) == pc[t] \notin {"resume", "return"}

\* Where in its cluster byte k of request r lies.
OffsetOf(r, k) ==
  IF cluster_offset(r) + k > cluster_size(r.stream)
  THEN cluster_offset(r) + k - 1 - cluster_size(r.stream)
  ELSE cluster_offset(r) + k - 1

\* How far a thread has come with its two chunks.
Place(t) ==
  LET r  == request[t]
      n  == cluster_number(r)
      c  == cluster_size(r.stream)
      o  == cluster_offset(r)
  IN /\ wanted[t] \in {n, n + 1}
     /\ wanted[t] <= NumClusters[r.stream]
     /\ wanted[t] = n =>
          /\ BeforeCopy(t) => Len(out[t]) = 0
          /\ Len(out[t]) <= c - o
     /\ wanted[t] = n + 1 =>
          /\ c < o + r.size
          /\ BeforeCopy(t) => Len(out[t]) = c - o
          /\ Len(out[t]) <= 2 * c - o

\* What it has in its buffer.
Untorn(t) ==
  LET r == request[t]
  IN /\ \A k \in 1 .. Len(out[t]) : out[t][k][2] = OffsetOf(r, k)
     /\ \A j, k \in 1 .. Len(out[t]) :
          SameChunk(r, j, k) => out[t][j][1] = out[t][k][1]

Chunks == \A t \in Threads : Active(t) => Place(t) /\ Untorn(t)

\* The numbers of a request that the steps of the proofs compute with.
LEMMA RequestNumbers ==
  ASSUME NEW r \in Requests
  PROVE  /\ cluster_number(r) \in Nat
         /\ cluster_size(r.stream) \in Nat \ {0}
         /\ cluster_offset(r) \in 0 .. cluster_size(r.stream) - 1
         /\ r.size \in Nat \ {0}
         /\ r.stream \in Streams
         /\ NumClusters[r.stream] \in Nat
BY RequestFacts, Sizes, LayoutAssumption

\* No element is longer than a full cluster.
LEMMA LongestCluster ==
  ASSUME NEW s \in Streams, NEW n \in 0 .. BlocksPerCluster
  PROVE  /\ ClusterBytes[s][n] \in Nat \ {0}
         /\ ClusterBytes[s][n] <= cluster_size(s)
<1>1. CASE n = BlocksPerCluster
  BY <1>1, LayoutAssumption DEF cluster_size
<1>2. CASE n < BlocksPerCluster
  BY <1>2, LayoutAssumption DEF cluster_size
<1> QED
  BY <1>1, <1>2, LayoutAssumption

\* A copy appends one chunk, at its place.
LEMMA CopyKeepsChunks ==
  ASSUME Control, Contents, Tags, Buffers, NEW t \in Threads, CopyChunk(t),
         Place(t), Untorn(t)
  PROVE  Place(t)' /\ Untorn(t)'
<1> DEFINE r == request[t]
           n == cluster_number(r)
           c == cluster_size(r.stream)
           o == cluster_offset(r)
           l == Len(out[t])
           m == ChunkLength(t)
           h == heap[target[t]].number
<1>1. /\ pc[t] = "copy" /\ pc'[t] = "resume"
      /\ request' = request /\ wanted' = wanted
  BY DEF CopyChunk, Goto, Control, ControlTypes
<1>2. /\ n \in Nat /\ c \in Nat \ {0} /\ o \in 0 .. c - 1
      /\ r.size \in Nat \ {0} /\ NumClusters[r.stream] \in Nat
  BY <1>1, TargetFacts, RequestNumbers
<1>3. /\ l \in Nat /\ m \in Nat /\ Len(out'[t]) = l + m
      /\ ChunkOffset(t) \in Nat
      /\ \A k \in 1 .. l : out'[t][k] = out[t][k]
      /\ \A k \in l + 1 .. l + m : out'[t][k] = <<h, ChunkOffset(t) + (k - l) - 1>>
  BY CopyFacts
<1>4. m <= max(0, c - ChunkOffset(t))
  <2> DEFINE b == ClusterBytes[Stream(t)][Len(heap[target[t]].blocks)]
             room == r.size - l
  <2>1. b \in Nat /\ b <= c /\ room \in Int
    <3>1. /\ Len(heap[target[t]].blocks) \in 0 .. BlocksPerCluster
          /\ r \in Requests
      BY <1>1, TargetFacts
    <3>2. r.stream \in Streams
      BY <3>1, RequestNumbers
    <3>3. b \in Nat \ {0} /\ b <= c
      BY <3>1, <3>2, LongestCluster DEF Stream
    <3> QED
      BY <1>2, <1>3, <3>3, SMTT(30)
  <2>2. m = min(room, max(0, b - ChunkOffset(t)))
    BY CopyFacts
  <2> HIDE DEF b, room, m, c
  <2> QED
    BY <1>2, <1>3, <2>1, <2>2 DEF min, max
<1>5. BeforeCopy(t) /\ ~BeforeCopy(t)'
  BY <1>1 DEF BeforeCopy
<1>6. /\ wanted[t] \in {n, n + 1}
      /\ wanted[t] <= NumClusters[r.stream]
      /\ wanted[t] = n => l = 0 /\ ChunkOffset(t) = o
      /\ wanted[t] = n + 1 => c < o + r.size /\ l = c - o /\ ChunkOffset(t) = 0
  BY <1>2, <1>5 DEF Place, ChunkOffset, FirstChunk
<1> HIDE DEF n, c, o, l, m, h
<1>7. /\ wanted[t] = n => l + m <= c - o
      /\ wanted[t] = n + 1 => l + m <= 2 * c - o
  BY <1>2, <1>3, <1>4, <1>6 DEF max
<1>8. Place(t)'
  BY <1>1, <1>3, <1>5, <1>6, <1>7 DEF Place, n, c, o
<1>9. \A k \in 1 .. l : out[t][k][2] = OffsetOf(r, k)
  BY DEF Untorn, l
<1>10. \A j, k \in 1 .. l : SameChunk(r, j, k) => out[t][j][1] = out[t][k][1]
  BY DEF Untorn, l
<1>11. \A k : OffsetOf(r, k) = IF o + k > c THEN o + k - 1 - c ELSE o + k - 1
  BY DEF OffsetOf, o, c
<1>12. \A j, k : SameChunk(r, j, k) <=> ((o + j > c) <=> (o + k > c))
  BY DEF SameChunk, o, c
<1>13. CASE wanted[t] = n
  <2>1. ASSUME NEW k \in 1 .. l + m
        PROVE  out'[t][k] = <<h, o + k - 1>> /\ ~(o + k > c)
    <3>1. k \in l + 1 .. l + m
      BY <1>3, <1>6, <1>13
    <3>2. out'[t][k] = <<h, ChunkOffset(t) + (k - l) - 1>>
      BY <1>3, <3>1
    <3>3. ChunkOffset(t) + (k - l) - 1 = o + k - 1 /\ ~(o + k > c)
      BY <1>2, <1>3, <1>6, <1>7, <1>13, <3>1
    <3> QED
      BY <3>2, <3>3
  <2>2. Untorn(t)'
    BY <1>1, <1>3, <1>11, <2>1, SMTT(30) DEF Untorn
  <2> QED
    BY <1>8, <2>2
<1>14. CASE wanted[t] = n + 1
  <2>1. ASSUME NEW k \in l + 1 .. l + m
        PROVE  out'[t][k] = <<h, o + k - 1 - c>> /\ o + k > c
    <3>1. out'[t][k] = <<h, ChunkOffset(t) + (k - l) - 1>>
      BY <1>3
    <3>2. ChunkOffset(t) + (k - l) - 1 = o + k - 1 - c /\ o + k > c
      BY <1>2, <1>3, <1>6, <1>14
    <3> QED
      BY <3>1, <3>2
  <2>2. \A k \in 1 .. l : ~(o + k > c) /\ out'[t][k] = out[t][k]
    BY <1>2, <1>3, <1>6, <1>14
  <2>3. \A k \in 1 .. l + m : k \in 1 .. l \/ k \in l + 1 .. l + m
    BY <1>3
  <2>4. \A k \in 1 .. l + m : out'[t][k][2] = OffsetOf(r, k)
    BY <1>9, <1>11, <2>1, <2>2, <2>3
  <2>5. \A j, k \in 1 .. l + m : SameChunk(r, j, k) => out'[t][j][1] = out'[t][k][1]
    BY <1>10, <1>12, <2>1, <2>2, <2>3
  <2>6. Untorn(t)'
    BY <1>1, <1>3, <2>4, <2>5 DEF Untorn, SameChunk, OffsetOf
  <2> QED
    BY <1>8, <2>6
<1> QED
  BY <1>6, <1>13, <1>14

\* Every read is in one of its two chunks, within the stream, and no chunk
\* mixes bytes of two elements.
THEOREM ChunksInvariant == Spec => []Chunks
<1> DEFINE Known == Control /\ Contents /\ Tags /\ Buffers
<1>1. Init => Chunks
  BY DEF Init, Chunks, Active
<1>2. Known /\ Chunks /\ [Next]_vars => Chunks'
  <2> SUFFICES ASSUME Known, Chunks, [Next]_vars
               PROVE  Chunks'
    OBVIOUS
  <2>1. CASE UNCHANGED vars
    BY <2>1 DEF vars, threadVars, Chunks, Active, Place, Untorn, BeforeCopy
  <2> SUFFICES ASSUME NEW t \in Threads, Read(t) \/ Step(t)
               PROVE  Chunks'
    BY <2>1 DEF Next, Dead
  <2>2. ASSUME NEW u \in Threads, Active(u),
               request'[u] = request[u], wanted'[u] = wanted[u],
               out'[u] = out[u], BeforeCopy(u) <=> BeforeCopy(u)'
        PROVE  Place(u)' /\ Untorn(u)'
    BY <2>2 DEF Chunks, Place, Untorn, BeforeCopy
  <2>3. ASSUME NEW u \in Threads \ {t}
        PROVE  /\ request'[u] = request[u] /\ wanted'[u] = wanted[u]
               /\ out'[u] = out[u] /\ pc'[u] = pc[u]
    <3>1. CASE CopyChunk(t)
      BY <3>1, CopyFacts DEF CopyChunk, Goto, Control, ControlTypes
    <3>2. CASE Read(t) \/ NextCluster(t) \/ Reply(t)
      BY <3>2 DEF Read, NextCluster, Reply, Goto, Control, ControlTypes, Buffers
    <3>3. CASE \/ CacheHit(t) \/ CacheMiss(t) \/ LockExclusive(t) \/ StoreNumber(t)
               \/ StoreCluster(t) \/ UnlockExclusive(t) \/ DropLocal(t)
               \/ LockShared(t) \/ Dereference(t) \/ Return(t)
      BY <3>3 DEF CacheHit, CacheMiss, LockExclusive, StoreNumber, StoreCluster,
           UnlockExclusive, DropLocal, LockShared, Dereference, Return, Goto,
           Control, ControlTypes
    <3>4. CASE GetFrame(t) \/ FrameError(t) \/ LockTimeout(t) \/ AssertFails(t)
      BY <3>4 DEF GetFrame, FrameError, LockTimeout, AssertFails, threadVars
    <3> QED
      BY <3>1, <3>2, <3>3, <3>4 DEF Step
  <2>4. ASSUME NEW u \in Threads \ {t}, Active(u)'
        PROVE  Place(u)' /\ Untorn(u)'
    BY <2>2, <2>3, <2>4 DEF Active, BeforeCopy
  <2>5. SUFFICES ASSUME Active(t)'
                 PROVE  Place(t)' /\ Untorn(t)'
    BY <2>4 DEF Chunks
  <2>6. CASE Read(t)
    <3>1. PICK r \in Requests : /\ request' = [request EXCEPT ![t] = r]
                                /\ wanted' = [wanted EXCEPT ![t] = cluster_number(r)]
      BY <2>6 DEF Read
    <3>2. request'[t] = r /\ wanted'[t] = cluster_number(r)
      BY <3>1 DEF Control, ControlTypes
    <3>3. out'[t] = <<>>
      BY <2>6 DEF Read, Buffers, Active
    <3>4. Len(out'[t]) = 0 /\ 1 .. Len(out'[t]) = {}
      BY <3>3, EmptySeq
    <3>5. cluster_number(r) <= NumClusters[r.stream] /\ cluster_number(r) \in Nat
          /\ cluster_number(r) # cluster_number(r) + 1
          /\ cluster_size(r.stream) - cluster_offset(r) >= 0
      BY Starting, RequestNumbers
    <3> QED
      BY <3>2, <3>4, <3>5 DEF Place, Untorn
  <2>7. CASE CopyChunk(t)
    BY <2>7, CopyKeepsChunks DEF CopyChunk, Chunks, Active
  <2>8. CASE NextCluster(t)
    <3> DEFINE r == request[t]
               n == cluster_number(r)
               c == cluster_size(r.stream)
               o == cluster_offset(r)
    <3>1. /\ pc[t] = "resume" /\ pc'[t] = "check"
          /\ request' = request /\ out' = out
          /\ wanted[t] = n /\ wanted'[t] = n + 1
          /\ Len(out[t]) < r.size
          /\ c = Len(out[t]) + o
      BY <2>8 DEF NextCluster, Goto, Control, ControlTypes, Short, FirstChunk,
           AtClusterEnd, Stream
    <3>2. /\ r \in Requests /\ Place(t) /\ Untorn(t)
          /\ out[t] \in Seq(Byte)
      BY <3>1 DEF Control, Serving, Active, Chunks, Buffers
    <3>3. /\ n \in Nat /\ c \in Nat \ {0} /\ o \in 0 .. c - 1 /\ r.size \in Nat
          /\ Len(out[t]) \in Nat
      BY <3>2, RequestNumbers, LenProperties
    <3>4. c < o + r.size
      BY <3>1, <3>3
    <3>5. n + 1 <= NumClusters[r.stream]
      BY <3>2, <3>4, Crossing
    <3>6. Untorn(t)'
      BY <3>1, <3>2 DEF Untorn
    <3>7. Len(out[t]) = c - o /\ c - o <= 2 * c - o /\ n + 1 # n
      BY <3>1, <3>3
    <3> HIDE DEF r, n, c, o
    <3>8. Place(t)'
      BY <3>1, <3>4, <3>5, <3>7 DEF Place, r, n, c, o
    <3> QED
      BY <3>6, <3>8
  <2>9. CASE Return(t)
    BY <2>2, <2>9 DEF Return, Goto, Active, BeforeCopy, Control, ControlTypes
  <2>10. CASE Reply(t)
    BY <2>5, <2>10 DEF Reply, Goto, Active, Control, ControlTypes
  <2>11. CASE \/ CacheHit(t) \/ CacheMiss(t) \/ LockExclusive(t) \/ StoreNumber(t)
              \/ StoreCluster(t) \/ UnlockExclusive(t) \/ DropLocal(t)
              \/ LockShared(t) \/ Dereference(t)
    <3>1. UNCHANGED <<request, wanted, out>>
      BY <2>11 DEF CacheHit, CacheMiss, LockExclusive, StoreNumber, StoreCluster,
           UnlockExclusive, DropLocal, LockShared, Dereference
    <3>2. Active(t) /\ BeforeCopy(t) /\ BeforeCopy(t)'
      BY <2>11 DEF CacheHit, CacheMiss, LockExclusive, StoreNumber, StoreCluster,
           UnlockExclusive, DropLocal, LockShared, Dereference, Goto, Control,
           ControlTypes, Active, BeforeCopy
    <3> QED
      BY <2>2, <3>1, <3>2
  <2>12. CASE GetFrame(t) \/ FrameError(t) \/ LockTimeout(t) \/ AssertFails(t)
    <3>1. UNCHANGED <<pc, request, wanted, out>>
      BY <2>12 DEF GetFrame, FrameError, LockTimeout, AssertFails, threadVars
    <3> QED
      BY <2>2, <2>5, <3>1 DEF Active, BeforeCopy
  <2> QED
    BY <2>6, <2>7, <2>8, <2>9, <2>10, <2>11, <2>12 DEF Step
<1> QED
  BY <1>1, <1>2, ControlInvariant, ContentsInvariant, TagsInvariant,
     BuffersInvariant, PTL DEF Spec

\* The throw for an unexpected cluster number is unreachable, because a read
\* goes on to a second cluster only when it crosses into it.
THEOREM NeverBeyondTailInvariant == Spec => []NeverBeyondTail
<1> DEFINE Known == Control /\ Chunks
<1>1. Init => NeverBeyondTail
  BY DEF Init, NeverBeyondTail
<1>2. Known /\ NeverBeyondTail /\ [Next]_vars => NeverBeyondTail'
  <2> SUFFICES ASSUME Known, NeverBeyondTail, [Next]_vars
               PROVE  NeverBeyondTail'
    OBVIOUS
  <2> USE DEF NeverBeyondTail
  <2>1. CASE UNCHANGED vars
    BY <2>1 DEF vars
  <2> SUFFICES ASSUME NEW t \in Threads, Read(t) \/ Step(t)
               PROVE  NeverBeyondTail'
    BY <2>1 DEF Next, Dead
  <2>2. CASE CacheMiss(t)
    <3>1. /\ Active(t)
          /\ failure' = IF wanted[t] > NumClusters[Stream(t)] THEN "range" ELSE failure
      BY <2>2 DEF CacheMiss, Active
    <3>2. /\ wanted[t] \in Nat /\ NumClusters[Stream(t)] \in Nat
          /\ wanted[t] <= NumClusters[Stream(t)]
      BY <3>1, RequestNumbers DEF Control, Serving, Chunks, Place, Stream
    <3> QED
      BY <3>1, <3>2
  <2>3. CASE Read(t) \/ NextCluster(t) \/ Return(t) \/ Reply(t)
    BY <2>3 DEF Read, NextCluster, Return, Reply
  <2>4. CASE \/ CacheHit(t) \/ LockExclusive(t) \/ StoreNumber(t)
             \/ StoreCluster(t) \/ UnlockExclusive(t) \/ DropLocal(t)
             \/ LockShared(t) \/ Dereference(t) \/ CopyChunk(t) \/ GetFrame(t)
    BY <2>4 DEF CacheHit, LockExclusive, StoreNumber, StoreCluster,
         UnlockExclusive, DropLocal, LockShared, Dereference, CopyChunk, GetFrame
  <2>5. CASE FrameError(t) \/ LockTimeout(t) \/ AssertFails(t)
    BY <2>5 DEF FrameError, LockTimeout, AssertFails
  <2> QED
    BY <2>2, <2>3, <2>4, <2>5 DEF Step
<1> QED
  BY <1>1, <1>2, ControlInvariant, ChunksInvariant, PTL DEF Spec

\* Byte k of a request, up to the end of its second cluster.
LEMMA ByteOfFile ==
  ASSUME NEW r \in Requests, NEW k \in Nat \ {0},
         k <= 2 * cluster_size(r.stream) - cluster_offset(r)
  PROVE  FileByte(r.stream, r.offset + k - 1) =
           <<IF cluster_offset(r) + k > cluster_size(r.stream)
             THEN cluster_number(r) + 1 ELSE cluster_number(r),
             OffsetOf(r, k)>>
<1> DEFINE n == cluster_number(r)
           c == cluster_size(r.stream)
           o == cluster_offset(r)
           p == r.offset + k - 1
<1>1. /\ n \in Nat /\ c \in Nat \ {0} /\ o \in 0 .. c - 1
      /\ r.offset \in Nat /\ r.offset = c * n + o
  BY RequestFacts, RequestNumbers
<1>2. /\ c * n \in Nat /\ c * (n + 1) = c * n + c
  BY <1>1, ProductInNat
<1>3. k <= 2 * c - o
  OBVIOUS
<1> HIDE DEF n, c, o
<1>4. CASE o + k > c
  <2>1. o + k - 1 - c \in 0 .. c - 1 /\ n + 1 \in Nat
    BY <1>1, <1>3, <1>4
  <2>2. p = c * (n + 1) + (o + k - 1 - c)
    <3> DEFINE x == c * n
               y == c * (n + 1)
    <3>1. x \in Nat /\ y = x + c /\ r.offset = x + o
      BY <1>1, <1>2
    <3> HIDE DEF x, y
    <3>2. p = y + (o + k - 1 - c)
      BY <1>1, <3>1
    <3> QED
      BY <3>2 DEF y
  <2>3. p \div c = n + 1 /\ p % c = o + k - 1 - c
    <3> DEFINE d == n + 1
               m == o + k - 1 - c
    <3>1. d \in Nat /\ m \in 0 .. c - 1 /\ c \in Nat \ {0}
      BY <1>1, <2>1
    <3>2. p = c * d + m
      BY <2>2
    <3> HIDE DEF d, m
    <3>3. (c * d + m) \div c = d /\ (c * d + m) % c = m
      BY <3>1, Quotient
    <3>4. p \div c = d /\ p % c = m
      BY <3>2, <3>3
    <3> QED
      BY <3>4 DEF d, m
  <2> QED
    BY <1>4, <2>3 DEF FileByte, OffsetOf, n, c, o
<1>5. CASE ~(o + k > c)
  <2>1. o + k - 1 \in 0 .. c - 1
    BY <1>1, <1>5
  <2>2. p = c * n + (o + k - 1)
    BY <1>1, <1>2
  <2>3. p \div c = n /\ p % c = o + k - 1
    <3> DEFINE m == o + k - 1
    <3>1. m \in 0 .. c - 1 /\ p = c * n + m
      BY <2>1, <2>2
    <3> HIDE DEF m
    <3>2. (c * n + m) \div c = n /\ (c * n + m) % c = m
      BY <1>1, <3>1, Quotient
    <3>3. p \div c = n /\ p % c = m
      BY <3>1, <3>2
    <3> QED
      BY <3>3 DEF m
  <2> QED
    BY <1>5, <2>3 DEF FileByte, OffsetOf, n, c, o
<1> QED
  BY <1>4, <1>5

\* A read stays within two clusters and the size asked for.
LEMMA WithinTwo ==
  ASSUME Control, Buffers, Chunks, NEW t \in Threads, Active(t)
  PROVE  /\ request[t] \in Requests
         /\ out[t] \in Seq(Byte) /\ Len(out[t]) \in Nat
         /\ Len(out[t]) <= request[t].size
         /\ Len(out[t]) <= 2 * cluster_size(Stream(t)) - cluster_offset(request[t])
<1>1. /\ request[t] \in Requests /\ out[t] \in Seq(Byte)
      /\ Len(out[t]) <= request[t].size /\ Place(t)
  BY DEF Control, Serving, Buffers, Chunks
<1>2. Len(out[t]) \in Nat
  BY <1>1, LenProperties
<1>3. /\ cluster_size(Stream(t)) \in Nat \ {0}
      /\ cluster_offset(request[t]) \in 0 .. cluster_size(Stream(t)) - 1
  BY <1>1, RequestNumbers DEF Stream
<1>4. \/ Len(out[t]) <= cluster_size(Stream(t)) - cluster_offset(request[t])
      \/ Len(out[t]) <= 2 * cluster_size(Stream(t)) - cluster_offset(request[t])
  BY <1>1 DEF Place, Stream
<1> QED
  BY <1>1, <1>2, <1>3, <1>4

\* Whatever other reads do to the cache, a buffer is not overrun, every byte
\* is from its offset in a cluster, and a chunk is of one cluster.
THEOREM ChunksNeverTearInvariant == Spec => []ChunksNeverTear
<1>1. Control /\ Buffers /\ Chunks => ChunksNeverTear
  <2> SUFFICES ASSUME Control, Buffers, Chunks, NEW t \in Threads, Active(t)
               PROVE  /\ Len(out[t]) <= request[t].size
                      /\ \A k \in 1 .. Len(out[t]) :
                           out[t][k][2] = FileByte(Stream(t), request[t].offset + k - 1)[2]
                      /\ \A j, k \in 1 .. Len(out[t]) :
                           SameChunk(request[t], j, k) => out[t][j][1] = out[t][k][1]
    BY DEF ChunksNeverTear
  <2>1. Untorn(t)
    BY DEF Chunks
  <2>2. ASSUME NEW k \in 1 .. Len(out[t])
        PROVE  out[t][k][2] = FileByte(Stream(t), request[t].offset + k - 1)[2]
    <3> DEFINE limit == 2 * cluster_size(Stream(t)) - cluster_offset(request[t])
    <3>1. /\ request[t] \in Requests
          /\ Len(out[t]) \in Nat /\ Len(out[t]) <= limit
      BY WithinTwo
    <3>2. limit \in Int
      BY <3>1, RequestNumbers DEF Stream
    <3> HIDE DEF limit
    <3>3. k \in Nat \ {0} /\ k <= limit
      BY <3>1, <3>2
    <3> QED
      BY <2>1, <3>1, <3>3, ByteOfFile DEF Untorn, Stream, limit
  <2> QED
    BY <2>1, <2>2, WithinTwo DEF Untorn
<1> QED
  BY <1>1, ControlInvariant, BuffersInvariant, ChunksInvariant, PTL

-----------------------------------------------------------------------------
(* Tamed clients. *)

Settled == {"store_cluster", "unlock", "drop", "share", "deref", "copy"}

\* No two reads get in each other's way.
Peers == TamedClients =>
  \A t, u \in Threads : t # u /\ Active(t) /\ Active(u) =>
    Compatible(request[t], request[u])

\* A thread that has seen or stored the number it wants still finds it.
Undisturbed == TamedClients =>
  \A t \in Threads : pc[t] \in Settled =>
    cached_cluster_number[Stream(t)] = wanted[t]

\* Reads that are under way together are compatible, because each was when it
\* arrived.
THEOREM PeersInvariant == Spec => []Peers
<1>1. Init => Peers
  BY DEF Init, Peers, Active
<1>2. Control /\ Peers /\ [Next]_vars => Peers'
  <2> SUFFICES ASSUME Control, Peers, [Next]_vars, TamedClients
               PROVE  Peers'
    BY DEF Peers
  <2>1. CASE UNCHANGED vars
    BY <2>1 DEF vars, threadVars, Peers, Active
  <2> SUFFICES ASSUME NEW t \in Threads, Read(t) \/ Step(t)
               PROVE  Peers'
    BY <2>1 DEF Next, Dead
  <2>2. CASE Read(t)
    <3>1. PICK r \in Requests :
            /\ \A u \in Threads : Active(u) => Compatible(request[u], r)
            /\ request' = [request EXCEPT ![t] = r]
      BY <2>2 DEF Read
    <3>2. request'[t] = r /\ \A u \in Threads \ {t} : request'[u] = request[u]
      BY <3>1 DEF Control, ControlTypes
    <3>3. \A u \in Threads \ {t} : Active(u)' <=> Active(u)
      BY <2>2 DEF Read, Goto, Active, Control, ControlTypes
    <3>4. \A u \in Threads \ {t} : Active(u) =>
            Compatible(request[u], r) /\ Compatible(r, request[u])
      BY <3>1 DEF Compatible
    <3>5. ASSUME NEW u \in Threads, NEW v \in Threads, u # v, Active(u)', Active(v)'
          PROVE  Compatible(request'[u], request'[v])
      <4>1. CASE u = t
        BY <3>2, <3>3, <3>4, <3>5, <4>1
      <4>2. CASE v = t
        BY <3>2, <3>3, <3>4, <3>5, <4>2
      <4>3. CASE u # t /\ v # t
        BY <3>2, <3>3, <3>5, <4>3 DEF Peers
      <4> QED
        BY <4>1, <4>2, <4>3
    <3> QED
      BY <3>5 DEF Peers, Compatible
  <2>3. CASE Step(t)
    <3>1. \A u \in Threads : Active(u)' => Active(u) /\ request'[u] = request[u]
      <4>1. CASE Reply(t)
        BY <4>1 DEF Reply, Goto, Active, Control, ControlTypes
      <4>2. CASE \/ CacheHit(t) \/ CacheMiss(t) \/ LockExclusive(t)
                 \/ StoreNumber(t) \/ StoreCluster(t) \/ UnlockExclusive(t)
                 \/ DropLocal(t)
        BY <4>2 DEF CacheHit, CacheMiss, LockExclusive, StoreNumber,
             StoreCluster, UnlockExclusive, DropLocal, Goto, Active, Control,
             ControlTypes
      <4>3. CASE \/ LockShared(t) \/ Dereference(t) \/ CopyChunk(t)
                 \/ NextCluster(t) \/ Return(t)
        BY <4>3 DEF LockShared, Dereference, CopyChunk, NextCluster, Return,
             Goto, Active, Control, ControlTypes
      <4>4. CASE GetFrame(t) \/ FrameError(t) \/ LockTimeout(t) \/ AssertFails(t)
        BY <4>4 DEF GetFrame, FrameError, LockTimeout, AssertFails, threadVars,
             Active
      <4> QED
        BY <2>3, <4>1, <4>2, <4>3, <4>4 DEF Step
    <3> QED
      BY <3>1 DEF Peers, Compatible
  <2> QED
    BY <2>2, <2>3
<1> QED
  BY <1>1, <1>2, ControlInvariant, PTL DEF Spec

\* Two reads of one stream that do not get in each other's way want the same
\* cluster, whichever chunk they are in.
LEMMA PeersWantTheSame ==
  ASSUME Control, Chunks, Peers, TamedClients,
         NEW t \in Threads, NEW u \in Threads,
         t # u, Active(t), Active(u), Stream(t) = Stream(u)
  PROVE  wanted[t] = wanted[u]
<1>1. /\ cluster_number(request[t]) = cluster_number(request[u])
      /\ last_cluster(request[t]) = cluster_number(request[t])
      /\ last_cluster(request[u]) = cluster_number(request[u])
  BY DEF Peers, Compatible, Stream
<1>2. ASSUME NEW v \in Threads, Active(v),
             last_cluster(request[v]) = cluster_number(request[v])
      PROVE  wanted[v] = cluster_number(request[v])
  BY <1>2, Crossing DEF Control, Serving, Chunks, Place
<1> QED
  BY <1>1, <1>2

\* Nobody stores another number between cache_cluster and the copy of a tamed
\* read.
THEOREM UndisturbedInvariant == Spec => []Undisturbed
<1> DEFINE Known == Control /\ Control' /\ Chunks /\ Peers
<1>1. Init => Undisturbed
  BY DEF Init, Undisturbed, Settled
<1>2. Known /\ Undisturbed /\ [Next]_vars => Undisturbed'
  <2> SUFFICES ASSUME Known, Undisturbed, [Next]_vars, TamedClients
               PROVE  Undisturbed'
    BY DEF Undisturbed
  <2>1. CASE UNCHANGED vars
    BY <2>1 DEF vars, threadVars, cacheVars, Undisturbed, Stream
  <2> SUFFICES ASSUME NEW t \in Threads, Read(t) \/ Step(t)
               PROVE  Undisturbed'
    BY <2>1 DEF Next, Dead
  <2> USE DEF Undisturbed, Settled, Stream, Control, ControlTypes, Goto
  <2>2. CASE StoreNumber(t)
    <3>1. /\ pc[t] = "store_number" /\ request' = request /\ wanted' = wanted
          /\ \A u \in Threads \ {t} : pc'[u] = pc[u]
          /\ Active(t) /\ Stream(t) \in Streams
      BY <2>2, RequestFacts DEF StoreNumber, Active, Serving
    <3>2. /\ cached_cluster_number'[Stream(t)] = wanted[t]
          /\ \A s \in Streams \ {Stream(t)} :
               cached_cluster_number'[s] = cached_cluster_number[s]
      BY <2>2, <3>1 DEF StoreNumber
    <3>3. ASSUME NEW u \in Threads \ {t}, pc'[u] \in Settled
          PROVE  cached_cluster_number'[Stream(u)] = wanted[u]
      <4>1. Active(u) /\ Stream(u) \in Streams
        BY <3>1, <3>3, RequestFacts DEF Active, Serving
      <4>2. CASE Stream(u) = Stream(t)
        BY <3>1, <3>2, <4>1, <4>2, PeersWantTheSame
      <4>3. CASE Stream(u) # Stream(t)
        BY <3>1, <3>2, <3>3, <4>1, <4>3
      <4> QED
        BY <4>2, <4>3
    <3> QED
      BY <3>1, <3>2, <3>3
  <2>3. CASE Read(t) \/ NextCluster(t) \/ Reply(t)
    BY <2>3 DEF Read, NextCluster, Reply, cacheVars
  <2>4. CASE \/ CacheHit(t) \/ CacheMiss(t) \/ LockExclusive(t)
             \/ StoreCluster(t) \/ UnlockExclusive(t) \/ DropLocal(t)
    BY <2>4 DEF CacheHit, CacheMiss, LockExclusive, StoreCluster,
         UnlockExclusive, DropLocal, cacheVars
  <2>5. CASE LockShared(t) \/ Dereference(t) \/ CopyChunk(t) \/ Return(t)
    BY <2>5 DEF LockShared, Dereference, CopyChunk, Return, cacheVars
  <2>6. CASE GetFrame(t) \/ FrameError(t) \/ LockTimeout(t) \/ AssertFails(t)
    BY <2>6 DEF GetFrame, FrameError, LockTimeout, AssertFails, threadVars,
         cacheVars
  <2> QED
    BY <2>2, <2>3, <2>4, <2>5, <2>6 DEF Step
<1> QED
  BY <1>1, <1>2, ControlInvariant, ChunksInvariant, PeersInvariant, PTL DEF Spec

-----------------------------------------------------------------------------
(* What a tamed read returns. *)

\* The bytes so far are the file's, and after each copy as many are there as
\* lie before the end of the cluster copied from.
Right(t) ==
  LET r  == request[t]
      n  == cluster_number(r)
      c  == cluster_size(r.stream)
      o  == cluster_offset(r)
  IN /\ \A k \in 1 .. Len(out[t]) :
          out[t][k][1] = IF o + k > c THEN n + 1 ELSE n
     /\ ~BeforeCopy(t) /\ wanted[t] = n => Len(out[t]) = min(r.size, c - o)
     /\ ~BeforeCopy(t) /\ wanted[t] = n + 1 => Len(out[t]) = min(r.size, 2 * c - o)
     /\ pc[t] = "return" => Len(out[t]) = min(r.size, 2 * c - o)

Rights == TamedClients => \A t \in Threads : Active(t) => Right(t)

\* A tamed thread copies from the cluster it wants.
LEMMA CopiesWanted ==
  ASSUME Control, LockDiscipline, Contents, Tags, Undisturbed, TamedClients,
         NEW t \in Threads, pc[t] = "copy"
  PROVE  /\ heap[target[t]].number = wanted[t]
         /\ ClusterBytes[Stream(t)][Len(heap[target[t]].blocks)] =
              IF wanted[t] = NumClusters[Stream(t)]
              THEN tail_cluster_size(Stream(t)) ELSE cluster_size(Stream(t))
<1>1. /\ Stream(t) \in Streams /\ target[t] # nullptr
      /\ target[t] = cached_cluster[Stream(t)]
      /\ Len(heap[target[t]].blocks) = num_blocks(Stream(t), heap[target[t]].number)
  BY TargetFacts DEF Tags
<1>2. \A u \in Threads : pc[u] # "store_cluster"
  BY DEF LockDiscipline, Writing, Copying
<1>3. cached_cluster_number[Stream(t)] = heap[target[t]].number
  BY <1>1, <1>2 DEF Tags, TagMatches
<1>4. cached_cluster_number[Stream(t)] = wanted[t]
  BY DEF Undisturbed, Settled
<1> QED
  BY <1>1, <1>3, <1>4 DEF num_blocks, cluster_size, tail_cluster_size

\* A tamed copy appends what the file has next.
LEMMA CopyKeepsRight ==
  ASSUME Control, LockDiscipline, Contents, Tags, Buffers, Undisturbed,
         TamedClients, NEW t \in Threads, CopyChunk(t),
         Place(t), Place(t)', Right(t)
  PROVE  Right(t)'
<1> DEFINE r == request[t]
           n == cluster_number(r)
           c == cluster_size(r.stream)
           o == cluster_offset(r)
           tail == tail_cluster_size(r.stream)
           N == NumClusters[r.stream]
           l == Len(out[t])
           m == ChunkLength(t)
           h == heap[target[t]].number
           b == ClusterBytes[Stream(t)][Len(heap[target[t]].blocks)]
           size == r.size
<1>1. /\ pc[t] = "copy" /\ pc'[t] = "resume"
      /\ request' = request /\ wanted' = wanted
  BY DEF CopyChunk, Goto, Control, ControlTypes
<1>2. /\ r \in Requests
      /\ n \in Nat /\ c \in Nat \ {0} /\ o \in 0 .. c - 1
      /\ size \in Nat \ {0} /\ N \in Nat
      /\ tail \in Nat \ {0} /\ tail < c
  BY <1>1, TargetFacts, RequestNumbers, Sizes, LayoutAssumption
<1>3. /\ n = N => o + size <= tail
      /\ n + 1 = N => o + size <= c + tail
  BY <1>2, Starting
<1>4. /\ l \in Nat /\ m \in Nat /\ Len(out'[t]) = l + m
      /\ \A k \in 1 .. l : out'[t][k] = out[t][k]
      /\ \A k \in l + 1 .. l + m : out'[t][k] = <<h, ChunkOffset(t) + (k - l) - 1>>
      /\ m = min(size - l, max(0, b - ChunkOffset(t)))
  BY CopyFacts
<1>5. h = wanted[t] /\ b = IF wanted[t] = N THEN tail ELSE c
  BY <1>1, CopiesWanted DEF Stream
<1>6. BeforeCopy(t) /\ ~BeforeCopy(t)' /\ pc'[t] # "return"
  BY <1>1 DEF BeforeCopy
<1>7. /\ wanted[t] \in {n, n + 1}
      /\ wanted[t] = n => l = 0 /\ ChunkOffset(t) = o
      /\ wanted[t] = n + 1 => c < o + size /\ l = c - o /\ ChunkOffset(t) = 0
  BY <1>2, <1>6 DEF Place, ChunkOffset, FirstChunk
<1>8. \A k \in 1 .. l : out[t][k][1] = IF o + k > c THEN n + 1 ELSE n
  BY DEF Right
<1>9. /\ wanted[t] = n => l + m <= c - o
      /\ wanted[t] = n + 1 => l + m <= 2 * c - o
  BY <1>1, <1>4 DEF Place
<1> HIDE DEF r, n, c, o, tail, N, l, m, h, b, size
<1>10. wanted[t] = n => l + m = min(size, c - o)
  BY <1>2, <1>3, <1>4, <1>5, <1>7 DEF min, max
<1>11. wanted[t] = n + 1 => l + m = min(size, 2 * c - o)
  BY <1>2, <1>3, <1>4, <1>5, <1>7 DEF min, max
<1>12. ASSUME NEW k \in 1 .. l + m
       PROVE  out'[t][k][1] = IF o + k > c THEN n + 1 ELSE n
  <2>1. CASE k \in 1 .. l
    BY <1>4, <1>8, <2>1
  <2>2. CASE k \notin 1 .. l
    <3>1. k \in l + 1 .. l + m
      BY <1>4, <2>2
    <3>2. out'[t][k][1] = wanted[t]
      BY <1>4, <1>5, <3>1
    <3>3. CASE wanted[t] = n
      <4>1. ~(o + k > c)
        BY <1>2, <1>4, <1>9, <3>1, <3>3
      <4> QED
        BY <3>2, <3>3, <4>1
    <3>4. CASE wanted[t] = n + 1
      <4>1. o + k > c
        BY <1>2, <1>4, <1>7, <3>1, <3>4
      <4> QED
        BY <3>2, <3>4, <4>1
    <3> QED
      BY <1>7, <3>3, <3>4
  <2> QED
    BY <2>1, <2>2
<1> QED
  BY <1>1, <1>4, <1>6, <1>10, <1>11, <1>12 DEF Right, r, n, c, o, size

\* The buffer of a tamed read holds the file's bytes, up to the end of the
\* request or of the cluster last copied from.
THEOREM RightInvariant == Spec => []Rights
<1> DEFINE Known == /\ Control /\ LockDiscipline /\ Contents /\ Tags /\ Buffers
                    /\ Chunks /\ Chunks' /\ Undisturbed
<1>1. Init => Rights
  BY DEF Init, Rights, Active
<1>2. Known /\ Rights /\ [Next]_vars => Rights'
  <2> SUFFICES ASSUME Known, Rights, [Next]_vars, TamedClients
               PROVE  Rights'
    BY DEF Rights
  <2>1. CASE UNCHANGED vars
    BY <2>1 DEF vars, threadVars, Rights, Active, Right, BeforeCopy
  <2> SUFFICES ASSUME NEW t \in Threads, Read(t) \/ Step(t)
               PROVE  Rights'
    BY <2>1 DEF Next, Dead
  <2>2. ASSUME NEW u \in Threads, Active(u), pc'[u] = pc[u],
               request'[u] = request[u], wanted'[u] = wanted[u],
               out'[u] = out[u]
        PROVE  Right(u)'
    BY <2>2 DEF Rights, Right, BeforeCopy
  <2>3. ASSUME NEW u \in Threads \ {t}
        PROVE  /\ request'[u] = request[u] /\ wanted'[u] = wanted[u]
               /\ out'[u] = out[u] /\ pc'[u] = pc[u]
    <3>1. CASE CopyChunk(t)
      BY <3>1, CopyFacts DEF CopyChunk, Goto, Control, ControlTypes
    <3>2. CASE Read(t) \/ NextCluster(t) \/ Reply(t)
      BY <3>2 DEF Read, NextCluster, Reply, Goto, Control, ControlTypes, Buffers
    <3>3. CASE \/ CacheHit(t) \/ CacheMiss(t) \/ LockExclusive(t) \/ StoreNumber(t)
               \/ StoreCluster(t) \/ UnlockExclusive(t) \/ DropLocal(t)
               \/ LockShared(t) \/ Dereference(t) \/ Return(t)
      BY <3>3 DEF CacheHit, CacheMiss, LockExclusive, StoreNumber, StoreCluster,
           UnlockExclusive, DropLocal, LockShared, Dereference, Return, Goto,
           Control, ControlTypes
    <3>4. CASE GetFrame(t) \/ FrameError(t) \/ LockTimeout(t) \/ AssertFails(t)
      BY <3>4 DEF GetFrame, FrameError, LockTimeout, AssertFails, threadVars
    <3> QED
      BY <3>1, <3>2, <3>3, <3>4 DEF Step
  <2>4. ASSUME NEW u \in Threads \ {t}, Active(u)'
        PROVE  Right(u)'
    BY <2>2, <2>3, <2>4 DEF Active
  <2>5. SUFFICES ASSUME Active(t)'
                 PROVE  Right(t)'
    BY <2>4 DEF Rights
  <2>6. CASE Read(t)
    <3>1. Len(out'[t]) = 0 /\ 1 .. Len(out'[t]) = {} /\ pc'[t] = "check"
      BY <2>6, EmptySeq DEF Read, Buffers, Active, Goto, Control, ControlTypes
    <3> QED
      BY <3>1 DEF Right, BeforeCopy
  <2>7. CASE CopyChunk(t)
    <3>1. Active(t) /\ Place(t) /\ Place(t)' /\ Right(t)
      BY <2>5, <2>7 DEF CopyChunk, Active, Chunks, Rights
    <3> QED
      BY <2>7, <3>1, CopyKeepsRight
  <2>8. CASE NextCluster(t)
    <3>1. /\ pc[t] = "resume" /\ pc'[t] = "check"
          /\ request' = request /\ out' = out
      BY <2>8 DEF NextCluster, Goto, Control, ControlTypes
    <3>2. Right(t)
      BY <3>1 DEF Rights, Active
    <3> QED
      BY <3>1, <3>2 DEF Right, BeforeCopy
  <2>9. CASE Return(t)
    <3> DEFINE r == request[t]
               n == cluster_number(r)
               c == cluster_size(r.stream)
               o == cluster_offset(r)
    <3>1. /\ pc[t] = "resume" /\ pc'[t] = "return"
          /\ request' = request /\ out' = out /\ wanted' = wanted
          /\ wanted[t] = n => ~(Len(out[t]) < r.size)
      BY <2>9 DEF Return, Goto, Control, ControlTypes, Short, FirstChunk
    <3>2. Active(t) /\ ~BeforeCopy(t) /\ ~BeforeCopy(t)'
      BY <3>1 DEF Active, BeforeCopy
    <3>3. Right(t) /\ Place(t) /\ r \in Requests
      BY <3>2 DEF Rights, Chunks, Control, Serving
    <3>4. /\ n \in Nat /\ c \in Nat \ {0} /\ o \in 0 .. c - 1 /\ r.size \in Nat
      BY <3>3, RequestNumbers
    <3>5. /\ wanted[t] \in {n, n + 1}
          /\ wanted[t] = n => Len(out[t]) = min(r.size, c - o)
          /\ wanted[t] = n + 1 => Len(out[t]) = min(r.size, 2 * c - o)
      BY <3>2, <3>3 DEF Right, Place
    <3> HIDE DEF n, c, o
    <3>6. Len(out[t]) = min(r.size, 2 * c - o)
      BY <3>1, <3>4, <3>5 DEF min
    <3> QED
      BY <3>1, <3>2, <3>3, <3>6 DEF Right, n, c, o
  <2>10. CASE Reply(t)
    BY <2>5, <2>10 DEF Reply, Goto, Active, Control, ControlTypes
  <2>11. CASE \/ CacheHit(t) \/ CacheMiss(t) \/ LockExclusive(t) \/ StoreNumber(t)
              \/ StoreCluster(t) \/ UnlockExclusive(t) \/ DropLocal(t)
              \/ LockShared(t) \/ Dereference(t)
    <3>1. UNCHANGED <<request, wanted, out>>
      BY <2>11 DEF CacheHit, CacheMiss, LockExclusive, StoreNumber, StoreCluster,
           UnlockExclusive, DropLocal, LockShared, Dereference
    <3>2. Active(t) /\ BeforeCopy(t)'
      BY <2>11 DEF CacheHit, CacheMiss, LockExclusive, StoreNumber, StoreCluster,
           UnlockExclusive, DropLocal, LockShared, Dereference, Goto, Control,
           ControlTypes, Active, BeforeCopy
    <3> QED
      BY <3>1, <3>2 DEF Rights, Right, BeforeCopy
  <2>12. CASE GetFrame(t) \/ FrameError(t) \/ LockTimeout(t) \/ AssertFails(t)
    <3>1. UNCHANGED <<pc, request, wanted, out>>
      BY <2>12 DEF GetFrame, FrameError, LockTimeout, AssertFails, threadVars
    <3> QED
      BY <2>2, <2>5, <3>1 DEF Active
  <2> QED
    BY <2>6, <2>7, <2>8, <2>9, <2>10, <2>11, <2>12 DEF Step
<1> QED
  BY <1>1, <1>2, ControlInvariant, LockInvariant, ContentsInvariant,
     TagsInvariant, BuffersInvariant, ChunksInvariant, UndisturbedInvariant,
     PTL DEF Spec

\* What a tamed read returns is the content of the file at its offset.
THEOREM ReadsAreCorrect == Spec => [](TamedClients => ReadCorrect)
<1>1. Control /\ Buffers /\ Chunks /\ Rights => (TamedClients => ReadCorrect)
  <2> SUFFICES ASSUME Control, Buffers, Chunks, Rights, TamedClients,
                      NEW t \in Threads, pc[t] = "return",
                      NEW k \in 1 .. Len(out[t])
               PROVE  out[t][k] = FileByte(Stream(t), request[t].offset + k - 1)
    BY DEF ReadCorrect
  <2> DEFINE limit == 2 * cluster_size(Stream(t)) - cluster_offset(request[t])
  <2>1. Active(t)
    BY DEF Active
  <2>2. /\ request[t] \in Requests /\ out[t] \in Seq(Byte)
        /\ Len(out[t]) \in Nat /\ Len(out[t]) <= limit
    BY <2>1, WithinTwo
  <2>3. limit \in Int
    BY <2>2, RequestNumbers DEF Stream
  <2>4. out[t][k] \in Byte
    BY <2>2, ElementOfSeq
  <2>5. out[t][k] = <<out[t][k][1], out[t][k][2]>>
    BY <2>4 DEF Byte
  <2> HIDE DEF limit
  <2>6. k \in Nat \ {0} /\ k <= limit
    BY <2>2, <2>3
  <2>7. FileByte(Stream(t), request[t].offset + k - 1) =
          <<IF cluster_offset(request[t]) + k > cluster_size(Stream(t))
            THEN cluster_number(request[t]) + 1 ELSE cluster_number(request[t]),
            OffsetOf(request[t], k)>>
    BY <2>2, <2>6, ByteOfFile DEF Stream, limit
  <2>8. Untorn(t) /\ Right(t)
    BY <2>1 DEF Chunks, Rights
  <2> QED
    BY <2>5, <2>7, <2>8 DEF Untorn, Right, Stream
<1> QED
  BY <1>1, ControlInvariant, BuffersInvariant, ChunksInvariant, RightInvariant,
     PTL

\* A tamed read is short only when it spans more than two clusters.
THEOREM ReadsAreFull == Spec => [](TamedClients => FullRead)
<1>1. Rights => (TamedClients => FullRead)
  BY DEF Rights, Right, FullRead, Promise, Active
<1> QED
  BY <1>1, RightInvariant, PTL

\* With tamed clients the assertion in clusterlist::output does not fail.
THEOREM AssertionHolds == Spec => [](TamedClients => AssertHolds)
<1> DEFINE Known == Control /\ Chunks /\ Rights
           Goal == TamedClients => AssertHolds
<1>1. Init => Goal
  BY DEF Init, AssertHolds
<1>2. Known /\ Goal /\ [Next]_vars => Goal'
  <2> SUFFICES ASSUME Known, AssertHolds, [Next]_vars, TamedClients
               PROVE  AssertHolds'
    OBVIOUS
  <2> USE DEF AssertHolds
  <2>1. CASE UNCHANGED vars
    BY <2>1 DEF vars
  <2> SUFFICES ASSUME NEW t \in Threads, Read(t) \/ Step(t)
               PROVE  AssertHolds'
    BY <2>1 DEF Next, Dead
  <2>2. CASE AssertFails(t)
    <3> DEFINE r == request[t]
               c == cluster_size(r.stream)
               o == cluster_offset(r)
    <3>1. /\ Active(t) /\ ~BeforeCopy(t)
          /\ wanted[t] = cluster_number(r) /\ Len(out[t]) < r.size
          /\ c # Len(out[t]) + o
      BY <2>2 DEF AssertFails, Short, FirstChunk, AtClusterEnd, Stream, Active,
           BeforeCopy
    <3>2. r \in Requests /\ Len(out[t]) = min(r.size, c - o)
      BY <3>1 DEF Control, Serving, Rights, Right
    <3>3. c \in Nat \ {0} /\ o \in 0 .. c - 1 /\ r.size \in Nat
      BY <3>2, RequestNumbers
    <3> HIDE DEF c, o
    <3> QED
      BY <3>1, <3>2, <3>3 DEF min
  <2>3. CASE Read(t) \/ NextCluster(t) \/ Return(t) \/ Reply(t)
    BY <2>3 DEF Read, NextCluster, Return, Reply
  <2>4. CASE \/ CacheHit(t) \/ CacheMiss(t) \/ LockExclusive(t)
             \/ StoreNumber(t) \/ StoreCluster(t) \/ UnlockExclusive(t)
    BY <2>4 DEF CacheHit, CacheMiss, LockExclusive, StoreNumber, StoreCluster,
         UnlockExclusive
  <2>5. CASE \/ DropLocal(t) \/ LockShared(t) \/ Dereference(t) \/ CopyChunk(t)
             \/ GetFrame(t) \/ FrameError(t) \/ LockTimeout(t)
    BY <2>5 DEF DropLocal, LockShared, Dereference, CopyChunk, GetFrame,
         FrameError, LockTimeout
  <2> QED
    BY <2>2, <2>3, <2>4, <2>5 DEF Step
<1> QED
  BY <1>1, <1>2, ControlInvariant, ChunksInvariant, RightInvariant, PTL DEF Spec
-----------------------------------------------------------------------------
(* The refinement: with tamed clients, ClusterCache is a VirtualFile. *)

\* A thread in the FUSE loop has no request.
Idle == \A t \in Threads : ~Active(t) => request[t] = NoRequest

\* Only Read gives a thread a request, and Reply takes it away.
LEMMA IdleInvariant == Spec => []Idle
<1>1. Init => Idle
  BY DEF Init, Idle
<1>2. Control /\ Idle /\ [Next]_vars => Idle'
  <2> SUFFICES ASSUME Control, Idle, [Next]_vars
               PROVE  Idle'
    OBVIOUS
  <2> USE DEF Idle, Active, Goto, Control, ControlTypes
  <2>1. CASE UNCHANGED vars
    BY <2>1 DEF vars, threadVars
  <2> SUFFICES ASSUME NEW t \in Threads, Read(t) \/ Step(t)
               PROVE  Idle'
    BY <2>1 DEF Next, Dead
  <2>2. CASE Read(t) \/ Reply(t)
    BY <2>2 DEF Read, Reply
  <2>3. CASE \/ CacheHit(t) \/ CacheMiss(t) \/ LockExclusive(t) \/ StoreNumber(t)
             \/ StoreCluster(t) \/ UnlockExclusive(t) \/ DropLocal(t)
             \/ LockShared(t) \/ Dereference(t) \/ CopyChunk(t)
             \/ NextCluster(t) \/ Return(t)
    BY <2>3 DEF CacheHit, CacheMiss, LockExclusive, StoreNumber, StoreCluster,
         UnlockExclusive, DropLocal, LockShared, Dereference, CopyChunk,
         NextCluster, Return
  <2>4. CASE GetFrame(t) \/ FrameError(t) \/ LockTimeout(t) \/ AssertFails(t)
    BY <2>4 DEF GetFrame, FrameError, LockTimeout, AssertFails, threadVars
  <2> QED
    BY <2>2, <2>3, <2>4 DEF Step
<1> QED
  BY <1>1, <1>2, ControlInvariant, PTL DEF Spec

\* A finished read is an answer: at least the promised bytes of the request,
\* all of them the file's, and not none.
Answered ==
  \A t \in Threads : pc[t] = "return" =>
    /\ out[t] # <<>>
    /\ \E n \in Promise(request[t]) .. request[t].size :
         out[t] = File!Content(request[t], n)

\* It is, if what a read returns is right and complete.
LEMMA FinishedIsAnswer ==
  ASSUME Control, Buffers, Chunks, ReadCorrect, FullRead
  PROVE  Answered
<1> SUFFICES ASSUME NEW t \in Threads, pc[t] = "return"
             PROVE  /\ out[t] # <<>>
                    /\ \E n \in Promise(request[t]) .. request[t].size :
                         out[t] = File!Content(request[t], n)
  BY DEF Answered
<1> DEFINE r == request[t]
           c == cluster_size(r.stream)
           o == cluster_offset(r)
           n == Promise(r)
<1>1. Active(t)
  BY DEF Active
<1>2. r \in Requests /\ out[t] \in Seq(Byte) /\ Len(out[t]) \in Nat
  BY <1>1, WithinTwo
<1>3. c \in Nat \ {0} /\ o \in 0 .. c - 1 /\ r.size \in Nat \ {0}
  BY <1>2, RequestNumbers
<1>4. n = min(r.size, 2 * c - o)
  BY DEF Promise
<1>5. Len(out[t]) = n
  BY DEF FullRead
<1>6. \A k \in 1 .. n : out[t][k] = FileByte(r.stream, r.offset + k - 1)
  BY <1>5 DEF ReadCorrect, Stream
<1> HIDE DEF r, c, o, n
<1>7. n \in Nat \ {0} /\ n <= r.size
  BY <1>3, <1>4 DEF min
<1>8. File!Content(r, n) = [k \in 1 .. n |-> FileByte(r.stream, r.offset + k - 1)]
  BY DEF File!Content
<1>9. out[t] = [k \in 1 .. n |-> out[t][k]]
  BY <1>2, <1>5, LenProperties
<1>10. out[t] = File!Content(r, n)
  BY <1>6, <1>8, <1>9
<1>11. out[t] # <<>>
  BY <1>5, <1>7, EmptySeq
<1> QED
  BY <1>2, <1>3, <1>7, <1>10, <1>11 DEF r, n

\* Every step of the cache, the lock and the two chunks is one of the file, or
\* none.
LEMMA StepOfFile ==
  ASSUME Control, Idle, Buffers, Answered, Answered', [Next]_vars
  PROVE  [File!Next]_(File!vars)
<1> USE DEF File!vars
<1>1. CASE UNCHANGED vars
  BY <1>1 DEF vars, threadVars, Running
<1> SUFFICES ASSUME NEW t \in Threads, Running, Read(t) \/ Step(t)
             PROVE  [File!Next]_(File!vars)
  BY <1>1 DEF Next, Dead
<1>2. CASE Read(t)
  <2>1. File!Ask(t)
    BY <1>2 DEF File!Ask, Read, Goto, Idle, Active, Running, Control, ControlTypes
  <2> QED
    BY <2>1 DEF File!Next
<1>3. CASE Return(t)
  <2>1. File!Answer(t)
    <3>1. pc[t] = "resume" /\ pc'[t] = "return" /\ pc' = [pc EXCEPT ![t] = "return"]
      BY <1>3 DEF Return, Goto, Control, ControlTypes
    <3>2. request' = request /\ out' = out /\ failure' = failure
      BY <1>3 DEF Return
    <3>3. request[t] # NoRequest
      BY <3>1, RequestAssumption DEF Control, Serving, Active
    <3>4. \E n \in Promise(request[t]) .. request[t].size :
            out'[t] = File!Content(request[t], n)
      BY <3>1, <3>2 DEF Answered, File!Content
    <3> QED
      BY <3>1, <3>2, <3>3, <3>4 DEF File!Answer, Running, Control, ControlTypes
  <2> QED
    BY <2>1 DEF File!Next
<1>4. CASE Reply(t)
  <2>1. out[t] # <<>>
    BY <1>4 DEF Reply, Answered
  <2>2. File!Take(t)
    BY <1>4, <2>1 DEF File!Take, Reply, Goto, Running, Control, ControlTypes, Buffers
  <2> QED
    BY <2>2 DEF File!Next
<1>5. CASE FrameError(t) \/ LockTimeout(t) \/ AssertFails(t)
  <2>1. File!GoAway
    BY <1>5 DEF File!GoAway, FrameError, LockTimeout, AssertFails, Running, threadVars
  <2> QED
    BY <2>1 DEF File!Next
<1>6. CASE CacheMiss(t)
  <2>1. /\ request' = request
        /\ [u \in Threads |-> IF pc'[u] = "return" THEN out'[u] ELSE <<>>] =
             [u \in Threads |-> IF pc[u] = "return" THEN out[u] ELSE <<>>]
    BY <1>6 DEF CacheMiss, Goto, Control, ControlTypes
  <2>2. CASE Running'
    BY <2>1, <2>2
  <2>3. CASE ~Running'
    BY <2>1, <2>3 DEF File!GoAway, File!Next, Running
  <2> QED
    BY <2>2, <2>3
<1>7. CASE \/ CacheHit(t) \/ GetFrame(t) \/ LockExclusive(t) \/ StoreNumber(t)
           \/ StoreCluster(t) \/ UnlockExclusive(t) \/ DropLocal(t)
           \/ LockShared(t) \/ Dereference(t) \/ CopyChunk(t) \/ NextCluster(t)
  <2>1. request' = request /\ failure' = failure
    BY <1>7 DEF CacheHit, GetFrame, LockExclusive, StoreNumber, StoreCluster,
         UnlockExclusive, DropLocal, LockShared, Dereference, CopyChunk,
         NextCluster, threadVars
  <2>2. ASSUME NEW u \in Threads
        PROVE  /\ pc[u] = "return" <=> pc'[u] = "return"
               /\ pc[u] = "return" => out'[u] = out[u]
    BY <1>7 DEF CacheHit, GetFrame, LockExclusive, StoreNumber, StoreCluster,
         UnlockExclusive, DropLocal, LockShared, Dereference, CopyChunk,
         NextCluster, threadVars, Goto, Control, ControlTypes, Buffers
  <2> QED
    BY <2>1, <2>2 DEF Running
<1> QED
  BY <1>2, <1>3, <1>4, <1>5, <1>6, <1>7 DEF Step

\* With tamed clients every behaviour of the threads is one of a read-only
\* file, as far as safety goes (clusterlist.cpp:77-200).
THEOREM TamedServesFile == ASSUME TamedClients PROVE Spec => File!Spec
<1>1. Init => File!Init
  BY DEF Init, File!Init, Running
<1>2. Control /\ Buffers /\ Chunks /\ (TamedClients => ReadCorrect)
        /\ (TamedClients => FullRead) => Answered
  BY FinishedIsAnswer
<1>3. /\ Control /\ Idle /\ Buffers /\ Answered /\ Answered' /\ [Next]_vars
      => [File!Next]_(File!vars)
  BY StepOfFile
<1> QED
  BY <1>1, <1>2, <1>3, ControlInvariant, IdleInvariant, BuffersInvariant,
     ChunksInvariant, ReadsAreCorrect, ReadsAreFull, PTL DEF Spec, File!Spec
=============================================================================
