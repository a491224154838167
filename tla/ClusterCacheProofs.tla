-------------------------- MODULE ClusterCacheProofs --------------------------
(***************************************************************************)
(* Proofs about ClusterCache, for any number of threads, streams, elements *)
(* and clusters, and whether or not reads overlap.                         *)
(*                                                                         *)
(* The invariants come in layers, each proved with the help of those       *)
(* before it: the types of the control state, who holds cluster_lock, who  *)
(* owns which element, what an element holds, which number it is cached    *)
(* under.                                                                  *)
(***************************************************************************)
EXTENDS ClusterCache, Foundations, SequenceTheorems, TLAPS

-----------------------------------------------------------------------------
(* The layout. *)

\* The encoded lengths are positive, and the tail is the shortest cluster.
LEMMA Sizes ==
  ASSUME NEW s \in Streams
  PROVE  /\ cluster_size(s) \in Nat \ {0}
         /\ tail_cluster_size(s) \in Nat \ {0}
         /\ tail_cluster_size(s) < cluster_size(s)
         /\ total_size(s) \in Nat \ {0}
BY LayoutAssumption DEF cluster_size, tail_cluster_size, total_size

\* A request is a non-empty range of a stream, which starts in a cluster.
LEMMA RequestFacts ==
  ASSUME NEW r \in Requests
  PROVE  /\ r.stream \in Streams
         /\ r.offset \in Nat
         /\ r.size \in Nat \ {0}
         /\ r.offset + r.size <= total_size(r.stream)
         /\ cluster_number(r) \in Nat
         /\ cluster_offset(r) \in 0 .. cluster_size(r.stream) - 1
         /\ r.offset = cluster_size(r.stream) * cluster_number(r) + cluster_offset(r)
<1>1. PICK s \in Streams : r \in RequestsOf(s)
  BY DEF Requests
<1>2. PICK p \in 0 .. total_size(s) - 1 :
        r \in [stream : {s}, offset : {p},
               size : 1 .. min(MaxRead, total_size(s) - p)]
  BY <1>1 DEF RequestsOf
<1>3. r.stream = s /\ r.offset = p /\ r.size \in 1 .. min(MaxRead, total_size(s) - p)
  BY <1>2
<1>4. cluster_size(s) \in Nat \ {0} /\ total_size(s) \in Nat
  BY Sizes
<1>5. r.size \in Nat \ {0} /\ p + r.size <= total_size(s)
  BY <1>3, <1>4, LayoutAssumption DEF min
<1>6. /\ p \div cluster_size(s) \in Nat
      /\ p % cluster_size(s) \in 0 .. cluster_size(s) - 1
      /\ p = cluster_size(s) * (p \div cluster_size(s)) + (p % cluster_size(s))
  BY <1>4, Z3
<1>7. cluster_number(r) = p \div cluster_size(s) /\ cluster_offset(r) = p % cluster_size(s)
  BY <1>3 DEF cluster_number, cluster_offset
<1>8. cluster_size(r.stream) = cluster_size(s) /\ total_size(r.stream) = total_size(s)
  BY <1>3
<1>a. r.stream \in Streams /\ r.offset \in Nat /\ r.size \in Nat \ {0}
  BY <1>3, <1>4, <1>5
<1>b. r.offset + r.size <= total_size(r.stream)
  BY <1>3, <1>4, <1>5, <1>8
<1>c. cluster_number(r) \in Nat /\ cluster_offset(r) \in 0 .. cluster_size(r.stream) - 1
  BY <1>6, <1>7, <1>8
<1>d. r.offset = cluster_size(r.stream) * cluster_number(r) + cluster_offset(r)
  BY <1>3, <1>6, <1>7, <1>8, Zenon
<1> QED
  BY <1>a, <1>b, <1>c, <1>d

\* How many blocks a cluster has.
LEMMA BlockCount ==
  ASSUME NEW s \in Streams, NEW n \in Nat
  PROVE  num_blocks(s, n) \in 0 .. BlocksPerCluster
BY LayoutAssumption DEF num_blocks

-----------------------------------------------------------------------------
(* The types of everything but the buffers. *)

ControlTypes ==
  /\ pc \in [Threads -> Labels]
  /\ request \in [Threads -> Requests \cup {NoRequest}]
  /\ wanted \in [Threads -> Nat \cup {Unset}]
  /\ local \in [Threads -> Clusters \cup {nullptr}]
  /\ target \in [Threads -> Clusters \cup {nullptr}]
  /\ cached_cluster_number \in [Streams -> Nat \cup {Unset}]
  /\ cached_cluster \in [Streams -> Clusters \cup {nullptr}]
  /\ exclusive \in SUBSET Threads
  /\ shared \in SUBSET Threads
  /\ failure \in {"none", "range", "frame", "lock", "assert"}

\* A thread that left the FUSE loop serves a request, for a known cluster.
Serving ==
  \A t \in Threads : Active(t) =>
    request[t] \in Requests /\ wanted[t] \in Nat

Control == ControlTypes /\ Serving

\* The variables of the control state keep their types.
THEOREM ControlInvariant == Spec => []Control
<1>1. Init => Control
  BY DEF Init, Control, ControlTypes, Serving, Active, Labels
<1>2. Control /\ [Next]_vars => Control'
  <2> SUFFICES ASSUME Control, [Next]_vars
               PROVE  Control'
    OBVIOUS
  <2> USE DEF Control, ControlTypes, Serving, Active, Labels, Goto, Stream
  <2>1. ASSUME NEW t \in Threads, Read(t)
        PROVE  Control'
    BY <2>1, RequestFacts DEF Read, cacheVars, lockVars, heapVars
  <2>2. ASSUME NEW t \in Threads, CacheHit(t)
        PROVE  Control'
    BY <2>2 DEF CacheHit, cacheVars, lockVars, heapVars
  <2>3. ASSUME NEW t \in Threads, CacheMiss(t)
        PROVE  Control'
    BY <2>3 DEF CacheMiss, cacheVars, lockVars
  <2>4. ASSUME NEW t \in Threads, GetFrame(t) \/ FrameError(t) \/ LockTimeout(t) \/ AssertFails(t)
        PROVE  Control'
    BY <2>4 DEF GetFrame, FrameError, LockTimeout, AssertFails, threadVars, cacheVars, lockVars, heapVars
  <2>5. ASSUME NEW t \in Threads, LockExclusive(t)
        PROVE  Control'
    BY <2>5 DEF LockExclusive, cacheVars, lockVars, heapVars
  <2>6. ASSUME NEW t \in Threads, StoreNumber(t)
        PROVE  Control'
    BY <2>6, RequestFacts DEF StoreNumber, lockVars, heapVars
  <2>7. ASSUME NEW t \in Threads, StoreCluster(t)
        PROVE  Control'
    BY <2>7, RequestFacts DEF StoreCluster, lockVars, heapVars
  <2>8. ASSUME NEW t \in Threads, UnlockExclusive(t)
        PROVE  Control'
    BY <2>8 DEF UnlockExclusive, cacheVars, heapVars
  <2>9. ASSUME NEW t \in Threads, DropLocal(t)
        PROVE  Control'
    BY <2>9 DEF DropLocal, cacheVars, lockVars
  <2>10. ASSUME NEW t \in Threads, LockShared(t)
         PROVE  Control'
    BY <2>10 DEF LockShared, cacheVars, heapVars
  <2>11. ASSUME NEW t \in Threads, Dereference(t)
         PROVE  Control'
    BY <2>11, RequestFacts DEF Dereference, cacheVars, lockVars, heapVars
  <2>12. ASSUME NEW t \in Threads, CopyChunk(t)
         PROVE  Control'
    BY <2>12 DEF CopyChunk, cacheVars, heapVars
  <2>13. ASSUME NEW t \in Threads, NextCluster(t)
         PROVE  Control'
    BY <2>13 DEF NextCluster, cacheVars, lockVars, heapVars
  <2>14. ASSUME NEW t \in Threads, Return(t)
         PROVE  Control'
    BY <2>14 DEF Return, cacheVars, lockVars, heapVars
  <2>15. ASSUME NEW t \in Threads, Reply(t)
         PROVE  Control'
    BY <2>15 DEF Reply, cacheVars, lockVars, heapVars
  <2>16. CASE UNCHANGED vars
    BY <2>16 DEF vars, threadVars, cacheVars, lockVars, heapVars
  <2> QED
    BY <2>1, <2>2, <2>3, <2>4, <2>5, <2>6, <2>7, <2>8, <2>9, <2>10, <2>11,
       <2>12, <2>13, <2>14, <2>15, <2>16 DEF Next, Step, Dead
<1> QED
  BY <1>1, <1>2, PTL DEF Spec

-----------------------------------------------------------------------------
(* cluster_lock. *)

Writing(t) == pc[t] \in {"store_number", "store_cluster", "unlock"}
Copying(t) == pc[t] \in {"deref", "copy"}

LockDiscipline ==
  /\ \A t \in Threads : t \in exclusive <=> Writing(t)
  /\ \A t \in Threads : t \in shared <=> Copying(t)
  /\ \A t, u \in exclusive : t = u
  /\ exclusive = {} \/ shared = {}

\* Whoever replaces a cached element is alone; nobody copies meanwhile.
THEOREM LockInvariant == Spec => []LockDiscipline
<1>1. Init => LockDiscipline
  BY DEF Init, LockDiscipline, Writing, Copying
<1>2. Control /\ LockDiscipline /\ [Next]_vars => LockDiscipline'
  <2> SUFFICES ASSUME Control, LockDiscipline, [Next]_vars
               PROVE  LockDiscipline'
    OBVIOUS
  <2> USE DEF LockDiscipline, Control, ControlTypes, Writing, Copying, Goto
  <2>1. ASSUME NEW t \in Threads,
               \/ Read(t) \/ CacheHit(t) \/ CacheMiss(t) \/ DropLocal(t)
               \/ NextCluster(t) \/ Return(t) \/ Reply(t)
        PROVE  LockDiscipline'
    BY <2>1 DEF Read, CacheHit, CacheMiss, DropLocal, NextCluster, Return, Reply, lockVars
  <2>2. ASSUME NEW t \in Threads,
               GetFrame(t) \/ FrameError(t) \/ LockTimeout(t) \/ AssertFails(t)
        PROVE  LockDiscipline'
    BY <2>2 DEF GetFrame, FrameError, LockTimeout, AssertFails, threadVars, lockVars
  <2>3. ASSUME NEW t \in Threads, LockExclusive(t)
        PROVE  LockDiscipline'
    BY <2>3 DEF LockExclusive
  <2>4. ASSUME NEW t \in Threads, StoreNumber(t) \/ StoreCluster(t) \/ Dereference(t)
        PROVE  LockDiscipline'
    BY <2>4 DEF StoreNumber, StoreCluster, Dereference, lockVars
  <2>5. ASSUME NEW t \in Threads, UnlockExclusive(t)
        PROVE  LockDiscipline'
    BY <2>5 DEF UnlockExclusive
  <2>6. ASSUME NEW t \in Threads, LockShared(t)
        PROVE  LockDiscipline'
    BY <2>6 DEF LockShared
  <2>7. ASSUME NEW t \in Threads, CopyChunk(t)
        PROVE  LockDiscipline'
    BY <2>7 DEF CopyChunk
  <2>8. CASE UNCHANGED vars
    BY <2>8 DEF vars, threadVars, lockVars
  <2> QED
    BY <2>1, <2>2, <2>3, <2>4, <2>5, <2>6, <2>7, <2>8 DEF Next, Step, Dead
<1> QED
  BY <1>1, <1>2, ControlInvariant, PTL DEF Spec

-----------------------------------------------------------------------------
(* Who owns an element. *)

Assembling(t) ==
  pc[t] \in {"build", "store_number", "store_cluster", "unlock", "drop"}

\* A thread's reference lives as long as cache_cluster runs, the owners of an
\* element are those whose pointers point to it, and the element a thread is
\* still assembling is its own.
Ownership ==
  /\ \A t \in Threads : local[t] # nullptr <=> Assembling(t)
  /\ \A c \in Clusters : owners[c] \subseteq Threads \cup Streams
  /\ \A c \in Clusters, t \in Threads : t \in owners[c] <=> local[t] = c
  /\ \A c \in Clusters, s \in Streams : s \in owners[c] <=> cached_cluster[s] = c
  /\ owners = [c \in Clusters |-> owners[c]]
  /\ \A t, u \in Threads : local[t] = local[u] /\ local[t] # nullptr => t = u
  /\ \A t \in Threads, s \in Streams :
       local[t] = cached_cluster[s] /\ local[t] # nullptr =>
         pc[t] \in {"unlock", "drop"}

\* shared_ptr counts right: an element is destroyed when the last pointer to
\* it goes away, and no sooner.
THEOREM OwnershipInvariant == Spec => []Ownership
<1>1. Init => Ownership
  BY ThreadsAssumption DEF Init, Ownership, Assembling
<1>2. Control /\ Ownership /\ [Next]_vars => Ownership'
  <2> SUFFICES ASSUME Control, Ownership, [Next]_vars
               PROVE  Ownership'
    OBVIOUS
  <2> USE ThreadsAssumption DEF Ownership, Control, ControlTypes, Assembling, Goto
  <2>1. ASSUME NEW t \in Threads, CacheMiss(t)
        PROVE  Ownership'
    BY <2>1 DEF CacheMiss, Repoint, cacheVars
  <2>2. ASSUME NEW t \in Threads, StoreCluster(t)
        PROVE  Ownership'
    <3>1. Stream(t) \in Streams
      BY <2>2, RequestFacts DEF StoreCluster, Serving, Active, Stream
    <3> QED
      BY <2>2, <3>1 DEF StoreCluster, Repoint
  <2>3. ASSUME NEW t \in Threads, DropLocal(t)
        PROVE  Ownership'
    BY <2>3 DEF DropLocal, Repoint, cacheVars
  <2>4. ASSUME NEW t \in Threads,
               \/ Read(t) \/ CacheHit(t) \/ LockShared(t) \/ Dereference(t)
               \/ CopyChunk(t) \/ NextCluster(t) \/ Return(t) \/ Reply(t)
        PROVE  Ownership'
    <3>1. UNCHANGED <<local, owners, cached_cluster>>
      BY <2>4 DEF Read, CacheHit, LockShared, Dereference, CopyChunk,
           NextCluster, Return, Reply, cacheVars, heapVars
    <3>2. ~Assembling(t) /\ ~Assembling(t)' /\ pc' = [pc EXCEPT ![t] = pc'[t]]
      BY <2>4 DEF Read, CacheHit, LockShared, Dereference, CopyChunk,
           NextCluster, Return, Reply
    <3> QED
      BY <3>1, <3>2
  <2>7. ASSUME NEW t \in Threads, LockExclusive(t) \/ StoreNumber(t) \/ UnlockExclusive(t)
        PROVE  Ownership'
    <3>1. UNCHANGED <<local, owners, cached_cluster>>
      BY <2>7 DEF LockExclusive, StoreNumber, UnlockExclusive, cacheVars, heapVars
    <3>2. /\ Assembling(t) /\ Assembling(t)'
          /\ pc[t] \in {"unlock", "drop"} => pc'[t] \in {"unlock", "drop"}
          /\ pc' = [pc EXCEPT ![t] = pc'[t]]
      BY <2>7 DEF LockExclusive, StoreNumber, UnlockExclusive
    <3> QED
      BY <3>1, <3>2
  <2>5. ASSUME NEW t \in Threads,
               GetFrame(t) \/ FrameError(t) \/ LockTimeout(t) \/ AssertFails(t)
        PROVE  Ownership'
    BY <2>5 DEF GetFrame, FrameError, LockTimeout, AssertFails, threadVars,
         cacheVars, heapVars
  <2>6. CASE UNCHANGED vars
    BY <2>6 DEF vars, threadVars, cacheVars, heapVars
  <2> QED
    BY <2>1, <2>2, <2>3, <2>4, <2>5, <2>6, <2>7 DEF Next, Step, Dead
<1> QED
  BY <1>1, <1>2, ControlInvariant, PTL DEF Spec

-----------------------------------------------------------------------------
(* What an element holds. *)

\* Element c holds the first blocks of cluster n of stream s, and no others.
Begun(c, s, n) ==
  /\ heap[c].number = n
  /\ Len(heap[c].blocks) <= num_blocks(s, n)
  /\ \A i \in 1 .. Len(heap[c].blocks) :
       heap[c].blocks[i] = n * BlocksPerCluster + i - 1

\* ... and it holds all of them.
Complete(c, s, n) ==
  Begun(c, s, n) /\ Len(heap[c].blocks) = num_blocks(s, n)

HeapTypes == heap \in [Clusters -> [number : Nat \cup {Unset}, blocks : Seq(Nat)]]

\* An element is the beginning of the cluster its thread wants, has become all
\* of it when the thread asks for the lock, and stays so as long as it is
\* cached.  Nothing else is on the heap.
Contents ==
  /\ HeapTypes
  /\ \A t \in Threads : local[t] # nullptr =>
       Begun(local[t], Stream(t), wanted[t])
  /\ \A t \in Threads : local[t] # nullptr /\ pc[t] # "build" =>
       Complete(local[t], Stream(t), wanted[t])
  /\ \A t \in Threads : local[t] # nullptr =>
       \/ wanted[t] <= NumClusters[Stream(t)]
       \/ failure = "range" /\ heap[local[t]].blocks = <<>>
  /\ \A s \in Streams : cached_cluster[s] # nullptr =>
       /\ heap[cached_cluster[s]].number \in Nat
       /\ Complete(cached_cluster[s], s, heap[cached_cluster[s]].number)
  /\ \A c \in Clusters : heap[c] # Freed => owners[c] # {}

\* Replacing or dropping a pointer destroys no element that has an owner left.
LEMMA CollectKeepsOwned ==
  ASSUME HeapTypes, heap' = Collect(owners'), NEW c \in Clusters
  PROVE  /\ owners'[c] # {} => heap'[c] = heap[c]
         /\ owners'[c] = {} => heap'[c] = Freed
BY DEF HeapTypes, Collect

\* Cached elements are complete, and nothing is left on the heap.
THEOREM ContentsInvariant == Spec => []Contents
<1>1. Init => Contents
  BY DEF Init, Contents, HeapTypes, Freed
<1>2. Control /\ Control' /\ Ownership /\ Ownership' /\ Contents /\ [Next]_vars => Contents'
  <2> SUFFICES ASSUME Control, Control', Ownership, Ownership', Contents, [Next]_vars
               PROVE  Contents'
    OBVIOUS
  <2>1. CASE UNCHANGED vars
    BY <2>1 DEF vars, threadVars, cacheVars, heapVars, Contents, HeapTypes,
         Begun, Complete, Stream
  <2> SUFFICES ASSUME Running, NEW t \in Threads, Read(t) \/ Step(t)
               PROVE  Contents'
    BY <2>1 DEF Next, Dead
  \* Steps that leave the heap, and what the assembling threads want, alone.
  <2>2. ASSUME UNCHANGED <<heap, local, owners, cached_cluster>>,
               \A u \in Threads : local[u] # nullptr =>
                 /\ request'[u] = request[u] /\ wanted'[u] = wanted[u]
                 /\ pc'[u] # "build" => pc[u] # "build" \/ Built(u)
        PROVE  Contents'
    <3>1. HeapTypes'
      BY <2>2 DEF Contents, HeapTypes
    <3>2. ASSUME NEW u \in Threads, local'[u] # nullptr
          PROVE  /\ Begun(local[u], Stream(u), wanted[u])'
                 /\ pc'[u] # "build" => Complete(local[u], Stream(u), wanted[u])'
                 /\ wanted'[u] <= NumClusters[Stream(u)']
      BY <2>2, <3>2 DEF Contents, Begun, Complete, Stream, Built, Running
    <3>3. ASSUME NEW s \in Streams, cached_cluster'[s] # nullptr
          PROVE  /\ heap'[cached_cluster'[s]].number \in Nat
                 /\ Complete(cached_cluster[s], s, heap[cached_cluster[s]].number)'
      BY <2>2, <3>3 DEF Contents, Begun, Complete
    <3>4. \A c \in Clusters : heap'[c] # Freed => owners'[c] # {}
      BY <2>2 DEF Contents
    <3> QED
      BY <3>1, <3>2, <3>3, <3>4 DEF Contents
  <2>3. CASE Read(t) \/ NextCluster(t) \/ Reply(t)
    <3>1. local[t] = nullptr
      BY <2>3 DEF Read, NextCluster, Reply, Ownership, Assembling
    <3> QED
      BY <2>2, <2>3, <3>1 DEF Read, NextCluster, Reply, Goto, Control,
           ControlTypes, cacheVars, heapVars
  <2>4. CASE LockExclusive(t)
    BY <2>2, <2>4 DEF LockExclusive, Goto, Control, ControlTypes, cacheVars,
         heapVars
  <2>5. CASE \/ CacheHit(t) \/ StoreNumber(t) \/ UnlockExclusive(t)
             \/ LockShared(t) \/ Dereference(t) \/ CopyChunk(t) \/ Return(t)
    BY <2>2, <2>5 DEF CacheHit, StoreNumber, UnlockExclusive, LockShared,
         Dereference, CopyChunk, Return, Goto, Control, ControlTypes,
         cacheVars, heapVars
  <2>6. CASE FrameError(t) \/ LockTimeout(t) \/ AssertFails(t)
    BY <2>2, <2>6 DEF FrameError, LockTimeout, AssertFails, threadVars,
         cacheVars, heapVars
  <2>7. CASE CacheMiss(t)
    <3>1. PICK c \in Clusters :
            /\ owners[c] = {}
            /\ local' = [local EXCEPT ![t] = c]
            /\ owners' = Repoint(t, nullptr, c)
            /\ heap' = [heap EXCEPT ![c] = [number |-> wanted[t], blocks |-> <<>>]]
      BY <2>7 DEF CacheMiss
    <3>2. /\ wanted[t] \in Nat /\ Stream(t) \in Streams
          /\ UNCHANGED <<request, wanted, cached_cluster>>
          /\ pc' = [pc EXCEPT ![t] = "build"]
          /\ failure' = IF wanted[t] > NumClusters[Stream(t)] THEN "range" ELSE failure
      BY <2>7, RequestFacts DEF CacheMiss, Control, Serving, Active, Goto,
           cacheVars, Stream
    <3>3. HeapTypes'
      BY <3>1, <3>2 DEF HeapTypes, Contents
    <3>4. /\ heap'[c] = [number |-> wanted[t], blocks |-> <<>>]
          /\ local'[t] = c
          /\ \A u \in Threads \ {t} : local'[u] = local[u] /\ pc'[u] = pc[u]
          /\ \A d \in Clusters \ {c} : heap'[d] = heap[d] /\ owners'[d] = owners[d]
          /\ owners'[c] # {}
      <4>1. /\ heap'[c] = [number |-> wanted[t], blocks |-> <<>>]
            /\ \A d \in Clusters \ {c} : heap'[d] = heap[d]
        BY <3>1 DEF Contents, HeapTypes
      <4>2. local'[t] = c /\ \A u \in Threads \ {t} : local'[u] = local[u] /\ pc'[u] = pc[u]
        BY <3>1, <3>2 DEF Control, ControlTypes
      <4>3. t \in owners'[c] /\ \A d \in Clusters \ {c} : owners'[d] = owners[d]
        BY <3>1, ThreadsAssumption DEF Repoint
      <4> QED
        BY <4>1, <4>2, <4>3
    <3>5. /\ \A u \in Threads : local[u] # nullptr => local[u] \in Clusters \ {c}
          /\ \A s \in Streams : cached_cluster[s] # nullptr => cached_cluster[s] \in Clusters \ {c}
      BY <3>1 DEF Ownership, Control, ControlTypes
    <3>6. Begun(c, Stream(t), wanted[t])'
      BY <3>2, <3>4, BlockCount DEF Begun, Stream
    <3>7. ASSUME NEW u \in Threads, local'[u] # nullptr
          PROVE  /\ Begun(local[u], Stream(u), wanted[u])'
                 /\ pc'[u] # "build" => Complete(local[u], Stream(u), wanted[u])'
                 /\ \/ wanted'[u] <= NumClusters[Stream(u)']
                    \/ failure' = "range" /\ heap'[local'[u]].blocks = <<>>
      <4>1. CASE u = t
        BY <3>2, <3>4, <3>6, <4>1, LayoutAssumption DEF Control, ControlTypes, Stream
      <4>2. CASE u # t
        BY <3>2, <3>4, <3>5, <3>7, <4>2 DEF Contents, Begun, Complete, Stream, Running
      <4> QED
        BY <4>1, <4>2
    <3>8. ASSUME NEW s \in Streams, cached_cluster'[s] # nullptr
          PROVE  /\ heap'[cached_cluster'[s]].number \in Nat
                 /\ Complete(cached_cluster[s], s, heap[cached_cluster[s]].number)'
      BY <3>2, <3>4, <3>5, <3>8 DEF Contents, Begun, Complete
    <3>9. \A d \in Clusters : heap'[d] # Freed => owners'[d] # {}
      BY <3>4 DEF Contents
    <3> QED
      BY <3>3, <3>7, <3>8, <3>9 DEF Contents
  <2>8. CASE GetFrame(t)
    <3> DEFINE c == local[t]
               e == heap[c]
    <3>1. /\ c \in Clusters
          /\ pc[t] = "build"
          /\ wanted[t] \in Nat /\ Stream(t) \in Streams
          /\ e.blocks \in Seq(Nat)
          /\ e.number = wanted[t]
          /\ Len(e.blocks) < num_blocks(Stream(t), wanted[t])
          /\ wanted[t] <= NumClusters[Stream(t)]
      BY <2>8, RequestFacts, BlockCount DEF GetFrame, Built, Ownership,
           Assembling, Control, ControlTypes, Serving, Active, Stream,
           Contents, HeapTypes, Begun, Running
    <3>2. /\ UNCHANGED <<pc, request, wanted, local, cached_cluster, owners, failure>>
          /\ heap' = [heap EXCEPT ![c] =
               [number |-> e.number,
                blocks |-> Append(e.blocks, wanted[t] * BlocksPerCluster + Len(e.blocks))]]
      BY <2>8 DEF GetFrame, threadVars, cacheVars
    <3>3. /\ wanted[t] * BlocksPerCluster \in Nat
          /\ wanted[t] * BlocksPerCluster + Len(e.blocks) \in Nat
      <4>1. wanted[t] * BlocksPerCluster \in Nat
        BY <3>1, ProductInNat, LayoutAssumption
      <4>2. Len(e.blocks) \in Nat
        BY <3>1
      <4> QED
        BY <4>1, <4>2
    <3>4. /\ heap'[c].number = wanted[t]
          /\ heap'[c].blocks = Append(e.blocks, wanted[t] * BlocksPerCluster + Len(e.blocks))
          /\ \A d \in Clusters \ {c} : heap'[d] = heap[d]
      BY <3>1, <3>2 DEF Contents, HeapTypes
    <3>5. HeapTypes'
      BY <3>1, <3>2, <3>3 DEF HeapTypes, Contents
    <3>6. Begun(c, Stream(t), wanted[t])'
      <4>1. Len(heap'[c].blocks) = Len(e.blocks) + 1
        BY <3>1, <3>3, <3>4
      <4>2. ASSUME NEW i \in 1 .. Len(heap'[c].blocks)
            PROVE  heap'[c].blocks[i] = wanted[t] * BlocksPerCluster + i - 1
        <5>1. CASE i <= Len(e.blocks)
          <6>1. i \in 1 .. Len(e.blocks) /\ heap'[c].blocks[i] = e.blocks[i]
            BY <3>1, <3>3, <3>4, <5>1
          <6> QED
            BY <3>1, <6>1 DEF Contents, Begun, Ownership, Assembling
        <5>2. CASE i = Len(e.blocks) + 1
          <6>1. heap'[c].blocks[i] = wanted[t] * BlocksPerCluster + Len(e.blocks)
            BY <3>1, <3>3, <3>4, <5>2
          <6>2. Len(e.blocks) \in Nat
            BY <3>1
          <6> QED
            BY <3>3, <5>2, <6>1, <6>2
        <5> QED
          BY <3>1, <4>1, <5>1, <5>2, SMTT(30)
      <4>3. Len(heap'[c].blocks) <= num_blocks(Stream(t), wanted[t])
        BY <3>1, <4>1, BlockCount, SMTT(30)
      <4>4. heap'[local'[t]].number = wanted'[t] /\ Stream(t)' = Stream(t)
        BY <3>2, <3>4 DEF Stream
      <4> QED
        BY <3>2, <4>2, <4>3, <4>4 DEF Begun
    <3>7. /\ \A u \in Threads \ {t} : local[u] # nullptr => local[u] \in Clusters \ {c}
          /\ \A s \in Streams : cached_cluster[s] # nullptr => cached_cluster[s] \in Clusters \ {c}
      <4>1. local[t] # nullptr /\ pc[t] \notin {"unlock", "drop"}
        BY <3>1 DEF Ownership, Assembling
      <4>2. \A u \in Threads \ {t} : local[u] # local[t]
        BY <4>1 DEF Ownership
      <4>3. \A s \in Streams : cached_cluster[s] # local[t]
        BY <4>1 DEF Ownership
      <4> QED
        BY <3>1, <4>2, <4>3 DEF Control, ControlTypes
    <3>8. ASSUME NEW u \in Threads, local'[u] # nullptr
          PROVE  /\ Begun(local[u], Stream(u), wanted[u])'
                 /\ pc'[u] # "build" => Complete(local[u], Stream(u), wanted[u])'
                 /\ \/ wanted'[u] <= NumClusters[Stream(u)']
                    \/ failure' = "range" /\ heap'[local'[u]].blocks = <<>>
      <4>1. CASE u = t
        BY <3>1, <3>2, <3>6, <4>1 DEF Stream
      <4>2. CASE u # t
        BY <3>2, <3>4, <3>7, <3>8, <4>2, SMTT(30) DEF Contents, Begun, Complete, Stream
      <4> QED
        BY <4>1, <4>2
    <3>9. ASSUME NEW s \in Streams, cached_cluster'[s] # nullptr
          PROVE  /\ heap'[cached_cluster'[s]].number \in Nat
                 /\ Complete(cached_cluster[s], s, heap[cached_cluster[s]].number)'
      BY <3>2, <3>4, <3>7, <3>9 DEF Contents, Begun, Complete
    <3>10. \A d \in Clusters : heap'[d] # Freed => owners'[d] # {}
      <4>1. t \in owners[c]
        BY <3>1 DEF Ownership
      <4> QED
        BY <3>2, <3>4, <4>1 DEF Contents
    <3> QED
      BY <3>5, <3>8, <3>9, <3>10 DEF Contents
  \* Steps that move pointers and may destroy elements.
  <2>9. ASSUME heap' = Collect(owners'),
               UNCHANGED <<request, wanted, failure>>,
               \A u \in Threads : local'[u] # nullptr =>
                 /\ local'[u] = local[u]
                 /\ pc'[u] # "build" => pc[u] # "build",
               \A s \in Streams : cached_cluster'[s] # nullptr =>
                 \/ cached_cluster'[s] = cached_cluster[s]
                 \/ \E u \in Threads : /\ local[u] = cached_cluster'[s]
                                       /\ pc[u] # "build"
                                       /\ Stream(u) = s
                                       /\ wanted[u] \in Nat
        PROVE  Contents'
    <3>1. HeapTypes'
      BY <2>9 DEF Contents, HeapTypes, Collect, Freed
    <3>2. \A c \in Clusters : owners'[c] # {} => heap'[c] = heap[c]
      BY <2>9, CollectKeepsOwned DEF Contents
    <3>3. \A c \in Clusters : heap'[c] # Freed => owners'[c] # {}
      BY <2>9, CollectKeepsOwned DEF Contents
    <3>4. ASSUME NEW u \in Threads, local'[u] # nullptr
          PROVE  heap'[local'[u]] = heap[local[u]] /\ Stream(u)' = Stream(u)
      BY <2>9, <3>2, <3>4 DEF Ownership, Control, ControlTypes, Stream
    <3>5. ASSUME NEW s \in Streams, cached_cluster'[s] # nullptr
          PROVE  heap'[cached_cluster'[s]] = heap[cached_cluster'[s]]
      BY <2>9, <3>2, <3>5 DEF Ownership, Control, ControlTypes
    <3>6. ASSUME NEW u \in Threads, local'[u] # nullptr
          PROVE  /\ Begun(local[u], Stream(u), wanted[u])'
                 /\ pc'[u] # "build" => Complete(local[u], Stream(u), wanted[u])'
                 /\ \/ wanted'[u] <= NumClusters[Stream(u)']
                    \/ failure' = "range" /\ heap'[local'[u]].blocks = <<>>
      BY <2>9, <3>4, <3>6 DEF Contents, Begun, Complete
    <3>7. ASSUME NEW s \in Streams, cached_cluster'[s] # nullptr
          PROVE  /\ heap'[cached_cluster'[s]].number \in Nat
                 /\ Complete(cached_cluster[s], s, heap[cached_cluster[s]].number)'
      <4>1. CASE cached_cluster'[s] = cached_cluster[s]
        BY <3>5, <3>7, <4>1 DEF Contents, Begun, Complete
      <4>2. CASE cached_cluster'[s] # cached_cluster[s]
        <5>1. PICK u \in Threads : /\ local[u] = cached_cluster'[s]
                                   /\ pc[u] # "build"
                                   /\ Stream(u) = s
                                   /\ wanted[u] \in Nat
          BY <2>9, <3>7, <4>2
        <5>2. Complete(local[u], s, wanted[u])
          BY <3>7, <5>1 DEF Contents
        <5> QED
          BY <3>5, <3>7, <5>1, <5>2 DEF Begun, Complete
      <4> QED
        BY <4>1, <4>2
    <3> QED
      BY <3>1, <3>3, <3>6, <3>7 DEF Contents
  <2>10. CASE StoreCluster(t)
    <3>1. /\ wanted[t] \in Nat
          /\ cached_cluster' = [cached_cluster EXCEPT ![Stream(t)] = local[t]]
          /\ pc[t] = "store_cluster" /\ pc' = [pc EXCEPT ![t] = "unlock"]
          /\ UNCHANGED <<request, wanted, local, failure>>
          /\ heap' = Collect(owners')
      BY <2>10 DEF StoreCluster, Goto, Control, Serving, Active
    <3> QED
      BY <2>9, <3>1 DEF Control, ControlTypes
  <2>11. CASE DropLocal(t)
    <3>1. /\ local' = [local EXCEPT ![t] = nullptr]
          /\ pc' = [pc EXCEPT ![t] = "share"]
          /\ UNCHANGED <<request, wanted, cached_cluster, failure>>
          /\ heap' = Collect(owners')
      BY <2>11 DEF DropLocal, Goto, cacheVars
    <3> QED
      BY <2>9, <3>1 DEF Control, ControlTypes
  <2> QED
    BY <2>3, <2>4, <2>5, <2>6, <2>7, <2>8, <2>10, <2>11 DEF Step
<1> QED
  BY <1>1, <1>2, ControlInvariant, OwnershipInvariant, PTL DEF Spec

\* A reader never sees an element that is still being assembled, or half
\* assembled by a call that failed.
THEOREM PublishedCompleteInvariant == Spec => []PublishedComplete
<1>1. Control /\ Contents => PublishedComplete
  <2> SUFFICES ASSUME Control, Contents, NEW s \in Streams, cached_cluster[s] # nullptr
               PROVE  heap[cached_cluster[s]].blocks = BlocksOf(s, heap[cached_cluster[s]].number)
    BY DEF PublishedComplete
  <2> DEFINE e == heap[cached_cluster[s]]
  <2>1. /\ e.blocks \in Seq(Nat)
        /\ e.number \in Nat
        /\ Complete(cached_cluster[s], s, e.number)
    BY DEF Contents, HeapTypes, Control, ControlTypes
  <2>2. \A i \in 1 .. Len(e.blocks) : e.blocks[i] = e.number * BlocksPerCluster + i - 1
    BY <2>1 DEF Complete, Begun
  <2>3. Len(e.blocks) = num_blocks(s, e.number)
    BY <2>1 DEF Complete
  <2>4. e.blocks = [i \in 1 .. Len(e.blocks) |-> e.blocks[i]]
    <3>1. e.blocks \in [1 .. Len(e.blocks) -> Nat]
      BY <2>1, LenProperties
    <3> QED
      BY <3>1
  <2>5. BlocksOf(s, e.number) = [i \in 1 .. Len(e.blocks) |-> e.number * BlocksPerCluster + i - 1]
    BY <2>3 DEF BlocksOf
  <2> QED
    BY <2>2, <2>4, <2>5
<1> QED
  BY <1>1, ControlInvariant, ContentsInvariant, PTL

\* No frame past the end of the clip is ever asked for.
THEOREM FramesExistInvariant == Spec => []FramesExist
<1>1. Control /\ Ownership /\ Contents => FramesExist
  <2> SUFFICES ASSUME Control, Ownership, Contents,
                      NEW t \in Threads, local[t] # nullptr,
                      NEW i \in DOMAIN heap[local[t]].blocks
               PROVE  heap[local[t]].blocks[i] < num_frames(Stream(t))
    BY DEF FramesExist
  <2> DEFINE n == wanted[t]
             s == Stream(t)
             b == heap[local[t]].blocks
  <2>1. /\ n \in Nat /\ s \in Streams /\ b \in Seq(Nat)
        /\ i \in 1 .. Len(b)
    <3>1. n \in Nat /\ s \in Streams
      BY RequestFacts DEF Control, Serving, Active, Ownership, Assembling, Stream
    <3>2. b \in Seq(Nat)
      BY DEF Control, ControlTypes, Contents, HeapTypes
    <3> QED
      BY <3>1, <3>2
  <2>2. /\ b[i] = n * BlocksPerCluster + i - 1
        /\ Len(b) <= num_blocks(s, n)
        /\ n <= NumClusters[s]
    BY <2>1 DEF Contents, Begun
  <2>3. CASE n = NumClusters[s]
    BY <2>1, <2>2, <2>3, LayoutAssumption DEF num_blocks, num_frames
  <2>4. CASE n < NumClusters[s]
    <3>1. n + 1 \in Nat /\ NumClusters[s] \in Nat /\ BlocksPerCluster \in Nat
      BY <2>1, LayoutAssumption
    <3>2. (n + 1) * BlocksPerCluster <= NumClusters[s] * BlocksPerCluster
      BY <2>1, <2>4, <3>1, ProductMonotone
    <3>3. (n + 1) * BlocksPerCluster = n * BlocksPerCluster + BlocksPerCluster
      BY <2>1, <3>1
    <3>4. n * BlocksPerCluster \in Nat /\ NumClusters[s] * BlocksPerCluster \in Nat
      BY <2>1, <3>1, ProductInNat
    <3>5. i <= BlocksPerCluster
      BY <2>1, <2>2, <2>4, <3>1 DEF num_blocks
    <3>6. num_frames(s) = NumClusters[s] * BlocksPerCluster + TailBlocks[s] /\ TailBlocks[s] \in Nat
      BY <2>1, <3>1, LayoutAssumption DEF num_frames
    <3> DEFINE first == n * BlocksPerCluster
               full  == NumClusters[s] * BlocksPerCluster
    <3>7. /\ first \in Nat /\ full \in Nat
          /\ first + BlocksPerCluster <= full
          /\ b[i] = first + i - 1
          /\ num_frames(s) = full + TailBlocks[s]
      BY <2>2, <3>2, <3>3, <3>4, <3>6
    <3> HIDE DEF first, full
    <3>8. b[i] < num_frames(s)
      BY <2>1, <3>1, <3>5, <3>6, <3>7
    <3> QED
      BY <3>8
  <2> QED
    BY <2>1, <2>2, <2>3, <2>4, LayoutAssumption
<1> QED
  BY <1>1, ControlInvariant, OwnershipInvariant, ContentsInvariant, PTL

\* Frames are held by at most one element per stream and one per thread.
THEOREM NoLeakedFramesInvariant == Spec => []NoLeakedFrames
<1>1. Control /\ Ownership /\ Contents => NoLeakedFrames
  BY DEF Control, ControlTypes, Ownership, Contents, NoLeakedFrames
<1> QED
  BY <1>1, ControlInvariant, OwnershipInvariant, ContentsInvariant, PTL

-----------------------------------------------------------------------------
(* What an element is cached under. *)

\* A thread that is past its look at the cache has found or put an element
\* there, and one that copies from it copies from the one that is there still.
Tags ==
  /\ TagMatches
  /\ \A t \in Threads : pc[t] = "store_cluster" =>
       cached_cluster_number[Stream(t)] = wanted[t]
  /\ \A t \in Threads :
       pc[t] \in {"store_cluster", "unlock", "drop", "share", "deref", "copy"} =>
         cached_cluster_number[Stream(t)] # Unset
  /\ \A t \in Threads : pc[t] = "copy" =>
       target[t] # nullptr /\ target[t] = cached_cluster[Stream(t)]

\* Number and element agree whenever nobody is between the two stores.
THEOREM TagsInvariant == Spec => []Tags
<1> DEFINE Known == Control /\ Control' /\ LockDiscipline /\ Ownership
                      /\ Ownership' /\ Contents /\ Contents'
<1>1. Init => Tags
  BY DEF Init, Tags, TagMatches
<1>2. Known /\ Tags /\ [Next]_vars => Tags'
  <2> SUFFICES ASSUME Known, Tags, [Next]_vars
               PROVE  Tags'
    OBVIOUS
  <2>1. CASE UNCHANGED vars
    BY <2>1 DEF vars, threadVars, cacheVars, heapVars, Tags, TagMatches, Stream
  <2> SUFFICES ASSUME Running, NEW t \in Threads, Read(t) \/ Step(t)
               PROVE  Tags'
    BY <2>1 DEF Next, Dead
  <2> DEFINE Looked(u) == pc[u] \in {"store_cluster", "unlock", "drop",
                                     "share", "deref", "copy"}
  \* Steps that leave the cache and the elements in it alone.
  <2>2. ASSUME UNCHANGED <<cached_cluster, cached_cluster_number>>,
               \A s \in Streams : cached_cluster[s] # nullptr =>
                 heap'[cached_cluster[s]].number = heap[cached_cluster[s]].number,
               \A u \in Threads :
                 /\ pc'[u] = "store_cluster" <=> pc[u] = "store_cluster"
                 /\ Looked(u)' =>
                      /\ request'[u] = request[u] /\ wanted'[u] = wanted[u]
                      /\ Looked(u) \/ cached_cluster_number[Stream(u)] # Unset
                 /\ pc'[u] = "copy" => pc[u] = "copy" /\ target'[u] = target[u]
        PROVE  Tags'
    <3>1. \A u \in Threads : pc[u] = "store_cluster" => Stream(u)' = Stream(u)
      BY <2>2 DEF Stream
    <3>2. TagMatches'
      BY <2>2, <3>1 DEF Tags, TagMatches
    <3>3. ASSUME NEW u \in Threads, Looked(u)'
          PROVE  /\ cached_cluster_number'[Stream(u)'] # Unset
                 /\ pc'[u] = "store_cluster" => cached_cluster_number'[Stream(u)'] = wanted'[u]
                 /\ pc'[u] = "copy" => target'[u] # nullptr /\ target'[u] = cached_cluster'[Stream(u)']
      BY <2>2, <3>3 DEF Tags, Stream
    <3> QED
      BY <3>2, <3>3 DEF Tags
  <2>3. ASSUME heap' = heap \/ GetFrame(t) \/ CacheMiss(t) \/ DropLocal(t),
               UNCHANGED cached_cluster
        PROVE  \A s \in Streams : cached_cluster[s] # nullptr =>
                 heap'[cached_cluster[s]].number = heap[cached_cluster[s]].number
    <3> SUFFICES ASSUME NEW s \in Streams, cached_cluster[s] # nullptr
                 PROVE  heap'[cached_cluster[s]].number = heap[cached_cluster[s]].number
      OBVIOUS
    <3>1. cached_cluster[s] \in Clusters /\ s \in owners[cached_cluster[s]]
      BY DEF Control, ControlTypes, Ownership
    <3>2. CASE GetFrame(t)
      BY <3>1, <3>2 DEF GetFrame, Contents, HeapTypes, Ownership, Assembling,
           Control, ControlTypes
    <3>3. CASE CacheMiss(t)
      BY <3>1, <3>3 DEF CacheMiss, Contents, HeapTypes
    <3>4. CASE DropLocal(t)
      <4>1. s \in owners'[cached_cluster[s]]
        BY <2>3, <3>1 DEF Ownership
      <4> QED
        BY <3>1, <3>4, <4>1, CollectKeepsOwned DEF DropLocal, Contents
    <3> QED
      BY <2>3, <3>2, <3>3, <3>4
  <2>4. CASE \/ Read(t) \/ CacheHit(t) \/ LockExclusive(t) \/ UnlockExclusive(t)
             \/ LockShared(t) \/ CopyChunk(t) \/ NextCluster(t) \/ Return(t)
             \/ Reply(t)
    <3>1. UNCHANGED <<cached_cluster, cached_cluster_number, heap>>
      BY <2>4 DEF Read, CacheHit, LockExclusive, UnlockExclusive, LockShared,
           CopyChunk, NextCluster, Return, Reply, cacheVars, heapVars
    <3>2. /\ pc' = [pc EXCEPT ![t] = pc'[t]]
          /\ \A u \in Threads \ {t} : /\ request'[u] = request[u]
                                      /\ wanted'[u] = wanted[u]
                                      /\ target'[u] = target[u]
          /\ pc[t] # "store_cluster" /\ pc'[t] # "store_cluster" /\ pc'[t] # "copy"
      BY <2>4 DEF Read, CacheHit, LockExclusive, UnlockExclusive, LockShared,
           CopyChunk, NextCluster, Return, Reply, Goto, Control, ControlTypes
    <3>3. Looked(t)' => /\ request'[t] = request[t] /\ wanted'[t] = wanted[t]
                        /\ Looked(t) \/ cached_cluster_number[Stream(t)] # Unset
      BY <2>4 DEF Read, CacheHit, LockExclusive, UnlockExclusive, LockShared,
           CopyChunk, NextCluster, Return, Reply, Goto, Control, ControlTypes,
           Serving, Active, Unset
    <3> QED
      BY <2>2, <2>3, <3>1, <3>2, <3>3 DEF Control, ControlTypes
  <2>5. CASE \/ CacheMiss(t) \/ GetFrame(t) \/ FrameError(t) \/ LockTimeout(t)
             \/ DropLocal(t) \/ AssertFails(t)
    <3>1. /\ UNCHANGED <<cached_cluster, cached_cluster_number, request, wanted, target>>
          /\ heap' = heap \/ GetFrame(t) \/ CacheMiss(t) \/ DropLocal(t)
          /\ pc' = pc \/ CacheMiss(t) \/ DropLocal(t)
      BY <2>5 DEF CacheMiss, GetFrame, FrameError, LockTimeout, DropLocal,
           AssertFails, threadVars, cacheVars, heapVars
    <3>2. \A u \in Threads : /\ pc'[u] = "store_cluster" <=> pc[u] = "store_cluster"
                             /\ Looked(u)' => Looked(u)
                             /\ pc'[u] = "copy" => pc[u] = "copy"
      BY <3>1 DEF CacheMiss, DropLocal, Goto, Control, ControlTypes
    <3> QED
      BY <2>2, <2>3, <3>1, <3>2
  <2>6. CASE StoreNumber(t)
    <3>1. /\ pc[t] = "store_number" /\ pc' = [pc EXCEPT ![t] = "store_cluster"]
          /\ cached_cluster_number' = [cached_cluster_number EXCEPT ![Stream(t)] = wanted[t]]
          /\ UNCHANGED <<request, wanted, target, cached_cluster, heap>>
          /\ wanted[t] \in Nat /\ Stream(t) \in Streams
      BY <2>6, RequestFacts DEF StoreNumber, Goto, heapVars, Control, Serving,
           Active, Stream
    <3>2. \A u \in Threads \ {t} : pc[u] # "store_cluster"
      BY <3>1 DEF LockDiscipline, Writing
    <3>3. TagMatches'
      BY <3>1, <3>2 DEF Tags, TagMatches, Stream, Control, ControlTypes
    <3>4. ASSUME NEW u \in Threads, Looked(u)'
          PROVE  /\ cached_cluster_number'[Stream(u)'] # Unset
                 /\ pc'[u] = "store_cluster" => cached_cluster_number'[Stream(u)'] = wanted'[u]
                 /\ pc'[u] = "copy" => target'[u] # nullptr /\ target'[u] = cached_cluster'[Stream(u)']
      <4>1. CASE u = t
        BY <3>1, <4>1 DEF Control, ControlTypes, Stream, Unset
      <4>2. CASE u # t
        BY <3>1, <3>2, <3>4, <4>2 DEF Control, ControlTypes, Tags, Stream, Unset
      <4> QED
        BY <4>1, <4>2
    <3> QED
      BY <3>3, <3>4 DEF Tags
  <2>7. CASE StoreCluster(t)
    <3> DEFINE s == Stream(t)
    <3>1. /\ pc[t] = "store_cluster" /\ pc' = [pc EXCEPT ![t] = "unlock"]
          /\ cached_cluster' = [cached_cluster EXCEPT ![s] = local[t]]
          /\ heap' = Collect(owners')
          /\ UNCHANGED <<request, wanted, target, local, cached_cluster_number>>
          /\ wanted[t] \in Nat /\ s \in Streams
      BY <2>7, RequestFacts DEF StoreCluster, Goto, Control, Serving,
           Active, Stream
    <3>2. \A u \in Threads \ {t} : pc[u] # "store_cluster"
      BY <3>1 DEF LockDiscipline, Writing
    <3>3. \A u \in Threads : pc[u] # "copy"
      BY <3>1 DEF LockDiscipline, Writing, Copying
    <3>4. ASSUME NEW r \in Streams, cached_cluster'[r] # nullptr
          PROVE  cached_cluster'[r] \in Clusters /\ heap'[cached_cluster'[r]] = heap[cached_cluster'[r]]
      <4>1. cached_cluster'[r] \in Clusters
        BY <3>4 DEF Control, ControlTypes
      <4>2. r \in owners'[cached_cluster'[r]]
        BY <4>1 DEF Ownership
      <4>3. HeapTypes
        BY DEF Contents
      <4> QED
        BY <3>1, <4>1, <4>2, <4>3, CollectKeepsOwned
    <3>5. /\ cached_cluster'[s] = local[t] /\ local[t] # nullptr
          /\ heap'[local[t]].number = wanted[t]
          /\ cached_cluster_number'[s] = wanted[t]
      BY <3>1, <3>4 DEF Control, ControlTypes, Ownership, Assembling, Contents,
           Begun, Tags
    <3>6. ASSUME NEW r \in Streams, r # s
          PROVE  IF cached_cluster'[r] = nullptr
                 THEN cached_cluster_number'[r] = Unset
                 ELSE cached_cluster_number'[r] = heap'[cached_cluster'[r]].number
      BY <3>1, <3>2, <3>4, <3>6 DEF Tags, TagMatches, Control, ControlTypes
    <3>7. TagMatches'
      BY <3>1, <3>5, <3>6 DEF TagMatches
    <3>8. ASSUME NEW u \in Threads, Looked(u)'
          PROVE  /\ cached_cluster_number'[Stream(u)'] # Unset
                 /\ pc'[u] # "store_cluster"
                 /\ pc'[u] # "copy"
      BY <3>1, <3>2, <3>3, <3>8 DEF Control, ControlTypes, Tags, Stream
    <3> QED
      BY <3>7, <3>8 DEF Tags
  <2>8. CASE Dereference(t)
    <3>1. /\ pc[t] = "deref" /\ pc' = [pc EXCEPT ![t] = "copy"]
          /\ target' = [target EXCEPT ![t] = cached_cluster[Stream(t)]]
          /\ UNCHANGED <<request, wanted, cached_cluster, cached_cluster_number, heap>>
          /\ Stream(t) \in Streams
      BY <2>8, RequestFacts DEF Dereference, Goto, cacheVars, heapVars, Control,
           Serving, Active, Stream
    <3>2. \A u \in Threads : pc[u] # "store_cluster"
      BY <3>1 DEF LockDiscipline, Writing, Copying
    <3>3. cached_cluster[Stream(t)] # nullptr
      BY <3>1, <3>2 DEF Tags, TagMatches
    <3>4. TagMatches'
      BY <3>1, <3>2 DEF Tags, TagMatches
    <3>5. ASSUME NEW u \in Threads, Looked(u)'
          PROVE  /\ cached_cluster_number'[Stream(u)'] # Unset
                 /\ pc'[u] # "store_cluster"
                 /\ pc'[u] = "copy" => target'[u] # nullptr /\ target'[u] = cached_cluster'[Stream(u)']
      BY <3>1, <3>2, <3>3, <3>5 DEF Control, ControlTypes, Tags, Stream
    <3> QED
      BY <3>4, <3>5 DEF Tags
  <2> QED
    BY <2>4, <2>5, <2>6, <2>7, <2>8 DEF Step
<1> QED
  BY <1>1, <1>2, ControlInvariant, LockInvariant, OwnershipInvariant,
     ContentsInvariant, PTL DEF Spec

\* No thread copies from an element that somebody replaces or destroys.
THEOREM NoDanglingReadInvariant == Spec => []NoDanglingRead
<1>1. Control /\ Ownership /\ Tags => NoDanglingRead
  BY RequestFacts DEF Control, ControlTypes, Serving, Active, Stream,
       Ownership, Tags, NoDanglingRead
<1> QED
  BY <1>1, ControlInvariant, OwnershipInvariant, TagsInvariant, PTL

\* The number a cluster is cached under is its own.
THEOREM TagMatchesInvariant == Spec => []TagMatches
<1>1. Tags => TagMatches
  BY DEF Tags
<1> QED
  BY <1>1, TagsInvariant, PTL

-----------------------------------------------------------------------------
(* The buffers. *)

Byte == (Nat \cup {Unset}) \X Nat

\* Nothing is written behind the end of a buffer.
Buffers ==
  /\ out \in [Threads -> Seq(Byte)]
  /\ \A t \in Threads : ~Active(t) => out[t] = <<>>
  /\ \A t \in Threads : Active(t) => Len(out[t]) <= request[t].size

\* A chunk of n bytes is a sequence of bytes.
LEMMA ChunkIsSeq ==
  ASSUME NEW n \in Int, NEW m \in Nat \cup {Unset}, NEW p \in Nat
  PROVE  /\ [k \in 1 .. n |-> <<m, p + k - 1>>] \in Seq(Byte)
         /\ Len([k \in 1 .. n |-> <<m, p + k - 1>>]) = IF n >= 0 THEN n ELSE 0
<1> DEFINE f == [k \in 1 .. n |-> <<m, p + k - 1>>]
           l == IF n >= 0 THEN n ELSE 0
<1>1. l \in Nat /\ 1 .. n = 1 .. l
  OBVIOUS
<1>2. ASSUME NEW k \in 1 .. n
      PROVE  f[k] \in Byte
  <2>1. p + k - 1 \in Nat
    OBVIOUS
  <2> QED
    BY <2>1 DEF Byte
<1>3. f \in [1 .. l -> Byte]
  BY <1>1, <1>2
<1>4. DOMAIN f = 1 .. l
  BY <1>1
<1> HIDE DEF f, l
<1>5. f \in Seq(Byte)
  BY <1>1, <1>3, SeqDef
<1>6. DOMAIN f = 1 .. Len(f) /\ Len(f) \in Nat
  BY <1>5, LenProperties
<1>7. Len(f) = l
  BY <1>1, <1>4, <1>6
<1> QED
  BY <1>5, <1>7 DEF f, l

\* What the element a thread copies from is: one of its stream, complete.
LEMMA TargetFacts ==
  ASSUME Control, Contents, Tags, NEW t \in Threads, pc[t] = "copy"
  PROVE  /\ request[t] \in Requests /\ Stream(t) \in Streams
         /\ wanted[t] \in Nat
         /\ target[t] \in Clusters /\ target[t] = cached_cluster[Stream(t)]
         /\ heap[target[t]].number \in Nat
         /\ Len(heap[target[t]].blocks) = num_blocks(Stream(t), heap[target[t]].number)
         /\ Len(heap[target[t]].blocks) \in 0 .. BlocksPerCluster
<1> DEFINE s == Stream(t)
           c == target[t]
<1>1. request[t] \in Requests /\ s \in Streams /\ wanted[t] \in Nat
  BY RequestFacts DEF Control, Serving, Active, Stream
<1>2. c \in Clusters /\ c = cached_cluster[s] /\ c # nullptr
  BY DEF Tags, Control, ControlTypes
<1>3. heap[c].number \in Nat /\ Complete(c, s, heap[c].number)
  BY <1>1, <1>2 DEF Contents
<1>4. Len(heap[c].blocks) = num_blocks(s, heap[c].number)
  BY <1>3 DEF Complete
<1> QED
  BY <1>1, <1>2, <1>3, <1>4, BlockCount

\* A copy appends bytes of one element to the buffer, as many as fit and are
\* left in the element.
LEMMA CopyFacts ==
  ASSUME Control, Contents, Tags, Buffers, NEW t \in Threads, CopyChunk(t)
  PROVE  /\ ChunkOffset(t) \in Nat
         /\ Len(out[t]) \in Nat /\ ChunkLength(t) \in Nat
         /\ ChunkLength(t) = min(request[t].size - Len(out[t]),
              max(0, ClusterBytes[Stream(t)][Len(heap[target[t]].blocks)] - ChunkOffset(t)))
         /\ out'[t] \in Seq(Byte)
         /\ Len(out'[t]) = Len(out[t]) + ChunkLength(t)
         /\ Len(out'[t]) <= request[t].size
         /\ \A k \in 1 .. Len(out[t]) : out'[t][k] = out[t][k]
         /\ \A k \in Len(out[t]) + 1 .. Len(out'[t]) :
              out'[t][k] = <<heap[target[t]].number, ChunkOffset(t) + (k - Len(out[t])) - 1>>
         /\ \A u \in Threads \ {t} : out'[u] = out[u]
         /\ out' = [out EXCEPT ![t] = out'[t]]
<1> DEFINE s == Stream(t)
           c == target[t]
           n == ChunkLength(t)
           byte(k) == <<heap[c].number, ChunkOffset(t) + k - 1>>
           chunk == [k \in 1 .. n |-> byte(k)]
<1>1. pc[t] = "copy" /\ out' = [out EXCEPT ![t] = out[t] \o chunk]
  BY DEF CopyChunk, Buffers
<1>2. /\ request[t] \in Requests /\ request[t].size \in Nat
      /\ s \in Streams
      /\ ChunkOffset(t) \in Nat
  <2>1. request[t] \in Requests
    BY <1>1 DEF Control, Serving, Active
  <2>2. cluster_offset(request[t]) \in Nat
    BY <2>1, RequestFacts, Sizes
  <2> QED
    BY <2>1, <2>2, RequestFacts DEF ChunkOffset, Stream
<1>3. /\ heap[c].number \in Nat
      /\ Len(heap[c].blocks) \in 0 .. BlocksPerCluster
  BY <1>1, TargetFacts
<1>4. /\ out[t] \in Seq(Byte) /\ Len(out[t]) \in Nat
      /\ Len(out[t]) <= request[t].size
  <2>1. out[t] \in Seq(Byte)
    BY DEF Buffers
  <2> QED
    BY <1>1, <2>1, LenProperties DEF Buffers, Active
<1> DEFINE room == request[t].size - Len(out[t])
           left == ClusterBytes[s][Len(heap[c].blocks)] - ChunkOffset(t)
<1>5. n = min(room, max(0, left))
  BY DEF ChunkLength
<1>6. n \in Nat /\ n <= room
  <2>1. ClusterBytes[s][Len(heap[c].blocks)] \in Nat
    BY <1>2, <1>3, LayoutAssumption
  <2>2. room \in Nat /\ left \in Int
    BY <1>2, <1>4, <2>1
  <2> HIDE DEF n, room, left
  <2> QED
    BY <1>5, <2>2 DEF min, max
<1> HIDE DEF n
<1>7. chunk \in Seq(Byte) /\ Len(chunk) = n
  <2>1. n \in Int /\ n >= 0 /\ heap[c].number \in Nat \cup {Unset}
    BY <1>3, <1>6
  <2>2. chunk \in Seq(Byte) /\ Len(chunk) = IF n >= 0 THEN n ELSE 0
    BY <1>2, <2>1, ChunkIsSeq
  <2> QED
    BY <2>1, <2>2
<1>8. \A k \in 1 .. n : chunk[k] = byte(k)
  OBVIOUS
<1> HIDE DEF chunk
<1>9. /\ out[t] \o chunk \in Seq(Byte)
      /\ Len(out[t] \o chunk) = Len(out[t]) + n
      /\ \A k \in 1 .. Len(out[t]) + n :
           (out[t] \o chunk)[k] = IF k <= Len(out[t]) THEN out[t][k] ELSE chunk[k - Len(out[t])]
  BY <1>4, <1>7, ConcatProperties
<1>10. /\ out'[t] = out[t] \o chunk
       /\ \A u \in Threads \ {t} : out'[u] = out[u]
       /\ out' = [out EXCEPT ![t] = out'[t]]
  BY <1>1 DEF Buffers
<1>11. \A k \in 1 .. Len(out[t]) : out'[t][k] = out[t][k]
  BY <1>4, <1>6, <1>9, <1>10
<1>12. ASSUME NEW k \in Len(out[t]) + 1 .. Len(out[t]) + n
       PROVE  out'[t][k] = byte(k - Len(out[t]))
  <2>1. k - Len(out[t]) \in 1 .. n /\ k \in 1 .. Len(out[t]) + n /\ ~(k <= Len(out[t]))
    BY <1>4, <1>6
  <2>2. out'[t][k] = chunk[k - Len(out[t])]
    BY <1>9, <1>10, <2>1
  <2> QED
    BY <1>8, <2>1, <2>2
<1>13. Len(out'[t]) = Len(out[t]) + n /\ out'[t] \in Seq(Byte)
  BY <1>9, <1>10
<1>14. Len(out'[t]) <= request[t].size
  BY <1>2, <1>4, <1>6, <1>13
<1> QED
  BY <1>2, <1>4, <1>5, <1>6, <1>10, <1>11, <1>12, <1>13, <1>14 DEF n

\* A copy never writes behind the end of the buffer, wherever in whichever
\* element it starts.
THEOREM BuffersInvariant == Spec => []Buffers
<1> DEFINE Known == Control /\ Contents /\ Tags
<1>1. Init => Buffers
  BY DEF Init, Buffers, Active
<1>2. Known /\ Buffers /\ [Next]_vars => Buffers'
  <2> SUFFICES ASSUME Known, Buffers, [Next]_vars
               PROVE  Buffers'
    OBVIOUS
  <2>1. CASE UNCHANGED vars
    BY <2>1 DEF vars, threadVars, Buffers, Active
  <2> SUFFICES ASSUME NEW t \in Threads, Read(t) \/ Step(t)
               PROVE  Buffers'
    BY <2>1 DEF Next, Dead
  <2>2. CASE Read(t)
    <3>1. /\ ~Active(t)
          /\ UNCHANGED out
          /\ \E r \in Requests : request' = [request EXCEPT ![t] = r]
          /\ pc' = [pc EXCEPT ![t] = "check"]
      BY <2>2 DEF Read, Goto, Active
    <3>2. request'[t] \in Requests /\ out'[t] = <<>>
      BY <3>1 DEF Buffers, Control, ControlTypes
    <3>3. Len(out'[t]) <= request'[t].size
      BY <3>2, RequestFacts
    <3>4. \A u \in Threads \ {t} : request'[u] = request[u] /\ pc'[u] = pc[u]
      BY <3>1 DEF Control, ControlTypes
    <3>5. pc'[t] = "check"
      BY <3>1 DEF Control, ControlTypes
    <3> QED
      BY <3>1, <3>3, <3>4, <3>5 DEF Buffers, Active
  <2>3. CASE Reply(t)
    BY <2>3, EmptySeq DEF Reply, Goto, Buffers, Active, Control, ControlTypes
  <2>4. CASE CopyChunk(t)
    <3>1. pc[t] = "copy" /\ UNCHANGED request /\ pc' = [pc EXCEPT ![t] = "resume"]
      BY <2>4 DEF CopyChunk, Goto
    <3>2. /\ out'[t] \in Seq(Byte) /\ Len(out'[t]) <= request[t].size
          /\ \A u \in Threads \ {t} : out'[u] = out[u]
          /\ out' = [out EXCEPT ![t] = out'[t]]
      BY <2>4, CopyFacts DEF Buffers
    <3>3. pc'[t] = "resume" /\ \A u \in Threads \ {t} : pc'[u] = pc[u]
      BY <3>1 DEF Control, ControlTypes
    <3> QED
      BY <3>1, <3>2, <3>3 DEF Buffers, Active
  <2>5. CASE \/ CacheHit(t) \/ CacheMiss(t) \/ LockExclusive(t) \/ StoreNumber(t)
             \/ StoreCluster(t) \/ UnlockExclusive(t) \/ DropLocal(t)
             \/ LockShared(t) \/ Dereference(t) \/ NextCluster(t) \/ Return(t)
    BY <2>5 DEF CacheHit, CacheMiss, LockExclusive, StoreNumber, StoreCluster,
         UnlockExclusive, DropLocal, LockShared, Dereference, NextCluster,
         Return, Goto, Buffers, Active, Control, ControlTypes
  <2>6. CASE GetFrame(t) \/ FrameError(t) \/ LockTimeout(t) \/ AssertFails(t)
    BY <2>6 DEF GetFrame, FrameError, LockTimeout, AssertFails, threadVars,
         Buffers, Active
  <2> QED
    BY <2>2, <2>3, <2>4, <2>5, <2>6 DEF Step
<1> QED
  BY <1>1, <1>2, ControlInvariant, ContentsInvariant, TagsInvariant, PTL DEF Spec

\* All variables keep their types, and no element outgrows a full cluster.
THEOREM TypeInvariant == Spec => []TypeOK
<1>1. Control /\ Ownership /\ Contents /\ Buffers => TypeOK
  <2> SUFFICES ASSUME Control, Ownership, Contents, Buffers
               PROVE  TypeOK
    OBVIOUS
  <2>1. owners \in [Clusters -> SUBSET (Threads \cup Streams)]
    BY DEF Ownership
  <2>2. ASSUME NEW c \in Clusters
        PROVE  Len(heap[c].blocks) <= BlocksPerCluster
    <3>1. CASE heap[c] = Freed
      BY <3>1, EmptySeq, LayoutAssumption DEF Freed
    <3>2. CASE \E t \in Threads : local[t] = c
      <4>1. PICK t \in Threads : local[t] = c
        BY <3>2
      <4>2. local[t] # nullptr /\ Active(t)
        BY <4>1, ThreadsAssumption DEF Ownership, Assembling, Active
      <4>3. wanted[t] \in Nat /\ Stream(t) \in Streams
        BY <4>2, RequestFacts DEF Control, Serving, Stream
      <4>4. Len(heap[c].blocks) <= num_blocks(Stream(t), wanted[t])
        BY <4>1, <4>2 DEF Contents, Begun
      <4>5. heap[c].blocks \in Seq(Nat)
        BY DEF Contents, HeapTypes
      <4>6. Len(heap[c].blocks) \in Nat
        BY <4>5, LenProperties
      <4> QED
        <5>1. num_blocks(Stream(t), wanted[t]) \in 0 .. BlocksPerCluster
          BY <4>3, BlockCount
        <5> QED
          BY <4>4, <4>6, <5>1, LayoutAssumption
    <3>3. CASE \E s \in Streams : cached_cluster[s] = c
      <4>1. PICK s \in Streams : cached_cluster[s] = c
        BY <3>3
      <4>2. heap[c].number \in Nat /\ Complete(c, s, heap[c].number)
        BY <4>1, ThreadsAssumption DEF Contents
      <4> QED
        <5>1. num_blocks(s, heap[c].number) \in 0 .. BlocksPerCluster
          BY <4>2, BlockCount
        <5> QED
          BY <4>2, <5>1, LayoutAssumption DEF Complete
    <3> QED
      BY <3>1, <3>2, <3>3 DEF Contents, Ownership
  <2> QED
    BY <2>1, <2>2 DEF TypeOK, Control, ControlTypes, Contents, HeapTypes, Buffers, Byte
<1> QED
  BY <1>1, ControlInvariant, OwnershipInvariant, ContentsInvariant, BuffersInvariant, PTL
=============================================================================
