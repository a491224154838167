----------------------------- MODULE ClusterCache -----------------------------
(***************************************************************************)
(* The concurrent core of vsmkv (src/src/clusterlist.cpp): FUSE worker     *)
(* threads that serve reads of virtual MKV files.  Each stream has one     *)
(* clusterlist, whose caching_cluster remembers the last Matroska cluster  *)
(* it assembled from VapourSynth frames.  One process-wide shared mutex,   *)
(* cluster_lock, guards the replacement of a cached cluster.               *)
(*                                                                         *)
(* A read is answered in up to two chunks: clusterlist::output makes sure  *)
(* the wanted cluster is cached (cache_cluster), copies from whatever      *)
(* cluster is cached then (caching_cluster::output), and does both once    *)
(* more for the next cluster if the request crosses the boundary.  Between *)
(* these calls no lock is held, and the test in cache_cluster is unlocked. *)
(*                                                                         *)
(* A byte of a file is identified by the cluster it belongs to and its     *)
(* offset in that cluster.  How a cluster element is encoded is abstracted *)
(* to its length, ClusterBytes.                                            *)
(***************************************************************************)
EXTENDS Integers, Sequences, FiniteSets

CONSTANTS
  Threads,          \* FUSE worker threads; a singleton when mounted with -s
  Streams,          \* mounted streams, one clusterlist each
  Clusters,         \* identities of Cluster elements on the heap
  BlocksPerCluster, \* blocks_per_cluster
  NumClusters,      \* [Streams -> Nat]: num_clusters, the full clusters
  TailBlocks,       \* [Streams -> Nat]: remaining_blocks
  ClusterBytes,     \* [Streams -> [0..BlocksPerCluster -> Nat]]: encoded
                    \* length of a Cluster element with so many blocks
  MaxRead,          \* bound: the largest read the FUSE layer passes on
  TamedClients,     \* BOOLEAN: reads of one stream overlap in time only when
                    \* they stay within one and the same cluster (README,
                    \* Limitations, warns of the other case)
  nullptr,          \* no Cluster element
  NoRequest         \* a thread waiting in the FUSE loop has no request

ASSUME ThreadsAssumption ==
  /\ Threads \intersect Streams = {}
  /\ nullptr \notin Clusters

ASSUME LayoutAssumption ==
  /\ BlocksPerCluster \in Nat \ {0}
  /\ NumClusters \in [Streams -> Nat]
  /\ TailBlocks \in [Streams -> 0 .. BlocksPerCluster - 1]
  /\ ClusterBytes \in [Streams -> [0 .. BlocksPerCluster -> Nat \ {0}]]
  /\ \A s \in Streams : \A i, j \in 0 .. BlocksPerCluster :
        i < j => ClusterBytes[s][i] < ClusterBytes[s][j]
  /\ MaxRead \in Nat \ {0}
  /\ TamedClients \in BOOLEAN

VARIABLES
  pc,                     \* where each thread is
  request,                \* the read each thread is serving
  wanted,                 \* cluster_number passed to cache_cluster
  local,                  \* `cluster`: the element a thread assembles
  target,                 \* the element a thread is copying from
  out,                    \* the bytes in each thread's buffer
  cached_cluster_number,  \* per stream
  cached_cluster,         \* per stream
  exclusive,              \* threads holding cluster_lock exclusively
  shared,                 \* threads holding cluster_lock shared
  heap,                   \* the number and blocks of each Cluster element
  owners,                 \* the shared_ptrs to each Cluster element
  failure                 \* why the process died, or "none"

threadVars == <<pc, request, wanted, local, target, out>>
cacheVars  == <<cached_cluster_number, cached_cluster>>
lockVars   == <<exclusive, shared>>
heapVars   == <<heap, owners>>
vars       == <<threadVars, cacheVars, lockVars, heapVars, failure>>

-----------------------------------------------------------------------------
(* The layout computed by the clusterlist constructor. *)

min(a, b) == IF a < b THEN a ELSE b
max(a, b) == IF a < b THEN b ELSE a

Unset == -1     \* cached_cluster_number starts at (uint64_t) -1

cluster_size(s)      == ClusterBytes[s][BlocksPerCluster]
tail_cluster_size(s) == ClusterBytes[s][TailBlocks[s]]

\* Mutant: the number of full clusters is rounded up, the tail added as well.
TotalRoundedUp(s) == cluster_size(s) * (NumClusters[s] + 1) + tail_cluster_size(s)

total_size(s) == cluster_size(s) * NumClusters[s] + tail_cluster_size(s)
num_frames(s) == BlocksPerCluster * NumClusters[s] + TailBlocks[s]

\* Mutant: the tail cluster is not told from the others.
BlocksWithoutTail(s, n) == BlocksPerCluster

num_blocks(s, n) ==
  IF n = NumClusters[s] THEN TailBlocks[s] ELSE BlocksPerCluster

\* What node::output and element::output let through to the clusterlist: a
\* non-empty range that ends within it.
RequestsOf(s) ==
  UNION { [stream : {s}, offset : {p}, size : 1 .. min(MaxRead, total_size(s) - p)]
            : p \in 0 .. total_size(s) - 1 }

Requests == UNION { RequestsOf(s) : s \in Streams }

ASSUME RequestAssumption == NoRequest \notin Requests

cluster_offset(r) == r.offset % cluster_size(r.stream)
cluster_number(r) == r.offset \div cluster_size(r.stream)

FirstChunk(t) == wanted[t] = cluster_number(request[t])

\* Mutant: the second chunk starts where the first one did.
ChunkOffsetNotReset(t) == cluster_offset(request[t])

\* The offset argument of caching_cluster::output.
ChunkOffset(t) == IF FirstChunk(t) THEN cluster_offset(request[t]) ELSE 0

last_cluster(r) == (r.offset + r.size - 1) \div cluster_size(r.stream)

\* Reads q and r cannot get in each other's way.
Compatible(q, r) ==
  q.stream = r.stream =>
    {cluster_number(q), last_cluster(q)} = {cluster_number(r)} /\
    last_cluster(r) = cluster_number(r)

\* The byte of file s at offset p.
FileByte(s, p) == <<p \div cluster_size(s), p % cluster_size(s)>>

Stream(t) == request[t].stream
Active(t) == pc[t] # "idle"
Running   == failure = "none"

\* Every frame was freed when the last shared_ptr went away (~block).
Freed == [number |-> Unset, blocks |-> <<>>]

\* owners after shared_ptr p moves from element c to element d.
Repoint(p, c, d) ==
  [e \in Clusters |-> IF e = d THEN owners[e] \cup {p}
                      ELSE IF e = c THEN owners[e] \ {p}
                      ELSE owners[e]]

\* heap after that: an element with no owner left is destroyed.
Collect(own) == [e \in Clusters |-> IF own[e] = {} THEN Freed ELSE heap[e]]

Goto(t, label) == pc' = [pc EXCEPT ![t] = label]

-----------------------------------------------------------------------------
Init ==
  /\ pc = [t \in Threads |-> "idle"]
  /\ request = [t \in Threads |-> NoRequest]
  /\ wanted = [t \in Threads |-> Unset]
  /\ local = [t \in Threads |-> nullptr]
  /\ target = [t \in Threads |-> nullptr]
  /\ out = [t \in Threads |-> <<>>]
  /\ cached_cluster_number = [s \in Streams |-> Unset]
  /\ cached_cluster = [s \in Streams |-> nullptr]
  /\ exclusive = {}
  /\ shared = {}
  /\ heap = [c \in Clusters |-> Freed]
  /\ owners = [c \in Clusters |-> {}]
  /\ failure = "none"

\* clusterlist::output is entered.
Read(t) ==
  /\ pc[t] = "idle"
  /\ \E r \in Requests :
       /\ TamedClients => \A u \in Threads :
                            Active(u) => Compatible(request[u], r)
       /\ request' = [request EXCEPT ![t] = r]
       /\ wanted' = [wanted EXCEPT ![t] = cluster_number(r)]
  /\ Goto(t, "check")
  /\ UNCHANGED <<local, target, out, cacheVars, lockVars, heapVars, failure>>

\* Mutant: anything cached will do.
HitOnAnyCluster(t) ==
  /\ pc[t] = "check"
  /\ cached_cluster_number[Stream(t)] # Unset
  /\ Goto(t, "share")
  /\ UNCHANGED <<request, wanted, local, target, out,
                 cacheVars, lockVars, heapVars, failure>>

\* cache_cluster: the unlocked comparison finds the wanted number.
CacheHit(t) ==
  /\ pc[t] = "check"
  /\ cached_cluster_number[Stream(t)] = wanted[t]
  /\ Goto(t, "share")
  /\ UNCHANGED <<request, wanted, local, target, out,
                 cacheVars, lockVars, heapVars, failure>>

\* cache_cluster: another number is cached, a new element is begun; for a
\* number past the tail that is all, "encountered unexpected cluster_number"
\* is thrown.
CacheMiss(t) ==
  /\ pc[t] = "check"
  /\ cached_cluster_number[Stream(t)] # wanted[t]
  /\ \E c \in Clusters :
       /\ owners[c] = {}
       /\ local' = [local EXCEPT ![t] = c]
       /\ owners' = Repoint(t, nullptr, c)
       /\ heap' = [heap EXCEPT ![c] = [number |-> wanted[t], blocks |-> <<>>]]
  /\ failure' = IF wanted[t] > NumClusters[Stream(t)] THEN "range" ELSE failure
  /\ Goto(t, "build")
  /\ UNCHANGED <<request, wanted, target, out, cacheVars, lockVars>>

\* Mutant: the block loop runs while i <= num_blocks.
BuiltOneTooMany(t) ==
  Len(heap[local[t]].blocks) = num_blocks(Stream(t), wanted[t]) + 1

Built(t) == Len(heap[local[t]].blocks) = num_blocks(Stream(t), wanted[t])

\* One round of the block loop: a frame is fetched and appended.
GetFrame(t) ==
  /\ pc[t] = "build"
  /\ ~Built(t)
  /\ heap' = [heap EXCEPT ![local[t]] =
       [number |-> @.number,
        blocks |-> Append(@.blocks,
                          wanted[t] * BlocksPerCluster + Len(@.blocks))]]
  /\ UNCHANGED <<threadVars, cacheVars, lockVars, owners, failure>>

\* VapourSynth returns no frame: cache_cluster throws.
FrameError(t) ==
  /\ pc[t] = "build"
  /\ ~Built(t)
  /\ failure' = "frame"
  /\ UNCHANGED <<threadVars, cacheVars, lockVars, heapVars>>

\* Mutant: the lock is taken before the blocks are all there.
LockExclusiveEarly(t) ==
  /\ pc[t] = "build"
  /\ exclusive = {} /\ shared = {}
  /\ exclusive' = {t}
  /\ Goto(t, "store_number")
  /\ UNCHANGED <<request, wanted, local, target, out,
                 cacheVars, shared, heapVars, failure>>

\* Mutant: the lock keeps readers out but not other writers.
LockExclusiveTogether(t) ==
  /\ pc[t] = "build"
  /\ Built(t)
  /\ shared = {}
  /\ exclusive' = exclusive \cup {t}
  /\ Goto(t, "store_number")
  /\ UNCHANGED <<request, wanted, local, target, out,
                 cacheVars, shared, heapVars, failure>>

\* cluster_lock.try_lock_for(60s) succeeds.
LockExclusive(t) ==
  /\ pc[t] = "build"
  /\ Built(t)
  /\ exclusive = {} /\ shared = {}
  /\ exclusive' = {t}
  /\ Goto(t, "store_number")
  /\ UNCHANGED <<request, wanted, local, target, out,
                 cacheVars, shared, heapVars, failure>>

\* try_lock_for gives up while the lock is held: cache_cluster throws.
LockTimeout(t) ==
  /\ pc[t] = "build"
  /\ Built(t)
  /\ exclusive # {} \/ shared # {}
  /\ failure' = "lock"
  /\ UNCHANGED <<threadVars, cacheVars, lockVars, heapVars>>

StoreNumber(t) ==
  /\ pc[t] = "store_number"
  /\ cached_cluster_number' =
       [cached_cluster_number EXCEPT ![Stream(t)] = wanted[t]]
  /\ Goto(t, "store_cluster")
  /\ UNCHANGED <<request, wanted, local, target, out,
                 cached_cluster, lockVars, heapVars, failure>>

\* Mutant: the old element keeps its reference.
StoreClusterLeaking(t) ==
  /\ pc[t] = "store_cluster"
  /\ cached_cluster' = [cached_cluster EXCEPT ![Stream(t)] = local[t]]
  /\ owners' = Repoint(Stream(t), nullptr, local[t])
  /\ heap' = Collect(owners')
  /\ Goto(t, "unlock")
  /\ UNCHANGED <<request, wanted, local, target, out,
                 cached_cluster_number, lockVars, failure>>

\* The shared_ptr assignment, which releases the element cached before.
StoreCluster(t) ==
  /\ pc[t] = "store_cluster"
  /\ cached_cluster' = [cached_cluster EXCEPT ![Stream(t)] = local[t]]
  /\ owners' = Repoint(Stream(t), cached_cluster[Stream(t)], local[t])
  /\ heap' = Collect(owners')
  /\ Goto(t, "unlock")
  /\ UNCHANGED <<request, wanted, local, target, out,
                 cached_cluster_number, lockVars, failure>>

\* Mutant: the unlock is forgotten.
UnlockForgotten(t) ==
  /\ pc[t] = "unlock"
  /\ Goto(t, "drop")
  /\ UNCHANGED <<request, wanted, local, target, out,
                 cacheVars, lockVars, heapVars, failure>>

UnlockExclusive(t) ==
  /\ pc[t] = "unlock"
  /\ exclusive' = exclusive \ {t}
  /\ Goto(t, "drop")
  /\ UNCHANGED <<request, wanted, local, target, out,
                 cacheVars, shared, heapVars, failure>>

\* cache_cluster's scope ends: its own reference goes away.
DropLocal(t) ==
  /\ pc[t] = "drop"
  /\ local' = [local EXCEPT ![t] = nullptr]
  /\ owners' = Repoint(t, local[t], nullptr)
  /\ heap' = Collect(owners')
  /\ Goto(t, "share")
  /\ UNCHANGED <<request, wanted, target, out, cacheVars, lockVars, failure>>

\* Mutant: readers do not wait for a writer.
LockSharedRegardless(t) ==
  /\ pc[t] = "share"
  /\ shared' = shared \cup {t}
  /\ Goto(t, "deref")
  /\ UNCHANGED <<request, wanted, local, target, out,
                 cacheVars, exclusive, heapVars, failure>>

\* caching_cluster::output: its test for a number below zero never holds of
\* an unsigned number, so the shared lock comes next.
LockShared(t) ==
  /\ pc[t] = "share"
  /\ exclusive = {}
  /\ shared' = shared \cup {t}
  /\ Goto(t, "deref")
  /\ UNCHANGED <<request, wanted, local, target, out,
                 cacheVars, exclusive, heapVars, failure>>

\* cached_cluster-> : the pointer is read, no reference is taken.
Dereference(t) ==
  /\ pc[t] = "deref"
  /\ target' = [target EXCEPT ![t] = cached_cluster[Stream(t)]]
  /\ Goto(t, "copy")
  /\ UNCHANGED <<request, wanted, local, out,
                 cacheVars, lockVars, heapVars, failure>>

\* How many bytes of its element a thread copies: up to the end of the
\* request or of the element, none when the offset lies beyond it.
ChunkLength(t) ==
  min(request[t].size - Len(out[t]),
      max(0, ClusterBytes[Stream(t)][Len(heap[target[t]].blocks)]
               - ChunkOffset(t)))

\* cached_cluster->output(...), then unlock_shared.
CopyChunk(t) ==
  /\ pc[t] = "copy"
  /\ out' = [out EXCEPT ![t] = @ \o
               [k \in 1 .. ChunkLength(t) |->
                  <<heap[target[t]].number, ChunkOffset(t) + k - 1>>]]
  /\ target' = [target EXCEPT ![t] = nullptr]
  /\ shared' = shared \ {t}
  /\ Goto(t, "resume")
  /\ UNCHANGED <<request, wanted, local,
                 cacheVars, exclusive, heapVars, failure>>

\* clusterlist::output wrote less than asked for with its first chunk.
Short(t) == FirstChunk(t) /\ Len(out[t]) < request[t].size

AtClusterEnd(t) ==
  cluster_size(Stream(t)) = Len(out[t]) + cluster_offset(request[t])

\* The assertion holds: go on with the next cluster.
NextCluster(t) ==
  /\ pc[t] = "resume"
  /\ Short(t)
  /\ AtClusterEnd(t)
  /\ wanted' = [wanted EXCEPT ![t] = @ + 1]
  /\ Goto(t, "check")
  /\ UNCHANGED <<request, local, target, out,
                 cacheVars, lockVars, heapVars, failure>>

\* assert(cluster_size - written - cluster_offset == 0) fails.
AssertFails(t) ==
  /\ pc[t] = "resume"
  /\ Short(t)
  /\ ~AtClusterEnd(t)
  /\ failure' = "assert"
  /\ UNCHANGED <<threadVars, cacheVars, lockVars, heapVars>>

\* Mutant: the second chunk is optional.
ReturnEarly(t) ==
  /\ pc[t] = "resume"
  /\ Goto(t, "return")
  /\ UNCHANGED <<request, wanted, local, target, out,
                 cacheVars, lockVars, heapVars, failure>>

\* clusterlist::output returns written.
Return(t) ==
  /\ pc[t] = "resume"
  /\ ~Short(t)
  /\ Goto(t, "return")
  /\ UNCHANGED <<request, wanted, local, target, out,
                 cacheVars, lockVars, heapVars, failure>>

\* The thread hands the buffer to the kernel and waits for the next request.
Reply(t) ==
  /\ pc[t] = "return"
  /\ Goto(t, "idle")
  /\ request' = [request EXCEPT ![t] = NoRequest]
  /\ wanted' = [wanted EXCEPT ![t] = Unset]
  /\ out' = [out EXCEPT ![t] = <<>>]
  /\ UNCHANGED <<local, target, cacheVars, lockVars, heapVars, failure>>

-----------------------------------------------------------------------------
\* What the scheduler must let a thread do; a read need never arrive.
Step(t) ==
  \/ CacheHit(t) \/ CacheMiss(t)
  \/ GetFrame(t) \/ FrameError(t)
  \/ LockExclusive(t) \/ LockTimeout(t)
  \/ StoreNumber(t) \/ StoreCluster(t) \/ UnlockExclusive(t) \/ DropLocal(t)
  \/ LockShared(t) \/ Dereference(t) \/ CopyChunk(t)
  \/ NextCluster(t) \/ AssertFails(t) \/ Return(t) \/ Reply(t)

\* The process is gone: an exception left a FUSE callback, or abort().
Dead == ~Running /\ UNCHANGED vars

Next ==
  \/ Running /\ \E t \in Threads : Read(t) \/ Step(t)
  \/ Dead

Spec == Init /\ [][Next]_vars

(***************************************************************************)
(* Every thread that can run does (the OS scheduler, and a getFrame that   *)
(* returns a frame or an error).  lock_shared is strongly fair: glibc's    *)
(* rwlock lets waiting readers in when a writer leaves.  The exclusive     *)
(* lock needs no strong fairness, its wait is bounded by the timeout.      *)
(***************************************************************************)
Fairness ==
  \A t \in Threads : /\ WF_vars(Running /\ Step(t))
                     /\ SF_vars(Running /\ LockShared(t))

FairSpec == Spec /\ Fairness

-----------------------------------------------------------------------------
(* Types, and what holds however the reads overlap. *)

Labels == {"idle", "check", "build", "store_number", "store_cluster", "unlock",
           "drop", "share", "deref", "copy", "resume", "return"}

\* The variables keep their types; an element holds at most the blocks of a
\* full cluster.
TypeOK ==
  /\ pc \in [Threads -> Labels]
  /\ request \in [Threads -> Requests \cup {NoRequest}]
  /\ wanted \in [Threads -> Nat \cup {Unset}]
  /\ local \in [Threads -> Clusters \cup {nullptr}]
  /\ target \in [Threads -> Clusters \cup {nullptr}]
  /\ out \in [Threads -> Seq((Nat \cup {Unset}) \X Nat)]
  /\ cached_cluster_number \in [Streams -> Nat \cup {Unset}]
  /\ cached_cluster \in [Streams -> Clusters \cup {nullptr}]
  /\ exclusive \in SUBSET Threads
  /\ shared \in SUBSET Threads
  /\ heap \in [Clusters -> [number : Nat \cup {Unset}, blocks : Seq(Nat)]]
  /\ owners \in [Clusters -> SUBSET (Threads \cup Streams)]
  /\ failure \in {"none", "range", "frame", "lock", "assert"}
  /\ \A c \in Clusters : Len(heap[c].blocks) <= BlocksPerCluster

\* Copying takes no reference, so the element a thread copies from has to
\* stay alive, and stay the cached one, until the copy is over: nobody may
\* replace it meanwhile, and a thread that found its number cached finds an
\* element (clusterlist.cpp:143-200).
NoDanglingRead ==
  \A t \in Threads : pc[t] = "copy" =>
    /\ target[t] # nullptr
    /\ target[t] = cached_cluster[Stream(t)]
    /\ Stream(t) \in owners[target[t]]

\* The number and the element of a cache are two variables written one after
\* the other; outside that window the number is the element's.
TagMatches ==
  \A s \in Streams :
    (\A t \in Threads : pc[t] = "store_cluster" => Stream(t) # s) =>
      IF cached_cluster[s] = nullptr
      THEN cached_cluster_number[s] = Unset
      ELSE cached_cluster_number[s] = heap[cached_cluster[s]].number

\* Frames that a cluster of stream s with this number is made of.
BlocksOf(s, n) ==
  [i \in 1 .. num_blocks(s, n) |-> n * BlocksPerCluster + i - 1]

\* A cached element is complete: an assembly that failed half way, or is
\* still going on in another thread, is never visible to a reader.
PublishedComplete ==
  \A s \in Streams : cached_cluster[s] # nullptr =>
    LET e == heap[cached_cluster[s]] IN e.blocks = BlocksOf(s, e.number)

\* No thread asks VapourSynth for a frame past the end of the clip, the tail
\* cluster and an empty tail included.
FramesExist ==
  \A t \in Threads : local[t] # nullptr =>
    \A i \in DOMAIN heap[local[t]].blocks :
      heap[local[t]].blocks[i] < num_frames(Stream(t))

\* Every element with frames is the cached one of a stream or still in the
\* hands of the thread that assembles it; so at most one per stream and one
\* per thread hold VapourSynth frames.
NoLeakedFrames ==
  \A c \in Clusters : heap[c] # Freed =>
    \/ \E s \in Streams : cached_cluster[s] = c
    \/ \E t \in Threads : local[t] = c

\* The throw for an unexpected cluster number is unreachable: not even a
\* read that was handed another thread's cluster goes past the tail.
NeverBeyondTail == failure # "range"

\* Bytes j and k of a read lie in the same chunk.
SameChunk(r, j, k) ==
  (cluster_offset(r) + j > cluster_size(r.stream)) <=>
    (cluster_offset(r) + k > cluster_size(r.stream))

\* Even when another thread replaced the cluster in between, a buffer is
\* never overrun, every byte comes from the right offset in its cluster, and
\* all bytes of a chunk from one and the same cluster.
ChunksNeverTear ==
  \A t \in Threads : Active(t) =>
    /\ Len(out[t]) <= request[t].size
    /\ \A k \in 1 .. Len(out[t]) :
         out[t][k][2] = FileByte(Stream(t), request[t].offset + k - 1)[2]
    /\ \A j, k \in 1 .. Len(out[t]) :
         SameChunk(request[t], j, k) => out[t][j][1] = out[t][k][1]

-----------------------------------------------------------------------------
(* What a reader may rely on.  Both hold when TamedClients does. *)

\* What a read returns is the content of the file at its offset.
ReadCorrect ==
  \A t \in Threads : pc[t] = "return" =>
    \A k \in 1 .. Len(out[t]) :
      out[t][k] = FileByte(Stream(t), request[t].offset + k - 1)

\* What clusterlist::output promises of a request: all of it up to the end of
\* the second cluster it touches.
Promise(r) == min(r.size, 2 * cluster_size(r.stream) - cluster_offset(r))

\* A read is short only when it spans more than two clusters.
FullRead ==
  \A t \in Threads : pc[t] = "return" =>
    Len(out[t]) = Promise(request[t])

\* The assertion in clusterlist::output (clusterlist.cpp:93) does not fail.
AssertHolds == failure # "assert"

\* Every read that was begun ends, or the process dies: no thread is left
\* waiting for cluster_lock.
ReadsEnd == \A t \in Threads : Active(t) ~> (~Active(t) \/ ~Running)

\* The file a stream promises to be.
File == INSTANCE VirtualFile WITH
  Clients <- Threads,
  Byte    <- FileByte,
  asked   <- request,
  answer  <- [t \in Threads |-> IF pc[t] = "return" THEN out[t] ELSE <<>>],
  alive   <- Running

\* The cache, the lock and the two chunks are invisible: with tamed clients
\* the whole is a read-only file.
ServesVirtualFile == File!FairSpec
=============================================================================
