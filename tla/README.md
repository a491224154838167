# vsmkv in TLA+

vsmkv mounts the output nodes of a VapourSynth script as uncompressed Matroska
files.  Nothing is ever written to disk: a FUSE read of `/node_0` is answered
by walking a tree of EBML elements and by asking VapourSynth for the frames
that the wanted bytes belong to.

This directory holds TLA+ modules that model that program, TLC configurations
that check them on small instances, and TLAPS proofs of what matters most for
every instance.  `PROJECT.json` lists runs, mutants, hazards and theorems, and
maps each definition to the lines it models.

## 1. The system

| component | state | operations | talks to |
|---|---|---|---|
| FUSE front end (`main.cpp`) | `options.streams`, the script, the mount | `getattr`, `readdir`, `read`, the life cycle of `main` | a stream per file; called by the FUSE worker threads |
| stream (`stream.cpp`) | the root of an element tree | construction, `getSize`, `read` | node tree, fourcc table |
| node tree (`node.cpp`) | children, the memo `_size` | `addChild`, `getSize`, `getOffset`, `output`, `report` | its children |
| EBML elements (`element`, `integer`, `string`, `floating`, `vint`) | ID, length, value | `output` of any byte range, `addChild`, `updateSize`, `report` | - |
| cues (`cues.cpp`) | cue points | `setParent` builds them | sizes from the clusterlist, offset from the parent |
| cluster cache (`clusterlist.cpp`) | `cached_cluster_number`, `cached_cluster` per stream; one global `cluster_lock` | `clusterlist::output`, `cache_cluster`, `caching_cluster::output` | VapourSynth `getFrame`; blocks |
| block (`block.cpp`) | one VapourSynth frame | `output` of any byte range, destructor | `getReadPtr`, `getStride`, `freeFrame` |
| fourcc table (`fourcc.cpp`) | constant | `lookup` | - |

How they interact.  `main` evaluates the script, makes one stream per output
node, mounts, and enters FUSE's loop; unless `-s` is given that loop runs
several threads, and the kernel's readahead makes even a single player's reads
concurrent.  A read descends from the root (`node::output`), through the
segment (`element::output`), to the clusterlist, which splits the file into
clusters of ten frames.  The clusterlist caches one cluster per stream.  All
streams share the lock that guards the replacement of a cached cluster.  No
component persists anything, so there is no recovery to model: an exception
that leaves a FUSE callback, or a failed assertion, ends the process.

What is hard about each, and what makes it correct:

* **Cluster cache** - concurrency.  The test for "already cached" is made
  without the lock, the lock is released between caching a cluster and copying
  from it, and number and cluster are two variables.  Correct means: memory is
  never used after it is freed; number and cluster agree; a cluster is only
  visible complete; no frames are leaked; a read returns the bytes of the file.
* **node::getSize** - a data race on a memo.  Correct means: the size that is
  reported, and against which offsets are compared, is the sum of the children.
* **EBML elements, block** - arithmetic on offsets at any byte boundary.
  Correct means: `output(size, offset)` is a slice of the full encoding.
* **Cues** - positions computed before the clusters exist.  Correct means: each
  cue points at the first byte of the cluster that holds its time.
* **FUSE front end** - names taken apart with `stoi`, and a life cycle with
  many early returns.  Correct means: the names listed are the names served,
  each by its own output node; no name kills the process in `read`; a
  handler only runs while there is a script; wherever `main` returns from,
  nothing stays mounted; and unmounting ends the process.

The full list of hazards, each at its line and with the properties that are for
it, is in `PROJECT.json`.

## 2. The modules

| module | what it is |
|---|---|
| `ClusterCache` | threads, cache, lock, heap: the reading of clusters, step by step |
| `VirtualFile` | what a mounted file promises its readers; `ClusterCache` implements it |
| `ClusterCacheProofs` | memory safety and consistency of `ClusterCache`, proved |
| `ClusterCacheReads` | what reads return, disturbed and undisturbed, proved |
| `MCClusterCache` | instances of `ClusterCache` for TLC |
| `SizeMemo` | `node::getSize` called by many threads |
| `SizeMemoProofs` | what the race cannot do, proved |
| `MCSizeMemo` | an instance of `SizeMemo` for TLC |
| `FileTree` | `SizeMemo` with its users: `getattr`, `read` and what the kernel makes of them |
| `FileTreeProofs` | what the race does to reads, proved |
| `MCFileTree` | a file of two pages for TLC |
| `ElementOutput` | `output` of every kind of element, for any range of bytes |
| `ElementReport` | `report` of every kind of element, compared with `output` |
| `ElementProofs` | what `output` writes and `report` prints, proved for any element and range |
| `MCElementOutput` | clusters, cues, tracks and the head of a file, for TLC |
| `StreamLayout` | the constructor of `stream`: lengths, offsets, cues, timecodes |
| `StreamLayoutProofs` | lengths, cues, times and the head of the file, proved for any clip |
| `MCStreamLayout` | clips for TLC |
| `Mount` | the process: `main`, its handlers, and the kernel as their client |
| `MountProofs` | what the life of the process guarantees, proved |
| `MCMount` | command lines, scripts and names for TLC |
| `Sums` | the sum of a sequence of numbers and the concatenation of one of sequences, as recursive functions |
| `Foundations` | induction, arithmetic, sums and concatenations, for all proofs |

They fit together by what one takes for granted and another one checks.
`ClusterCache` and `FileTree` let an element write as many bytes as it is asked
for (`CountRight` of `ElementOutput`); `ElementOutput` and `ClusterCache` take the
sizes of clusters from a constructor that is in `StreamLayout` (`CuesRight`,
`LengthsRight`); the handlers of `Mount` answer with a whole file, whose size and
bytes are the business of `FileTree` and `ClusterCache`.

### ClusterCache

A worker thread is a program counter and its local variables; one action stands
for each step at which another thread can come between.

| action | code in `clusterlist.cpp` |
|---|---|
| `Read` | `clusterlist::output` is entered (85-88) |
| `CacheHit`, `CacheMiss` | the unlocked test (145), the new element (146), its number of blocks or the throw for a number past the tail (152-160) |
| `GetFrame`, `FrameError` | one round of the block loop, or its throw (162-175) |
| `LockExclusive`, `LockTimeout` | `try_lock_for(60s)` (177), or the throw (184) |
| `StoreNumber`, `StoreCluster`, `UnlockExclusive` | 178, 179, 181 |
| `DropLocal` | the local `shared_ptr` goes out of scope (186) |
| `LockShared`, `Dereference`, `CopyChunk` | `caching_cluster::output` (195-197); the pointer is read once, without a reference |
| `NextCluster`, `AssertFails`, `Return` | the end of the first chunk: the assertion and the second chunk, or the return (92-98) |
| `Reply` | the FUSE worker hands over the buffer |

`heap` and `owners` model `shared_ptr<Cluster>`: `owners[c]` is the set of
pointers to `c`, and an element whose last owner goes away loses its frames at
once (`block::~block`).  A dangling read is therefore a state, and not a
matter of luck.

Data is abstracted to what tells clusters apart.  A byte is the pair of its
cluster's number and its offset in that cluster; encoding a cluster is reduced
to its length, `ClusterBytes[s][n]`, strictly increasing in the number of
blocks.  That `element::output` writes as many bytes as it is asked for, up to
its end, is taken for granted here; it is `CountRight` of `ElementOutput`.

`TamedClients` is the assumption of the README's limitations made precise: when
it is TRUE, two reads of one stream overlap in time only if both stay within
the same cluster.  Reads of different streams always overlap freely.

Atomicity.  `cached_cluster_number` is a 64-bit variable that is read without
the lock while another thread writes it: a data race, but on the targets the
program is built for the load returns the old or the new value, which is what
the interleaving of `CacheHit`/`CacheMiss` with `StoreNumber` gives.

### SizeMemo

One `getSize` call is `Call` (the test of `_size`), then for each child a
`Load` and a `Store` of the shared member, then `Return`.  What is returned may
be the value last seen or one loaded again.  The root has exactly two children
(`stream.cpp:112-113`), and that is an assumption of the module: TLC shows that
with three children `NeverSettlesShort` would fail.

### FileTree

`FileTree` extends `SizeMemo` and puts each `getSize` call where the program makes
it: in `getattr` (`stream::getSize`), whose answer it is, and at the top of
`node::output` (`stream::read`), which compares the offset of a read with it before
it descends to the two children.  `Count` and `Sized` are the steps of `SizeMemo`
with what `output` does next; `output` and `outputChild` are the loop of
`node.cpp:50-63`.  Bytes are named by child and place in the child.

The client is the kernel.  It reads pages below the size it was `told` last, and
takes a short answer for the end of the file (`ReplySize`, `ReplyBytes`; external).
`disturbed` is a history variable: was somebody else summing up during a call?

So this is what the race on `_size` comes to.  A read gets its page in full, up
to the end of the file, or nothing (`AllOrNothing`); nothing, although there are
bytes, only if others were summing up meanwhile (`NoFalseEnd`); and the kernel's
idea of the size is never wrong on the low side for good (`SizeHeals`).  It may
stay too high for good, which is the finding of `size_memo_cached`.

The children answer in full here.  `ClusterCache` says when the segment does not:
for a read that spans more than two clusters (`FullRead`).  The kernel would take
that for the end of the file, too, and `SizeHeals` would not hold of clips with
frames so small.

### ElementOutput

`output(size, offset)` is a pure algorithm: each element writes the part of its
encoding that the range covers and hands the rest to its children.  The module
has one operator per `output` of the code, and a single action, `Read`, that
applies them to a range.  A cursor stands for the arguments that the code
passes down by reference (buffer pointer, size, offset), a byte for its element
and its place in the element.  The loops over children, planes and rows are
recursive functions.

Elements form trees of any depth: cues are four levels deep (`cues.cpp:80-90`).  A
tree is a sequence of elements in which children are named by their numbers and
come before their parents.  `outputs` has for each element what it makes of any
size and offset; an element with children calls upon those of its children, which
is the virtual call of `node::output`.  `encodings` is the reference for each, put
together from those of its children.

The reference is `Encoding`, the whole element written out.  What is checked is
that the number of bytes written is right (`CountRight`, on which `ClusterCache`
relies), that pixels are in place, and that a range that is not cut at one of
the spots the code gets wrong is answered with that slice of `Encoding`.

Ranges are those a page cache asks for: from the beginning of a page or of the
element, to the end of a page or of the file.  A size smaller than
an ID therefore comes together with an offset into that ID only where little of the
file follows on the ID; that is where `element.cpp:97` would wrap around.

The module assumes of the program that a page has at least 8 bytes, which is the
longest part of a head; that what is encoded fits into a vint and its size into
`size_t` (`NumbersAssumption`); that integers have up to 8 bytes, floats 4, and an
element with children the length they add up to (`IsTree`); and that elements which
are only right from their beginning on (`NeedsStart`) lie in a page with all around
them (`FilesAssumption`).  Those are strings, floats, and elements that are shorter
than their ID by more than two, of which there is one: the cues of a clip that has
none.

`ElementReport` adds `report`, the debugging aid of the same elements, which
"prints the tree that leads to the specified offset" (`node.h:54`).  It changes
nothing, so it is an operator that returns the lines, and `ReportRight` compares
them with the byte that `Encoding` has at that offset, for every offset of every
element of the run.

### StreamLayout

The constructor of `stream` is a list of `addChild` calls (`Program`); `AddChild`
executes the next one as the code does: append, tell the child its parent (at
which the cues write themselves), add the child's size to the parent's length.
IDs, values and sizes are the real ones.  `Lookup` refuses the formats that have
no fourcc.  The computations of the constructor of `clusterlist` and the
timecodes that `cache_cluster` will write are operators over the clip.

The finished state is compared with itself: lengths against children, cue
positions against the offset of the clusterlist, cue times against the times in
clusters and blocks.  These come from different computations in the code: cues
are timed by a cluster's exact duration, clusters by ten times the duration
of a frame, which is rounded down to whole milliseconds and cut off to 16 bits
(`frame_duration`, `Int16`).  They drift apart, by up to nine milliseconds per cluster
or, where the 16 bits bite, by more, but only in the direction in which a seek lands
too early (`SeekNeverOvershoots`).  There are three exceptions, which the property
names: clusters of less than a millisecond, whose cues all have the time 0; frames
that the 16 bits give a negative duration (from 32.768 s to 65.536 s, and so on), so
that times run backwards; and clips of more than 49 days, whose times the 4 bytes of
`CueTime` and `ClusterTimecode` cannot hold.  The model computes all of these as the
code does; it is only the property that does not speak of them.

`HeadInFirstPage` justifies an assumption of `ElementOutput`: strings, floats and
empty cues are only read from their start or from before it, since they are in the
first page.

Durations are exact fractions in the model and doubles in the code; the rates
that are checked have durations that are either whole or not close to a whole
number.  Converting a double to an `int16_t` that cannot hold it is undefined; the
model takes what compilers make of it, a conversion to 32 bits of which the lower
half is kept.

### Mount

`main` is a sequence of steps, each of which may fail on its own:

| action | code in `main.cpp` |
|---|---|
| `InitEngine`, `Evaluate` | `vsscript_init` (166-173), the script that is the first argument (175-181) |
| `GetOutput` | one round of the loop over output nodes (183-195): a stream, a node that is refused, a first frame that does not come, or the end |
| `ParseOptions` | `opt_proc` and `fuse_parse_cmdline` (103-119, 134-142, 197-212) |
| `MountFs`, `NewFuse`, `Daemonize` | 214-252, with the early returns |
| `LoopEnds` | `fuse_loop` or `fuse_loop_mt` returns (254-258) |
| `Cleanup`, `Exit` | 260-272, and the streams that are destroyed after `main` |
| `Readdir`, `Getattr`, `Read` | the handlers (44-101) |
| `Request`, `Unmount`, `Interrupt` | the kernel, whoever unmounts, a signal; external |

Only the branch without `fuse_cmdline_opts` is modelled: that name is a struct and
never a macro, so the other one is never compiled.

A name is a record of what the handlers find when they take it apart: is there
the prefix `node_`, what does `stoi` make of the rest (a number, `invalid`, or
`range` for one too long), and is it the very name that `readdir` would give.
`node_1x` and `node_01` are names of node 1, too.  The kernel may ask `getattr` for
any name, but `read` only for one that it was told is a file.  That protocol is
all that keeps `read`, which catches nothing, from ending the process by a name: every
`read` gets as far as the stream of its number (`ReadReachesStream`).  What the stream
then does is not so harmless: it throws for a frame that fails and for a lock that
takes too long (`clusterlist.cpp:159,169,184`), and nothing in `read` catches that,
either.  `Read` may end so at any time.  `getattr` itself ends the process for a
number that is too long.

An exception that leaves a handler, a null first frame, and an interrupt end the
process where it is (`crashed`, `killed`).  `NoStaleMount` says nothing of those:
the mount they leave behind is not something the code tries to avoid.

## 3. The runs

| run | question | result |
|---|---|---|
| `cluster_overlap` | what holds when two threads read one stream as they like? | memory safety, agreement of number and cluster, completeness, no leak, no read past the tail, no torn chunk |
| `cluster_tamed` | are reads right when they do not disturb each other? | yes: `ReadCorrect`, `FullRead`, `AssertHolds`; no frame past the end is asked for |
| `cluster_live` | does every read end, and is the whole just a file? | yes, under the fairness below; `ServesVirtualFile` is the refinement |
| `cluster_wrong` | are overlapping reads only slow, as the README says? | no: a read is answered from another cluster |
| `cluster_assert` | does the assertion at `clusterlist.cpp:93` hold? | no: it fails when the shorter tail was cached in between |
| `file_tree` | what does the race on `_size` do to a file, and what not? | the memo never settles below the sum, nor above one sum per thread; reads are whole or empty, empty only during the race; the kernel gets over a size that was too small |
| `size_memo_cached` | is the cached result the size? | no: partial sums and multiples are returned |
| `element_output` | are ranges of an element counted right and, but for bad cuts, answered right, and does `report` know where a byte is? | yes, for unpadded rows |
| `element_cuts` | is every range a slice of the encoding? | no: not when it is cut within an ID, a length, a block header or an integer |
| `element_stride` | are pixels right when rows are padded in memory? | no: the stride is never added |
| `stream_layout` | do lengths, cues and times of the finished file agree? | yes |
| `mount` | are listed names served, do reads reach their stream, and are mounts cleaned up, whatever fails? | yes, but for processes that crash or are killed |

Bounds.  Two threads are enough for every hazard listed: each is one thread
changing the cache between two steps of another.  Three clusters (two full, one
tail) are enough for a read in the first, a read across a boundary, a read
across a boundary into the tail, and a read that spans more than two; lengths
of 1, 3 and 5 bytes give every position relative to a boundary.  A heap of one
element per thread and per stream is all that can be in use (this is
`NoLeakedFrames`), so a larger one adds nothing; that `CacheMiss` always finds a
free element is checked by the absence of deadlock.  `cluster_overlap` and
`cluster_tamed` use symmetry of threads and elements; `cluster_live` checks
liveness and uses none.

Fairness.  `cluster_live` assumes that a thread that can take a step takes one
(weak fairness of `Step`: the operating system's scheduler, and a VapourSynth
that answers every `getFrame`, with a frame or an error), and that a reader
waiting for the shared lock gets it if it is free again and again (strong
fairness of `LockShared`: `std::shared_timed_mutex` is a `pthread_rwlock`, which
by default prefers readers).  Waiting for the exclusive lock needs no such
assumption, because it is bounded by 60 s, after which the process dies.
Nothing is assumed about the arrival of reads.

`file_tree` is run with two threads: one is in its first `getSize` while the other
has already answered a `getattr` and gets a read, which is all the race needs;
the invariants are proved for any number.  The file of 2 + 5 bytes has a page of
4 with both children and a page with the end; two more pages lie between the true
size and the largest one the race can produce.  `size_memo_cached` has three
threads.  Fairness of `file_tree`: a handler that was called goes on to its end
(`WF` of `Serve`).  That clients call is not assumed: `SizeHeals` speaks of those
runs in which they look at the file again and again.

`mount` is run with two workers (one with `-s`), five command lines, six scripts
(none, one, two outputs; one that is refused, one that is missing and one without
a first frame, each between or after good ones) and seven names next to the root:
one for each way through the handlers, and two that lead to the same node.
Fairness: `main` goes on, and a handler that was called ends.  The first is the
scheduler and FUSE's loop, which returns after an unmount; the second is
`ReadsEnd` of `cluster_live`.  Nothing is assumed about requests, unmounting or
signals.  The process ends, so this run does not check for deadlock.

`ElementOutput` is run with pages of 32 bytes and elements up to a few pages long, at
every position relative to a page, so that a page's end meets every byte of a
header, an integer and a row.  Cues are two points of four levels with positions of 8
bytes, at every position, or none; the head and the tracks, which are nested, too,
have strings and a float and begin in their first page.  `VintLimits` are powers of 5 where the code has powers of 2^7, so that
lengths of two and three bytes occur in elements that small; `SizeMax` stands for
2^64 and is far above any size.  Two blocks, one and none in a cluster, and
frames of three planes of which two are subsampled, give every neighbourhood of
elements.

`StreamLayout` is run with 336 clips.  Numbers of frames are those at which a
tail, a first cue, a second cue and a list of cues of more than 127 bytes appear;
frames have 123 and 124 or 16380 and 16384 bytes, where lengths get longer;
widths and heights are on both sides of 255.  Of the eight frame rates one is so slow
that the times in a cluster overflow, two so slow that the duration of a frame does
(to a negative number, and to a positive one that is too small), one so fast that a
frame, and one so fast that a cluster lasts less than a millisecond.
The code's 10 blocks per cluster and 15 clusters per cue are kept.  Only
`TimecodeMax` and `TimeMax` are scaled down, from 2^15 to 2^9 and from 2^32 to 2^19:
the rates that overflow the 16 bits are then around one per second and not around one
per minute, whose nanoseconds TLC could not count.
The constructor ends, so this run does not check for deadlock.

## 4. What is proved

The theorems about `ClusterCache` hold for any number of threads, streams, heap
elements and clusters.  They assume only that thread and stream names differ,
that `nullptr` is no element, that a cluster has at least one block, and that
more blocks make a longer cluster; and, for the refinement, that `NoRequest` is no request.

`ClusterCacheProofs` builds the invariant in layers.  Each layer is an
invariant of its own, proved with the help of the ones before it:

1. `Control`: types of the control state; a thread outside the FUSE loop serves
   a request for a known cluster.
2. `LockDiscipline`: who holds `cluster_lock`, from the program counters.
3. `Ownership`: `owners` is what the pointers say; an element that is still
   being assembled is its thread's alone.
4. `Contents`: an element holds the first blocks of the cluster its thread
   wants, all of them from the lock onwards, and as long as it is cached.
5. `Tags`: number and element of a cache agree outside the two stores; a thread
   that is past its look at the cache finds an element there.
6. `Buffers`: no copy runs past the end of a buffer.

From these follow `TypeOK`, `NoDanglingRead`, `TagMatches`,
`PublishedComplete`, `FramesExist` and `NoLeakedFrames`.  None of them is
inductive by itself: `NoDanglingRead`, for instance, needs that writers exclude
readers (2), that the cached pointer is an owner (3) and that a reader never
arrives before the first element (5).

`ClusterCacheReads` goes on to what reads return.  `Chunks`, how far each of the
two chunks got, gives `NeverBeyondTail` and `ChunksNeverTear` for reads that
overlap as they like.  `ReadCorrect`, `FullRead` and `AssertHolds` are false for
those, as two runs show, and are proved under `TamedClients`, in three more
layers: `Peers` (threads that read one stream at the same time want the same
cluster), `Undisturbed` (so the element a thread is about to copy from is the one
it wanted), and `Right` (so what it copies is right).

`SizeMemoProofs` proves `NeverSettlesShort` for any number of threads.  What makes
it inductive is `FirstChildSeen`: whatever other threads store, a thread that has
added the first child finds at least that child's size in the memo, so what it
stores after the second is at least the sum.  Child sizes are assumed positive.

`CountedOncePerThread` needs another invariant, `Counted`: there is a set of
threads that have counted, and the memo is no more than one sum for each of them and
one first child for each thread that is halfway (`Share`).  Once anybody has counted
the memo is above 0, so nobody starts again, and each thread joins the set but once.
The set of threads is assumed finite.

`FileTreeProofs` shows that `FileTree` implements `SizeMemo` (every step of a
handler is a step of `getSize` or none), so that its invariants hold of the file,
and then proves `AllOrNothing` and `NoFalseEnd`.  One half is about `output` alone:
for any offset, page and sizes of children, the loop over the children gives
exactly the bytes of the page if the offset is below both the size it is
compared with and the true one, and nothing otherwise (`OutputRight`, case by case:
page in the first child, in the second, across both).  The other half is about
the race: `Undisturbed` says that a thread in whose call nobody else counts goes by a
size that had settled (`NeverSettlesShort`) or that it has added up alone.

`ClusterCacheReads` ends with the refinement.  `TamedServesFile` says that with
tamed clients every behaviour of `ClusterCache` is one of `VirtualFile`, as far as
safety goes: accepting a request is an `Ask` of the file, reaching the end of a read an
`Answer`, handing it over a `Take`, the end of the process `GoAway`, and any other step
changes nothing that can be seen.  It needs `Idle` (a
thread in FUSE's loop has no request), and `Answered`, which collects from the
invariants above what a thread has in its buffer when it returns: at least what
`VirtualFile` promises, and nothing but bytes of the file.

`MountProofs` proves all invariants of `Mount`, for any set of command lines, scripts
and names and any number of workers.  They are one conjunction, `MInv`, of what each of
them needs: an engine that is only there between `InitEngine` and `Cleanup`
(`ScriptLives`), a mount that is only there between `MountFs` and `Cleanup`, and not
without a mountpoint (`MountLives`), streams in the order of their output nodes, one for
every file and every name in a listing (`StreamsLive`), and reads of nothing but names
that `getattr` has called files (`Requests`).
`NoStaleMount` follows from the paths of `main`: there is no way to `return` from a
mount but through `Cleanup`.

`StreamLayoutProofs` proves all invariants of `StreamLayout`, for any clips and for any
numbers of blocks in a cluster and clusters per cue.  It assumes of clips that sizes,
rates and numbers of frames are positive, and that a page has at least 4096 bytes.
There are two halves:

* *The tree.*  The 30 calls are fixed, and what is known of them is checked call by
  call: those for one node follow each other, and a node becomes a child only after it
  got its own children (`CallsInOrder`, `CallsOfNode`).  So the children of a node are
  always the first of its calls (`Filled`), lengths are sums of sizes that do not
  change any more (`LengthsRight`), the cues were computed behind an info and tracks
  as long as they are in the end (`CuesInPlace`), and where the clusters begin is
  where the cues expected it (`CueOfCluster`).  No leaf has more than 14 bytes
  (`LeavesShort`), which bounds the head.
* *The times.*  A duration in whole milliseconds is the exact one rounded down
  (`RoundedDown`), and a frame's duration is rounded before it is multiplied by the
  number of blocks, a cluster's afterwards, so clusters by the cues last no shorter than
  by their own times (`ClusterLastsLonger`).  That makes a cue's time a bound for
  every frame in front of its cluster (`CueBeforeFrame`); the casts to 16 bits and to 4
  bytes only make times earlier (`CastTime`, `FrameLasts`, `Remainder`).  When a cluster
  lasts no whole millisecond this breaks down, and likewise when a duration turns
  negative or the time of a cue starts again from 0; `SeekNeverOvershoots` is proved
  with these three conditions.

The theorem `ClustersGrow` is for another module: the sizes computed for a clip are
what `ClusterCache` assumes of `ClusterBytes`.

`ElementProofs` proves the four invariants of `ElementOutput` that TLC does not refute,
and the one of `ElementReport`, for trees of any depth with any number of children,
integers of up to 8 bytes, frames of any number of planes of any size, pages of any size from 8 bytes, and reads of any number of
pages.  The assumptions are those of `ElementOutput` above.

* *One statement for all levels.*  Everything that `output` is put together from - an ID,
  a block header, a row, a plane, a child - takes a cursor to a cursor.  `Writes` says of
  two cursors that one is what is left after a sequence of bytes has been written at the
  other: the position moves on by the bytes of the range that were there (`Amount`), the
  buffer changes nowhere else (`Confined`), pixels are where they belong, and all other
  bytes are, too, if the range is not cut where it must not be (`BytesRight`, `Clean`).
  `Moves` says what is left of the range.
* *Parts compose.*  If a part writes `s` and the next one writes `t`, both together write
  `s \o t` (`WritesBoth`, `MovesBoth`).  A loop over parts writes all of them put together
  (`PartsWritten`), which serves for planes and children alike; rows, of which the first one
  may begin anywhere, have an induction of their own (`RowCopied`, `PlaneWritten`).
* *The parts.*  One lemma for each `output` of the code, from `VintWritten` to
  `OutputWritten`.  They need that no part is met with an offset into it and too little
  space (`Safe`): a range begins at the part, has 8 bytes, or reaches its end, and each
  part passes that on to the next one (`SafeBehind`).  Ranges of whole pages start out so
  (`PagesAsked`).
* *The tree.*  `Puts` says of the output of an element that it writes any range that is
  `Within` the element, `Written` that it writes the element's encoding, which is as long as its
  size.  `TreeWritten` proves that of all elements of a tree: those in front of an element
  include its children (`ChildrenFirst`), and what is written of the children is written
  of the element (`ChildWritten`, `ChildrenWritten`, `MasterWritten`).
* *The invariant* `Inv` says that the last answer writes the encoding of the element.
  `TypeOK`, `CountRight`, `FrameBytesRight` and `CleanCutsRight` are what that means.

`FrameBytesRight` and `CleanCutsRight` are proved under `NoPadding`: rows of all planes
lie in memory without gaps.  That is not an assumption of the module, since VapourSynth
does pad rows; without it pixels are not in place, as `element_stride` shows.

`ReportRight` needs in addition where a byte of a child is in the encoding
(`JoinsPlace`), and which child the search of `node::report` ends at (`ChildFound`):
the first one that does not end before the offset is the one that begins before it.
`TreeReported` is an induction over the tree again: the lines of a child, after the line
of its parent, lead to the byte (`LeadsOn`).

`Foundations` has what these proofs share: the arithmetic of products and quotients,
which the SMT solver does not do by itself, and sums and concatenations (`Sums`).  The
library states induction for predicates, which are operators and cannot be instantiated
here.  `Foundations` states it for sets (`NumberInduction`), and derives it from the
existence of a least element; with that, what the recursive functions `sums` and `joins`
compute is proved for sequences of any length (`TotalAppend`, `TotalBound`, `JoinsLength`,
`JoinsPlace`), and so are the loops of `ElementOutput`.

What stays with TLC is what the prover cannot express or reach: the liveness properties
`ReadsEnd`, `SizeHeals` and `UnmountEnds`, and the fairness part of `ServesVirtualFile`.
Every invariant of a passing run is proved.

## 5. What is not modelled, and what is next

Not modelled: `report` of `clusterlist` and `caching_cluster`, which nothing calls
(it would fill the cache, and passes on the wrong offset at `clusterlist.cpp:111`);
the fourcc codes themselves; tests and build files.  VapourSynth, FUSE and
the kernel's page cache only appear as far as the code uses them.  Clips of
variable format or rate are left out, since what the program does with them is
undefined.

Noticed on the way, outside what the properties say: `TimecodeScale` carries the
ID of `DocTypeReadVersion` (`elements.h:49`), and a length of 127 gets the form that
EBML reserves for unknown lengths.

Also: the streams give their nodes back to VapourSynth after it was finalised
(`Exit` comes after `Cleanup`); whether that matters is up to VapourSynth.  So is
whether its threads, which do not survive the fork of `fuse_daemonize`, are missed
by the first `getFrame` after it.

Next, in this order:

1. The assumptions of `ElementOutput` on trees, from the one that `StreamLayout`
   builds, as `ClustersGrow` does for `ClusterCache`; so far only `HeadInFirstPage` is.
2. That what the finding of `element_stride` leaves right is right: the first row of a
   plane that a read touches.
