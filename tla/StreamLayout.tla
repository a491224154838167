----------------------------- MODULE StreamLayout -----------------------------
(***************************************************************************)
(* The constructor of stream: it puts the element tree of one output node  *)
(* together, one addChild after the other, and with it decides where every *)
(* byte of the mounted file lies.  Lengths are added up along the way, and *)
(* the cues are written when they are added to the segment, with positions *)
(* in and times of clusters that will only be assembled when they are      *)
(* read.                                                                   *)
(*                                                                         *)
(* A clip has constant format, dimensions and frame rate (VapourSynth also *)
(* knows clips without them).  Durations are exact fractions here and      *)
(* doubles in the code.                                                    *)
(***************************************************************************)
EXTENDS Integers, Sequences, Sums

CONSTANTS
  BlocksPerCluster,  \* 10 in the code
  CueEvery,          \* clusters per cue, 15 in the code
  TimecodeMax,       \* 2^15, the bound of int16_t; bound to less, so that slow
                     \* clips need not have durations beyond 32 bits
  TimeMax,           \* 2^32, the modulus of times of 4 bytes; bound to less
  Page,              \* bytes in a page of the kernel's cache
  Clips              \* the clips a script may output

ASSUME ConstantsAssumption ==
  /\ BlocksPerCluster \in Nat \ {0}
  /\ CueEvery \in Nat \ {0}
  /\ TimecodeMax \in Nat \ {0} /\ TimeMax \in Nat \ {0}
  /\ Page \in Nat /\ Page >= 4096  \* no page is smaller

ASSUME ClipsAssumption ==
  Clips \subseteq [numFrames : Nat \ {0}, format : STRING \X Nat,
                  width : Nat \ {0}, height : Nat \ {0},
                  fpsNum : Nat \ {0}, fpsDen : Nat \ {0}]

VARIABLES
  clip,      \* the output node's video
  pc,        \* "lookup", "adding", "thrown"
  step,      \* the number of addChild calls made
  children,  \* of each node
  length,    \* of each element's content, as it stands in the element
  cues       \* the cue points: sequence of [time, position]

vars == <<clip, pc, step, children, length, cues>>

-----------------------------------------------------------------------------
(* Encoded lengths. *)

\* The digits of v to the base b, as far as four of them.
Digits(v, b) == IF v < b THEN 1 ELSE IF v < b * b THEN 2 ELSE IF v < b * b * b THEN 3 ELSE 4

\* The bytes of a vint, of less than 2^56: seven bits each.
VintSize(v) ==
  IF v < \h10000000 THEN Digits(v, 128) ELSE 4 + Digits(v \div \h10000000, 128)

\* The bytes of an integer: the value with all bits set takes one more.
IntSize(v) ==
  LET above == (v + 1) \div \h10000
  IN IF above = 0 THEN Digits(v + 1, 256)
     ELSE IF above < \h10000 THEN 2 + Digits(above, 256)
     ELSE 4 + Digits(above \div \h10000, 256)

Encoded(id, content) == VintSize(id) + VintSize(content) + content

-----------------------------------------------------------------------------
(* Clips.  A format is its chroma subsampling and bits per sample. *)

\* The keys of the fourcc table.
cc_map == ({"420", "422", "444"} \X {8, 9, 10, 12, 14, 16}) \cup ({"410", "411"} \X {8})

\* The pixels of luma that share one of chroma.
Subsampling(format) ==
  CASE format[1] = "420" -> 4 [] format[1] = "422" -> 2 [] format[1] = "444" -> 1
    [] format[1] = "410" -> 16 [] format[1] = "411" -> 4

bytesPerSample(format) == IF format[2] <= 8 THEN 1 ELSE 2

\* floor(n / fps), in steps that stay within 32 bits.
PerFrame(c, n) == (n \div c.fpsNum) * c.fpsDen + ((n % c.fpsNum) * c.fpsDen) \div c.fpsNum

-----------------------------------------------------------------------------
(* The constructor of clusterlist, and what cache_cluster writes for times. *)

frame_size(c) ==
  LET luma == c.width * c.height
  IN (luma + 2 * (luma \div Subsampling(c.format))) * bytesPerSample(c.format)

remaining_blocks(c) == c.numFrames % BlocksPerCluster
num_clusters(c)     == (c.numFrames - remaining_blocks(c)) \div BlocksPerCluster

ClusterBytes(c, blocks) ==
  LET block_size == 1 + VintSize(4 + frame_size(c)) + (4 + frame_size(c))
      content    == 6 + block_size * blocks
  IN 4 + VintSize(content) + content

cluster_size(c) == ClusterBytes(c, BlocksPerCluster)
total_size(c)   == cluster_size(c) * num_clusters(c) + ClusterBytes(c, remaining_blocks(c))

cluster_duration(c) == PerFrame(c, 1000 * BlocksPerCluster)

\* How long a frame lasts, in whole milliseconds.
millis(c) == PerFrame(c, 1000)

\* The cast to int16_t.
Int16(v) == ((v + TimecodeMax) % (2 * TimecodeMax)) - TimecodeMax

\* caching_cluster keeps the duration in an int16_t.  What becomes of a double
\* that does not fit is undefined; builds convert it to 32 bits, of which they
\* keep the lower half.
frame_duration(c) == Int16(millis(c))

\* Mutant: clusters are timed by their exact duration, blocks are not.
ClusterTimecodeExact(c, n) == (n * cluster_duration(c)) % TimeMax

\* The last four bytes of a product of 64 bits.
ClusterTimecode(c, n) == (n * frame_duration(c) * BlocksPerCluster) % TimeMax

BlockTimecode(c, i) == Int16(i * frame_duration(c))

-----------------------------------------------------------------------------
(* The nodes: their IDs, and the content of those without children. *)

ID ==
  [EBMLHead |-> \ha45dfa3, Segment |-> \h8538067, Info |-> \h549a966,
  Tracks |-> \h654ae6b, TrackEntry |-> \h2e, TrackVideo |-> \h60, Cues |-> \hC53BB6B,
  EBMLVersion |-> \h286, EBMLReadVersion |-> \h2f7, EBMLMaxIDLength |-> \h2f2,
  EBMLMaxSizeLength |-> \h2f3, DocType |-> \h282, DocTypeVersion |-> \h287,
  DocTypeReadVersion |-> \h285, TimecodeScale |-> \h285, MuxingApp |-> \hd80,
  WritingApp |-> \h1741, VideoFPS |-> \h383e3, VideoPixelWidth |-> \h30,
  VideoPixelHeight |-> \h3A, VideoDisplayWidth |-> \h14b0, VideoDisplayHeight |-> \h14ba,
  VideoColorSpace |-> \heb524, TrackNumber |-> \h57, TrackUID |-> \h33c5,
  TrackType |-> \h03, TrackMinCache |-> \h2de7, CodecID |-> \h06,
  TrackDefaultDuration |-> \h3E383]

\* Strings of fixed length and numbers of fixed width.
FixedContent ==
  [DocType |-> 8, MuxingApp |-> 5, WritingApp |-> 5, CodecID |-> 14,
   VideoFPS |-> 4, VideoColorSpace |-> 4]

\* Integers that are as long as their value needs.
Value(c) ==
  [EBMLVersion |-> 1, EBMLReadVersion |-> 1, EBMLMaxIDLength |-> 4, EBMLMaxSizeLength |-> 8,
   DocTypeVersion |-> 4, DocTypeReadVersion |-> 2, TimecodeScale |-> 1000000,
   VideoPixelWidth |-> c.width, VideoPixelHeight |-> c.height,
   VideoDisplayWidth |-> c.width, VideoDisplayHeight |-> c.height,
   TrackNumber |-> 1, TrackUID |-> 1, TrackType |-> 1, TrackMinCache |-> 0,
   TrackDefaultDuration |-> PerFrame(c, 1000000000)]

\* The nodes that get children.
Parents == {"Master", "EBMLHead", "Info", "TrackVideo", "TrackEntry", "Tracks", "Segment"}

\* The length of an element as its constructor leaves it.
InitialLength(c, e) ==
  CASE e \in DOMAIN FixedContent -> FixedContent[e]
    [] e \in DOMAIN Value(c)     -> IntSize(Value(c)[e])
    [] OTHER                     -> 0

calls(parent, names) == [i \in DOMAIN names |-> [parent |-> parent, child |-> names[i]]]

\* The addChild calls of the constructor.
HeadCalls ==
  calls("EBMLHead", <<"EBMLVersion", "EBMLReadVersion", "EBMLMaxIDLength", "EBMLMaxSizeLength",
                      "DocType", "DocTypeVersion", "DocTypeReadVersion">>)
InfoCalls ==
  calls("Info", <<"TimecodeScale", "MuxingApp", "WritingApp">>)
VideoCalls ==
  calls("TrackVideo", <<"VideoFPS", "VideoPixelWidth", "VideoPixelHeight", "VideoDisplayWidth",
                        "VideoDisplayHeight", "VideoColorSpace">>)
EntryCalls ==
  calls("TrackEntry", <<"TrackNumber", "TrackUID", "TrackType", "TrackMinCache", "CodecID",
                        "TrackDefaultDuration", "TrackVideo">>)
TracksCalls  == calls("Tracks", <<"TrackEntry">>)
SegmentCalls == calls("Segment", <<"Info", "Tracks", "Cues", "Clusters">>)
MasterCalls  == calls("Master", <<"EBMLHead", "Segment">>)

\* Mutant: the entry gets its video before the video is complete.
ProgramEntryEarly ==
  HeadCalls \o InfoCalls \o EntryCalls \o VideoCalls \o TracksCalls \o SegmentCalls \o MasterCalls

\* Mutant: the tracks go to the end of the file.
ProgramTracksLast ==
  HeadCalls \o InfoCalls \o VideoCalls \o EntryCalls \o TracksCalls \o
  calls("Segment", <<"Info", "Cues", "Clusters", "Tracks">>) \o MasterCalls

Program ==
  HeadCalls \o InfoCalls \o VideoCalls \o EntryCalls \o TracksCalls \o SegmentCalls \o MasterCalls

-----------------------------------------------------------------------------
(* Sizes and offsets, for given lengths of the elements. *)

\* getSize of any node but the root.
SizeOf(len, e) == IF e = "Clusters" THEN total_size(clip) ELSE Encoded(ID[e], len[e])

SizeOfAll(len, es) == total([i \in DOMAIN es |-> SizeOf(len, es[i])])

\* node::getOffset: the sizes of the children before it.
getOffset(kids, len, child) ==
  LET position == {i \in DOMAIN kids : kids[i] = child}
  IN IF position = {} THEN 0
     ELSE SizeOfAll(len, SubSeq(kids, 1, (CHOOSE i \in position : TRUE) - 1))

-----------------------------------------------------------------------------
(* The cues. *)

\* A point has a time of 4 bytes, and a position of 8 next to a track of 1.
cue_size ==
  LET positions == Encoded(\h77, 1) + Encoded(\h71, 8)
  IN Encoded(\h3B, Encoded(\h33, 4) + Encoded(\h37, positions))

num_cues == num_clusters(clip) \div CueEvery

\* Mutant: the header of the cues is forgotten.
cluster_offsetBare(cue_offset) == cue_offset + num_cues * cue_size

\* Where clusters will begin, in a segment whose cues begin at cue_offset.
cluster_offset(cue_offset) ==
  cue_offset + 4 + VintSize(num_cues * cue_size) + num_cues * cue_size

\* Mutant: every cluster is expected to have a cue.
CuePointsOfEach(cue_offset) ==
  [i \in 1 .. num_cues |->
     [time     |-> ((i - 1) * cluster_duration(clip)) % TimeMax,
      position |-> cluster_offset(cue_offset) + (i - 1) * cluster_size(clip) * CueEvery]]

CuePoints(cue_offset) ==
  [i \in 1 .. num_cues |->
     [time     |-> ((i - 1) * cluster_duration(clip) * CueEvery) % TimeMax,
      position |-> cluster_offset(cue_offset) + (i - 1) * cluster_size(clip) * CueEvery]]

-----------------------------------------------------------------------------
Init ==
  /\ clip \in Clips
  /\ pc = "lookup"
  /\ step = 0
  /\ children = [p \in Parents |-> <<>>]
  /\ length = [e \in DOMAIN ID |-> InitialLength(clip, e)]
  /\ cues = <<>>

\* Mutant: the default fourcc passes for one.
LookupUnchecked ==
  /\ pc = "lookup"
  /\ pc' = "adding"
  /\ UNCHANGED <<clip, step, children, length, cues>>

\* A format without a fourcc is refused.
Lookup ==
  /\ pc = "lookup"
  /\ pc' = IF clip.format \in cc_map THEN "adding" ELSE "thrown"
  /\ UNCHANGED <<clip, step, children, length, cues>>

\* addChild: the child is appended and told its parent, which makes the cues
\* fill themselves; then the length of the parent grows by the child's size.
\* The root is a plain node without length.
AddChild ==
  /\ pc = "adding" /\ step < Len(Program)
  /\ LET parent == Program[step + 1].parent
         child  == Program[step + 1].child
     IN /\ children' = [children EXCEPT ![parent] = Append(@, child)]
        /\ cues' = IF child = "Cues"
                   THEN cues \o CuePoints(getOffset(children'[parent], length, child))
                   ELSE cues
        /\ LET filled == [length EXCEPT !["Cues"] = Len(cues') * cue_size]
           IN length' = IF parent = "Master" THEN filled
                        ELSE [filled EXCEPT ![parent] = @ + SizeOf(filled, child)]
  /\ step' = step + 1
  /\ UNCHANGED <<clip, pc>>

Next == Lookup \/ AddChild

Spec == Init /\ [][Next]_vars

-----------------------------------------------------------------------------
(* What the finished file must be. *)

Done == pc = "adding" /\ step = Len(Program)

\* Where the content of the segment begins in the file, and the clusters in it.
SegmentData == SizeOf(length, "EBMLHead") + VintSize(ID["Segment"]) + VintSize(length["Segment"])
ClustersAt  == getOffset(children["Segment"], length, "Clusters")

\* The cluster a position in the segment is the first byte of.
ClusterOf(position) == (position - ClustersAt) \div cluster_size(clip)

\* When frame k is shown, according to its cluster and its block.
FrameTime(k) ==
  ClusterTimecode(clip, k \div BlocksPerCluster) + BlockTimecode(clip, k % BlocksPerCluster)

Frames == 0 .. clip.numFrames - 1

\* The variables keep their types, and only clips with a fourcc get a tree.
TypeOK ==
  /\ clip \in Clips
  /\ pc \in {"lookup", "adding", "thrown"}
  /\ step \in 0 .. Len(Program)
  /\ \A p \in Parents : children[p] \in Seq(DOMAIN ID \cup {"Clusters"})
  /\ \A e \in DOMAIN ID : length[e] \in Nat
  /\ pc = "adding" => clip.format \in cc_map

\* At any time the length in an element is the size of its children: nothing is
\* put into an element after that was put into another (element.cpp:61-66).
LengthsRight ==
  /\ \A p \in Parents \ {"Master"} : length[p] = SizeOfAll(length, children[p])
  /\ length["Cues"] = Len(cues) * cue_size

\* Each cue points at the first byte of the full cluster it is for, as
\* clusterlist::output will divide the file (cues.cpp:69-83).
CuesRight ==
  Done => \A i \in DOMAIN cues :
    LET n == (i - 1) * CueEvery
    IN /\ n < num_clusters(clip)
       /\ cues[i].position = ClustersAt + n * cluster_size(clip)

\* A player that looks for a frame starts at the last cue that is not later than
\* the frame, and never finds itself behind the frame, although cues and
\* clusters are timed by differently rounded durations (cues.cpp:86,
\* clusterlist.cpp:148), of which the frame's is cut off to 16 bits
\* (clusterlist.h:48).  There are three exceptions.  Where a cluster lasts less
\* than a millisecond all cues have the time 0.  Where 16 bits make the duration
\* of a frame negative, as at 32.768 s, the times of clusters run backwards.  And
\* times beyond 4 bytes, 49 days, start again from 0.
SeekNeverOvershoots ==
  /\ Done /\ cluster_duration(clip) > 0 /\ frame_duration(clip) >= 0
  /\ num_cues * CueEvery * cluster_duration(clip) <= TimeMax
  => \A i \in DOMAIN cues, k \in Frames :
       cues[i].time <= FrameTime(k) => ClusterOf(cues[i].position) <= k \div BlocksPerCluster

\* Each frame comes one frame's duration after the one before, also where a
\* cluster ends, as long as 16 bits hold the times in a cluster and 4 bytes those
\* of the clip (clusterlist.cpp:148,173).
FramesInOrder ==
  LET d == millis(clip)
  IN Done /\ d < TimecodeMax /\ (BlocksPerCluster - 1) * d < TimecodeMax
          /\ clip.numFrames * d <= TimeMax
     => \A k \in Frames \ {0} : FrameTime(k) - FrameTime(k - 1) = d

\* All strings and floats end in the first page of the file, and so do the cues if
\* there are none: they are only right when read from their start or from before it.
HeadInFirstPage ==
  Done =>
    /\ SizeOf(length, "EBMLHead") <= Page
    /\ \A e \in {"Info", "Tracks"} \cup (IF cues = <<>> THEN {"Cues"} ELSE {}) :
         SegmentData + getOffset(children["Segment"], length, e) + SizeOf(length, e) <= Page
=============================================================================
