-------------------------- MODULE StreamLayoutProofs --------------------------
(***************************************************************************)
(* Proofs about StreamLayout, for any clips and any numbers of blocks in a *)
(* cluster and of clusters to a cue.                                       *)
(***************************************************************************)
EXTENDS StreamLayout, Foundations, SequenceTheorems, TLAPS

-----------------------------------------------------------------------------
(* Times. *)

\* The duration of n units, in frames, is rounded down.
LEMMA RoundedDown ==
  ASSUME NEW c \in Clips, NEW n \in Nat
  PROVE  /\ PerFrame(c, n) \in Nat
         /\ c.fpsNum * PerFrame(c, n) <= n * c.fpsDen
         /\ n * c.fpsDen < c.fpsNum * (PerFrame(c, n) + 1)
<1> DEFINE num == c.fpsNum
           den == c.fpsDen
           a == n \div num
           m == n % num
           e == (m * den) \div num
           f == (m * den) % num
<1>1. num \in Nat \ {0} /\ den \in Nat \ {0}
  BY ClipsAssumption
<1>2. PerFrame(c, n) = a * den + e
  BY DEF PerFrame
<1> HIDE DEF num, den
<1>3. a \in Nat /\ m \in 0 .. num - 1 /\ n = num * a + m
  BY <1>1, Z3
<1> HIDE DEF a, m
<1>4. m * den \in Nat
  BY <1>1, <1>3, ProductInNat
<1>5. e \in Nat /\ f \in 0 .. num - 1 /\ m * den = num * e + f
  BY <1>1, <1>4, Z3
<1> HIDE DEF e, f
<1>6. a * den \in Nat /\ num * e \in Nat /\ num * (a * den) \in Nat
  BY <1>1, <1>3, <1>5, ProductInNat
<1>7. n * den = num * (a * den) + m * den
  BY <1>1, <1>3
<1>8. num * (a * den + e) = num * (a * den) + num * e
  BY <1>1, <1>3, <1>5, <1>6
<1>9. num * (a * den + e + 1) = num * (a * den) + num * e + num
  BY <1>1, <1>3, <1>5, <1>6
<1>10. a * den + e \in Nat
  BY <1>5, <1>6
<1>11. num * (a * den + e) <= n * den
  BY <1>1, <1>5, <1>6, <1>7, <1>8
<1>12. n * den < num * (a * den + e + 1)
  BY <1>1, <1>5, <1>6, <1>7, <1>9
<1> QED
  BY <1>2, <1>10, <1>11, <1>12 DEF num, den

\* Times are numbers, and cutting them off does not make them larger.
LEMMA Remainder ==
  ASSUME NEW y \in Nat, NEW m \in Nat \ {0}
  PROVE  /\ y % m \in 0 .. m - 1 /\ y % m <= y
         /\ y < m => y % m = y
<1>1. y % m \in 0 .. m - 1 /\ y \div m \in Nat /\ y = m * (y \div m) + (y % m)
  BY Z3
<1>2. m * (y \div m) \in Nat
  BY <1>1, ProductInNat
<1>3. y % m <= y
  BY <1>1, <1>2
<1>4. y < m => y % m = y
  BY Z3
<1> QED
  BY <1>1, <1>3, <1>4

\* The cast to 16 bits never makes a time later, and leaves it alone when it fits.
LEMMA CastTime ==
  ASSUME NEW x \in Nat
  PROVE  /\ Int16(x) \in Int /\ Int16(x) <= x
         /\ x < TimecodeMax => Int16(x) = x
<1> DEFINE T == TimecodeMax
           y == x + T
           m == 2 * T
<1>1. T \in Nat \ {0}
  BY ConstantsAssumption
<1>2. Int16(x) = (y % m) - T
  BY DEF Int16
<1> HIDE DEF T
<1>3. y \in Nat /\ m \in Nat \ {0}
  BY <1>1
<1> HIDE DEF y, m
<1>4. y % m \in 0 .. m - 1 /\ y % m <= y /\ (y < m => y % m = y)
  BY <1>3, Remainder
<1>5. y % m \in Int /\ T \in Int
  BY <1>1, <1>3, <1>4
<1>6. (y % m) - T \in Int /\ (y % m) - T <= x
  BY <1>4, <1>5 DEF y
<1>7. x < T => (y % m) - T = x
  BY <1>1, <1>4 DEF y, m
<1> QED
  BY <1>2, <1>6, <1>7 DEF T

\* So a frame's duration is at most its whole milliseconds.
LEMMA FrameLasts ==
  ASSUME NEW c \in Clips
  PROVE  /\ millis(c) \in Nat /\ frame_duration(c) \in Int /\ frame_duration(c) <= millis(c)
         /\ millis(c) < TimecodeMax => frame_duration(c) = millis(c)
<1>1. millis(c) \in Nat
  BY RoundedDown DEF millis
<1> QED
  BY <1>1, CastTime DEF frame_duration

\* A cluster lasts no shorter than its frames do, each rounded by itself.
LEMMA ClusterLastsLonger ==
  ASSUME NEW c \in Clips
  PROVE  /\ cluster_duration(c) \in Nat
         /\ frame_duration(c) >= 0 =>
              frame_duration(c) * BlocksPerCluster <= cluster_duration(c)
<1> DEFINE num == c.fpsNum
           den == c.fpsDen
           B == BlocksPerCluster
           d == millis(c)
           D == cluster_duration(c)
           f == frame_duration(c)
<1>1. num \in Nat \ {0} /\ den \in Nat \ {0} /\ B \in Nat \ {0}
  BY ClipsAssumption, ConstantsAssumption
<1>2. d \in Nat /\ num * d <= 1000 * den
  BY RoundedDown DEF millis
<1>3. 1000 * B \in Nat
  BY <1>1
<1>4. D \in Nat /\ (1000 * B) * den < num * (D + 1)
  BY <1>3, RoundedDown DEF cluster_duration
<1>5. f \in Int /\ f <= d
  BY FrameLasts
<1> HIDE DEF num, den, B, d, D, f
<1>6. num * d \in Nat /\ 1000 * den \in Nat
  BY <1>1, <1>2, ProductInNat
<1>7. (num * d) * B <= (1000 * den) * B
  BY <1>1, <1>2, <1>6, ProductMonotone
<1>8. (num * d) * B = num * (d * B) /\ (1000 * den) * B = (1000 * B) * den
  BY <1>1, <1>2
<1>9. d * B \in Nat /\ D + 1 \in Nat
  BY <1>1, <1>2, <1>4, ProductInNat
<1>10. num * (d * B) \in Nat /\ (1000 * B) * den \in Nat /\ num * (D + 1) \in Nat
  BY <1>1, <1>3, <1>9, ProductInNat
<1>11. num * (d * B) < num * (D + 1)
  BY <1>4, <1>7, <1>8, <1>10
<1>12. d * B < D + 1
  BY <1>1, <1>9, <1>11, FactorLess
<1>13. f >= 0 => f * B <= d * B /\ f * B \in Nat
  BY <1>1, <1>2, <1>5, ProductMonotone, ProductInNat
<1>14. f >= 0 => f * B <= D
  BY <1>4, <1>9, <1>12, <1>13
<1> QED
  BY <1>4, <1>14 DEF f, D, B

\* The cluster and the block of a frame.
LEMMA FramePlace ==
  ASSUME NEW k \in Nat
  PROVE  /\ k \div BlocksPerCluster \in Nat
         /\ k % BlocksPerCluster \in 0 .. BlocksPerCluster - 1
         /\ k = BlocksPerCluster * (k \div BlocksPerCluster) + (k % BlocksPerCluster)
BY ConstantsAssumption, Z3

\* No frame is shown later than its number says, and none earlier if 16 bits
\* hold the times in a cluster, and 4 bytes the frame's.
LEMMA TimeOfFrame ==
  ASSUME NEW k \in Nat, clip \in Clips, frame_duration(clip) >= 0
  PROVE  /\ FrameTime(k) \in Int
         /\ FrameTime(k) <= k * frame_duration(clip)
         /\ /\ (BlocksPerCluster - 1) * frame_duration(clip) < TimecodeMax
            /\ k * frame_duration(clip) < TimeMax
            => FrameTime(k) = k * frame_duration(clip)
<1> DEFINE B == BlocksPerCluster
           d == frame_duration(clip)
           n == k \div B
           j == k % B
           b == BlockTimecode(clip, j)
           t == n * d * B
           c == t % TimeMax
<1>1. B \in Nat \ {0} /\ d \in Nat
  BY ConstantsAssumption, FrameLasts
<1>2. n \in Nat /\ j \in 0 .. B - 1 /\ k = B * n + j
  BY FramePlace
<1>3. b = Int16(j * d)
  BY DEF BlockTimecode
<1>4. FrameTime(k) = c + b
  BY DEF FrameTime, ClusterTimecode
<1>5. TimecodeMax \in Nat /\ TimeMax \in Nat \ {0}
  BY ConstantsAssumption
<1> HIDE DEF B, d, n, j, b
<1>6. j \in Nat /\ B - 1 \in Nat /\ j <= B - 1
  BY <1>1, <1>2
<1>7. j * d <= (B - 1) * d
  BY <1>1, <1>6, ProductMonotone
<1>8. n * d \in Nat /\ t \in Nat /\ j * d \in Nat /\ (B - 1) * d \in Nat
  BY <1>1, <1>2, <1>6, ProductInNat
<1>9. k * d = t + j * d
  BY <1>1, <1>2
<1>10. b \in Int /\ b <= j * d /\ (j * d < TimecodeMax => b = j * d)
  BY <1>3, <1>8, CastTime
<1> HIDE DEF t
<1>11. c \in Nat /\ c <= t /\ (t < TimeMax => c = t)
  BY <1>5, <1>8, Remainder
<1> HIDE DEF c
<1>12. FrameTime(k) \in Int /\ FrameTime(k) <= k * d
  BY <1>4, <1>8, <1>9, <1>10, <1>11
<1>13. (B - 1) * d < TimecodeMax /\ k * d < TimeMax => FrameTime(k) = k * d
  BY <1>4, <1>5, <1>7, <1>8, <1>9, <1>10, <1>11
<1> QED
  BY <1>12, <1>13 DEF d, B

\* A cue for cluster n that is not later than a frame is for no cluster behind
\* the frame's.
LEMMA CueBeforeFrame ==
  ASSUME NEW k \in Nat, NEW n \in Nat, clip \in Clips,
         cluster_duration(clip) > 0, frame_duration(clip) >= 0,
         n * cluster_duration(clip) <= FrameTime(k)
  PROVE  n <= k \div BlocksPerCluster
<1> DEFINE B == BlocksPerCluster
           d == frame_duration(clip)
           D == cluster_duration(clip)
           q == k \div B
           j == k % B
<1>1. B \in Nat \ {0} /\ d \in Nat /\ D \in Nat \ {0} /\ d * B <= D
  BY ConstantsAssumption, FrameLasts, ClusterLastsLonger
<1>2. q \in Nat /\ j \in 0 .. B - 1 /\ k = B * q + j
  BY FramePlace
<1>3. FrameTime(k) \in Int /\ FrameTime(k) <= k * d
  BY TimeOfFrame
<1> HIDE DEF B, d, D, q, j
<1>4. SUFFICES ASSUME q + 1 <= n
               PROVE  FALSE
  BY <1>2 DEF q, B
<1>5. n * D \in Nat /\ (q + 1) * D \in Nat /\ k * d \in Nat /\ d * B \in Nat
      /\ (d * B) * (q + 1) \in Nat /\ q + 1 \in Nat
  BY <1>1, <1>2, ProductInNat
<1>6. (q + 1) * D <= n * D
  BY <1>1, <1>4, <1>5, ProductMonotone
<1>7. (d * B) * (q + 1) <= D * (q + 1)
  BY <1>1, <1>5, ProductMonotone
<1>8. (q + 1) * D <= k * d
  BY <1>3, <1>5, <1>6 DEF D
<1>9. D * (q + 1) = (q + 1) * D
  BY <1>1, <1>2
<1>10. (d * B) * (q + 1) = d * (B * q + B) /\ B * q + B \in Nat
  BY <1>1, <1>2, ProductInNat
<1>11. k * d = d * k
  BY <1>1
<1>12. d * (B * q + B) <= d * k
  BY <1>5, <1>7, <1>8, <1>9, <1>10, <1>11
<1>13. k < B * q + B
  BY <1>1, <1>2, <1>10
<1>14. CASE d = 0
  <2>1. k * d = 0
    BY <1>14
  <2>2. D <= (q + 1) * D
    <3>1. 1 * D <= (q + 1) * D
      BY <1>1, <1>2, <1>5, ProductMonotone
    <3> QED
      BY <1>1, <3>1
  <2> QED
    BY <1>1, <1>5, <1>8, <2>1, <2>2
<1>15. CASE d # 0
  <2> DEFINE x == B * q + B
             y == x - k
  <2>1. y \in Nat /\ 1 <= y /\ x = k + y
    BY <1>10, <1>13
  <2> HIDE DEF x, y
  <2>2. d * (k + y) = d * k + d * y
    BY <1>1, <2>1
  <2>3. 1 * d <= y * d
    BY <1>1, <2>1, ProductMonotone
  <2>4. d * k \in Nat /\ y * d = d * y /\ 1 * d = d /\ d * y \in Nat
    BY <1>1, <2>1, ProductInNat
  <2>5. d * (k + y) <= d * k
    BY <1>12, <2>1 DEF x
  <2> QED
    BY <1>1, <1>15, <2>2, <2>3, <2>4, <2>5
<1> QED
  BY <1>14, <1>15

-----------------------------------------------------------------------------
(* Sizes. *)

\* A vint has at most 8 bytes, and so has an integer.
LEMMA WidthOfNumbers ==
  ASSUME NEW v \in Nat
  PROVE  VintSize(v) \in 1 .. 8 /\ IntSize(v) \in 1 .. 8
<1>1. VintSize(v) \in 1 .. 8
  BY DEF VintSize, Digits
<1>2. IntSize(v) \in 1 .. 8
  BY DEF IntSize, Digits
<1> QED
  BY <1>1, <1>2

\* So the size of an element is a number.
LEMMA EncodedInNat ==
  ASSUME NEW id \in Nat, NEW l \in Nat
  PROVE  Encoded(id, l) \in Nat \ {0}
BY WidthOfNumbers DEF Encoded

\* The frames and clusters of a clip that has a fourcc.
LEMMA ClipSizes ==
  ASSUME NEW c \in Clips, c.format \in cc_map
  PROVE  /\ cluster_size(c) \in Nat \ {0}
         /\ num_clusters(c) \in Nat /\ remaining_blocks(c) \in 0 .. BlocksPerCluster - 1
         /\ total_size(c) \in Nat \ {0}
         /\ frame_size(c) \in Nat /\ \A b \in Nat : ClusterBytes(c, b) \in Nat \ {0}
<1> DEFINE luma == c.width * c.height
           chroma == luma \div Subsampling(c.format)
           frame == 4 + frame_size(c)
           block == 1 + VintSize(frame) + frame
<1>1. c.width \in Nat /\ c.height \in Nat /\ c.numFrames \in Nat /\ BlocksPerCluster \in Nat \ {0}
  BY ClipsAssumption, ConstantsAssumption
<1>2. luma \in Nat
  BY <1>1, ProductInNat
<1>3. Subsampling(c.format) \in {1, 2, 4, 16} /\ bytesPerSample(c.format) \in {1, 2}
  BY DEF cc_map, Subsampling, bytesPerSample
<1>4. chroma \in Nat
  <2> HIDE DEF luma
  <2> QED
    BY <1>2, <1>3
<1>5. frame_size(c) = (luma + 2 * chroma) * bytesPerSample(c.format)
  BY DEF frame_size
<1>6. frame_size(c) \in Nat
  <2> HIDE DEF luma, chroma
  <2> QED
    BY <1>2, <1>3, <1>4, <1>5
<1>7. block \in Nat
  BY <1>6, WidthOfNumbers
<1>8. ASSUME NEW b \in Nat
      PROVE  ClusterBytes(c, b) \in Nat \ {0}
  <2> DEFINE content == 6 + block * b
  <2>1. ClusterBytes(c, b) = 4 + VintSize(content) + content
    BY DEF ClusterBytes
  <2> HIDE DEF block
  <2>2. content \in Nat
    BY <1>7, <1>8, ProductInNat, SMTT(30)
  <2> HIDE DEF content
  <2> QED
    BY <2>1, <2>2, WidthOfNumbers
<1>9. cluster_size(c) \in Nat \ {0}
  BY <1>1, <1>8 DEF cluster_size
<1>10. remaining_blocks(c) \in 0 .. BlocksPerCluster - 1
  BY <1>1, FramePlace DEF remaining_blocks
<1>11. num_clusters(c) \in Nat
  <2> DEFINE q == c.numFrames \div BlocksPerCluster
  <2>1. q \in Nat /\ c.numFrames = BlocksPerCluster * q + remaining_blocks(c)
    BY <1>1, FramePlace DEF remaining_blocks
  <2> HIDE DEF q
  <2>2. c.numFrames - remaining_blocks(c) = BlocksPerCluster * q
    BY <1>1, <1>10, <2>1, ProductInNat
  <2>3. BlocksPerCluster * q + 0 = BlocksPerCluster * q /\ 0 \in 0 .. BlocksPerCluster - 1
    BY <1>1, <2>1, ProductInNat
  <2>4. (BlocksPerCluster * q) \div BlocksPerCluster = q
    BY <1>1, <2>1, <2>3, Quotient
  <2> QED
    BY <2>1, <2>2, <2>4 DEF num_clusters
<1>12. ClusterBytes(c, remaining_blocks(c)) \in Nat \ {0}
  BY <1>1, <1>8, <1>10
<1>13. cluster_size(c) * num_clusters(c) \in Nat
  BY <1>9, <1>11, ProductInNat
<1>14. total_size(c) \in Nat \ {0}
  BY <1>12, <1>13 DEF total_size
<1> QED
  BY <1>6, <1>8, <1>9, <1>10, <1>11, <1>14

\* A larger number does not have fewer digits.
LEMMA DigitsGrow ==
  ASSUME NEW v \in Nat, NEW w \in Nat, v <= w
  PROVE  /\ Digits(v, 128) <= Digits(w, 128)
         /\ Digits(v, 128) \in 1 .. 4 /\ Digits(w, 128) \in 1 .. 4
BY DEF Digits

\* So it does not take fewer bytes.
LEMMA WidthGrows ==
  ASSUME NEW v \in Nat, NEW w \in Nat, v <= w
  PROVE  VintSize(v) <= VintSize(w)
<1> DEFINE top(x) == x \div \h10000000
<1>1. top(v) \in Nat /\ top(w) \in Nat /\ top(v) <= top(w)
  BY Z3
<1>2. \A x : VintSize(x) = IF x < \h10000000 THEN Digits(x, 128) ELSE 4 + Digits(top(x), 128)
  BY SMT DEF VintSize
<1> HIDE DEF top
<1>3. /\ Digits(top(v), 128) <= Digits(top(w), 128)
      /\ Digits(top(v), 128) \in 1 .. 4 /\ Digits(top(w), 128) \in 1 .. 4
  BY <1>1, DigitsGrow
<1>4. /\ Digits(v, 128) <= Digits(w, 128)
      /\ Digits(v, 128) \in 1 .. 4 /\ Digits(w, 128) \in 1 .. 4
  BY DigitsGrow
<1> QED
  BY <1>2, <1>3, <1>4, SMT

\* The sizes that the constructor of clusterlist computes are those that
\* ClusterCache assumes (LayoutAssumption): numbers of clusters and of blocks in
\* the tail, and a cluster that is longer if it has more blocks.
THEOREM ClustersGrow ==
  ASSUME NEW c \in Clips, c.format \in cc_map
  PROVE  /\ num_clusters(c) \in Nat /\ remaining_blocks(c) \in 0 .. BlocksPerCluster - 1
         /\ \A i \in 0 .. BlocksPerCluster : ClusterBytes(c, i) \in Nat \ {0}
         /\ \A i, j \in 0 .. BlocksPerCluster :
              i < j => ClusterBytes(c, i) < ClusterBytes(c, j)
<1> DEFINE frame == 4 + frame_size(c)
           block == 1 + VintSize(frame) + frame
           content(i) == 6 + block * i
<1>1. frame \in Nat
  BY ClipSizes
<1>2. block \in Nat \ {0}
  <2> HIDE DEF frame
  <2> QED
    BY <1>1, WidthOfNumbers
<1>3. \A i : ClusterBytes(c, i) = 4 + VintSize(content(i)) + content(i)
  BY DEF ClusterBytes
<1> HIDE DEF block
<1>4. ASSUME NEW i \in Nat, NEW j \in Nat, i < j
      PROVE  ClusterBytes(c, i) < ClusterBytes(c, j)
  <2>1. content(i) \in Nat /\ content(j) \in Nat
    BY <1>2, ProductInNat
  <2>2. content(i) < content(j)
    <3>1. j - i - 1 \in Nat
      BY <1>4
    <3> DEFINE more == j - i - 1
    <3> HIDE DEF more
    <3>2. block * j = block * i + block * more + block
      BY <1>2, <3>1 DEF more
    <3>3. block * i \in Nat /\ block * more \in Nat /\ block * j \in Nat
      BY <1>2, <3>1, ProductInNat DEF more
    <3> QED
      BY <1>2, <3>2, <3>3
  <2> HIDE DEF content
  <2>3. VintSize(content(i)) <= VintSize(content(j))
    BY <2>1, <2>2, WidthGrows
  <2>4. VintSize(content(i)) \in Nat /\ VintSize(content(j)) \in Nat
    BY <2>1, WidthOfNumbers
  <2> QED
    BY <1>3, <2>1, <2>2, <2>3, <2>4
<1>5. BlocksPerCluster \in Nat
  BY ConstantsAssumption
<1> QED
  BY <1>4, <1>5, ClipSizes

\* What the constructors write down for the leaves.
LEMMA FirstLengths ==
  ASSUME NEW c \in Clips, NEW e \in DOMAIN ID
  PROVE  ID[e] \in Nat /\ InitialLength(c, e) \in Nat
<1>1. ID[e] \in Nat
  BY DEF ID
<1>2. e \in DOMAIN FixedContent => FixedContent[e] \in Nat
  BY DEF FixedContent
<1>3. e \in DOMAIN Value(c) => Value(c)[e] \in Nat
  <2>1. PerFrame(c, 1000000000) \in Nat /\ c.width \in Nat /\ c.height \in Nat
    BY RoundedDown, ClipsAssumption
  <2> QED
    BY <2>1 DEF Value
<1>4. e \in DOMAIN Value(c) => IntSize(Value(c)[e]) \in Nat
  BY <1>3, WidthOfNumbers
<1>5. InitialLength(c, e) \in Nat
  BY <1>2, <1>4 DEF InitialLength
<1> QED
  BY <1>1, <1>5

\* A cue point has a size.
LEMMA CueSize == cue_size \in Nat \ {0}
<1> DEFINE positions == Encoded(\h77, 1) + Encoded(\h71, 8)
<1>1. positions \in Nat
  BY EncodedInNat
<1> HIDE DEF positions
<1>2. Encoded(\h33, 4) + Encoded(\h37, positions) \in Nat
  BY <1>1, EncodedInNat
<1> QED
  BY <1>2, EncodedInNat DEF cue_size, positions

-----------------------------------------------------------------------------
(* The calls of the constructor. *)

Names == DOMAIN ID \cup {"Clusters"}

\* The first and the last call that gives an element a child.
FirstCall ==
  [EBMLHead |-> 1, Info |-> 8, TrackVideo |-> 11, TrackEntry |-> 17, Tracks |-> 24,
   Segment |-> 25, Master |-> 29]
LastCall ==
  [EBMLHead |-> 7, Info |-> 10, TrackVideo |-> 16, TrackEntry |-> 23, Tracks |-> 24,
   Segment |-> 28, Master |-> 30]

\* Which names there are.
LEMMA KnownNames ==
  /\ Parents \ {"Master"} \subseteq DOMAIN ID
  /\ {"Info", "Tracks", "Segment"} \subseteq Parents
  /\ "Cues" \in DOMAIN ID /\ "Cues" \notin Parents
BY SMT DEF Parents, ID

\* There are 30 calls.
LEMMA Calls == Len(Program) = 30
BY DEF Program, HeadCalls, InfoCalls, VideoCalls, EntryCalls, TracksCalls,
       SegmentCalls, MasterCalls, calls

\* Each of them names a node and a child, and who becomes a child has got all
\* its own before.
LEMMA CallsInOrder ==
  ASSUME NEW i \in 1 .. 30
  PROVE  /\ Program[i].parent \in Parents /\ Program[i].child \in Names
         /\ i <= LastCall[Program[i].parent]
         /\ Program[i].child \in Parents => LastCall[Program[i].child] < i
         /\ Program[i].child = "Cues" <=> i = 27
         /\ Program[i].child = "Clusters" <=> i = 28
BY DEF Program, HeadCalls, InfoCalls, VideoCalls, EntryCalls, TracksCalls,
       SegmentCalls, MasterCalls, calls, Names, ID, Parents, LastCall

\* The calls for one node come one after the other, seven at most.
LEMMA CallsOfNode ==
  ASSUME NEW p \in Parents
  PROVE  /\ FirstCall[p] \in 1 .. 30 /\ LastCall[p] \in 1 .. 30
         /\ FirstCall[p] <= LastCall[p] /\ LastCall[p] <= FirstCall[p] + 6
         /\ \A i \in 1 .. 30 :
              Program[i].parent = p <=> FirstCall[p] <= i /\ i <= LastCall[p]
BY DEF Program, HeadCalls, InfoCalls, VideoCalls, EntryCalls, TracksCalls,
       SegmentCalls, MasterCalls, calls, Parents, FirstCall, LastCall

\* How many of the first n calls are for node p.
Given(p, n) ==
  IF n < FirstCall[p] THEN 0
  ELSE IF n > LastCall[p] THEN LastCall[p] - FirstCall[p] + 1
  ELSE n - FirstCall[p] + 1

\* A call is for one node, and the next one of it.
LEMMA GivenFacts ==
  ASSUME NEW p \in Parents, NEW n \in 0 .. 30
  PROVE  /\ Given(p, n) \in 0 .. 7 /\ Given(p, 0) = 0
         /\ n < 30 => IF Program[n + 1].parent = p
                      THEN Given(p, n + 1) = Given(p, n) + 1 /\ FirstCall[p] + Given(p, n) = n + 1
                      ELSE Given(p, n + 1) = Given(p, n)
         /\ \A k \in 1 .. Given(p, n) :
              /\ FirstCall[p] + k - 1 \in 1 .. 30 /\ FirstCall[p] + k - 1 <= n
              /\ Program[FirstCall[p] + k - 1].parent = p
<1> DEFINE f == FirstCall[p]
           l == LastCall[p]
<1>1. /\ f \in 1 .. 30 /\ l \in 1 .. 30 /\ f <= l /\ l <= f + 6
      /\ \A i \in 1 .. 30 : Program[i].parent = p <=> f <= i /\ i <= l
  BY CallsOfNode
<1>2. \A m : Given(p, m) = IF m < f THEN 0 ELSE IF m > l THEN l - f + 1 ELSE m - f + 1
  BY DEF Given
<1> HIDE DEF f, l
<1>3. Given(p, n) \in 0 .. 7 /\ Given(p, 0) = 0
  BY <1>1, <1>2
<1>4. ASSUME n < 30
      PROVE  IF Program[n + 1].parent = p
             THEN Given(p, n + 1) = Given(p, n) + 1 /\ f + Given(p, n) = n + 1
             ELSE Given(p, n + 1) = Given(p, n)
  <2>1. Program[n + 1].parent = p <=> f <= n + 1 /\ n + 1 <= l
    BY <1>1, <1>4
  <2> QED
    BY <1>1, <1>2, <1>4, <2>1
<1>5. ASSUME NEW k \in 1 .. Given(p, n)
      PROVE  /\ f + k - 1 \in 1 .. 30 /\ f + k - 1 <= n
             /\ Program[f + k - 1].parent = p
  <2>1. f + k - 1 \in 1 .. 30 /\ f + k - 1 <= n /\ f <= f + k - 1 /\ f + k - 1 <= l
    BY <1>1, <1>2, <1>3
  <2> QED
    BY <1>1, <2>1
<1> QED
  BY <1>3, <1>4, <1>5 DEF f

-----------------------------------------------------------------------------
(* The sizes of children. *)

Lengths == [DOMAIN ID -> Nat]

\* A node has a size.
LEMMA SizeInNat ==
  ASSUME clip \in Clips, clip.format \in cc_map, NEW len \in Lengths, NEW e \in Names
  PROVE  SizeOf(len, e) \in Nat
<1>1. CASE e = "Clusters"
  BY <1>1, ClipSizes DEF SizeOf
<1>2. CASE e # "Clusters"
  <2>1. e \in DOMAIN ID /\ len[e] \in Nat
    BY <1>2 DEF Names, Lengths
  <2>2. ID[e] \in Nat
    BY <2>1, FirstLengths
  <2> QED
    BY <1>2, <2>1, <2>2, EncodedInNat DEF SizeOf
<1> QED
  BY <1>1, <1>2

\* The sizes of children, one after the other.
Sizes(len, es) == [i \in DOMAIN es |-> SizeOf(len, es[i])]

\* They are a sequence as long as that of the children.
LEMMA SizesAreSeq ==
  ASSUME NEW S, NEW len, NEW es \in Seq(Names),
         \A e \in Names : SizeOf(len, e) \in S
  PROVE  /\ Sizes(len, es) \in Seq(S)
         /\ Len(Sizes(len, es)) = Len(es)
<1> DEFINE f == Sizes(len, es)
<1>1. Len(es) \in Nat /\ DOMAIN es = 1 .. Len(es) /\ \A i \in 1 .. Len(es) : es[i] \in Names
  BY LenProperties, ElementOfSeq
<1>2. f \in [1 .. Len(es) -> S] /\ DOMAIN f = 1 .. Len(es)
  BY <1>1 DEF Sizes
<1> HIDE DEF f
<1>3. f \in Seq(S)
  BY <1>1, <1>2, SeqDef
<1>4. Len(f) = Len(es)
  BY <1>1, <1>2, <1>3, LenProperties
<1> QED
  BY <1>3, <1>4 DEF f

\* All children together have a size.
LEMMA SizeOfAllInNat ==
  ASSUME clip \in Clips, clip.format \in cc_map, NEW len \in Lengths, NEW es \in Seq(Names)
  PROVE  SizeOfAll(len, es) \in Nat
<1>1. Sizes(len, es) \in Seq(Nat)
  BY SizeInNat, SizesAreSeq
<1> QED
  BY <1>1, TotalInNat DEF SizeOfAll, Sizes

\* One more child adds its size.
LEMMA SizeOfAllAppend ==
  ASSUME NEW len, NEW es \in Seq(Names), NEW e \in Names
  PROVE  SizeOfAll(len, Append(es, e)) = SizeOfAll(len, es) + SizeOf(len, e)
<1> DEFINE S == {SizeOf(len, d) : d \in Names}
           more == Append(es, e)
<1>1. /\ more \in Seq(Names) /\ Len(more) = Len(es) + 1 /\ Len(es) \in Nat
      /\ \A i \in 1 .. Len(es) : more[i] = es[i]
      /\ more[Len(es) + 1] = e
  BY AppendProperties, LenProperties
<1>2. \A d \in Names : SizeOf(len, d) \in S
  OBVIOUS
<1> HIDE DEF S, more
<1>3. /\ Sizes(len, es) \in Seq(S) /\ Len(Sizes(len, es)) = Len(es)
      /\ Sizes(len, more) \in Seq(S) /\ Len(Sizes(len, more)) = Len(es) + 1
  BY <1>1, <1>2, SizesAreSeq
<1> DEFINE sum == Append(Sizes(len, es), SizeOf(len, e))
<1>4. /\ sum \in Seq(S) /\ Len(sum) = Len(es) + 1
      /\ \A i \in 1 .. Len(es) : sum[i] = Sizes(len, es)[i]
      /\ sum[Len(es) + 1] = SizeOf(len, e)
  BY <1>2, <1>3, AppendProperties
<1> HIDE DEF sum
<1>5. \A i \in 1 .. Len(es) + 1 : sum[i] = Sizes(len, more)[i]
  <2> TAKE i \in 1 .. Len(es) + 1
  <2>1. i \in DOMAIN more /\ (i \in 1 .. Len(es) => i \in DOMAIN es)
    BY <1>1, LenProperties
  <2>2. Sizes(len, more)[i] = SizeOf(len, more[i])
    BY <2>1 DEF Sizes
  <2>3. i \in 1 .. Len(es) => Sizes(len, es)[i] = SizeOf(len, es[i])
    BY <2>1 DEF Sizes
  <2> QED
    BY <1>1, <1>4, <2>2, <2>3
<1>6. Sizes(len, more) = sum
  BY <1>3, <1>4, <1>5, SeqEqual
<1>7. total(sum) = total(Sizes(len, es)) + SizeOf(len, e)
  BY <1>2, <1>3, TotalAppend DEF sum
<1> QED
  BY <1>6, <1>7 DEF SizeOfAll, Sizes, more

\* Where a child begins.
LEMMA OffsetInNat ==
  ASSUME clip \in Clips, clip.format \in cc_map, NEW len \in Lengths,
         NEW kids \in Seq(Names), NEW child \in Names
  PROVE  getOffset(kids, len, child) \in Nat
<1> DEFINE position == {i \in DOMAIN kids : kids[i] = child}
           m == CHOOSE i \in position : TRUE
<1>1. CASE position = {}
  BY <1>1 DEF getOffset
<1>2. CASE position # {}
  <2>1. m \in 1 .. Len(kids) /\ Len(kids) \in Nat
    BY <1>2, LenProperties
  <2>2. getOffset(kids, len, child) = SizeOfAll(len, SubSeq(kids, 1, m - 1))
    BY <1>2 DEF getOffset
  <2> HIDE DEF m
  <2>3. SubSeq(kids, 1, m - 1) \in Seq(Names)
    BY <2>1, SubSeqProperties
  <2> QED
    BY <2>2, <2>3, SizeOfAllInNat
<1> QED
  BY <1>1, <1>2

\* No children have no size.
LEMMA SizeOfNone ==
  ASSUME NEW len, NEW es, es = <<>>
  PROVE  SizeOfAll(len, es) = 0
<1>1. Sizes(len, es) = <<>>
  BY EmptySeq DEF Sizes
<1> QED
  BY <1>1, TotalEmpty DEF SizeOfAll, Sizes

\* Children of the same sizes add up to the same.
LEMMA SizeOfAllSame ==
  ASSUME NEW a, NEW b, NEW es \in Seq(Names),
         \A k \in 1 .. Len(es) : SizeOf(a, es[k]) = SizeOf(b, es[k])
  PROVE  SizeOfAll(a, es) = SizeOfAll(b, es)
<1>1. DOMAIN es = 1 .. Len(es)
  BY LenProperties
<1>2. Sizes(a, es) = Sizes(b, es)
  BY <1>1 DEF Sizes
<1> QED
  BY <1>2 DEF SizeOfAll, Sizes

Cue == [time : Nat, position : Nat]

\* The cues of a clip.
LEMMA CuePointsAreSeq ==
  ASSUME clip \in Clips, clip.format \in cc_map, NEW o \in Nat
  PROVE  /\ num_cues \in Nat
         /\ CuePoints(o) \in Seq(Cue) /\ Len(CuePoints(o)) = num_cues
         /\ cluster_offset(o) \in Nat
         /\ \A i \in 1 .. num_cues : CuePoints(o)[i] =
              [time     |-> ((i - 1) * cluster_duration(clip) * CueEvery) % TimeMax,
               position |-> cluster_offset(o) + (i - 1) * cluster_size(clip) * CueEvery]
<1> DEFINE f == CuePoints(o)
           D == cluster_duration(clip)
           C == cluster_size(clip)
<1>1. num_clusters(clip) \in Nat /\ CueEvery \in Nat \ {0} /\ D \in Nat /\ C \in Nat
  BY ClipSizes, ConstantsAssumption, ClusterLastsLonger
<1>2. num_cues \in Nat
  BY <1>1, Z3 DEF num_cues
<1>3. num_cues * cue_size \in Nat
  BY <1>2, CueSize, ProductInNat
<1>4. cluster_offset(o) \in Nat
  BY <1>3, WidthOfNumbers DEF cluster_offset
<1>5. f = [i \in 1 .. num_cues |->
             [time |-> ((i - 1) * D * CueEvery) % TimeMax,
              position |-> cluster_offset(o) + (i - 1) * C * CueEvery]]
  BY DEF CuePoints
<1> HIDE DEF D, C, f
<1>6. ASSUME NEW i \in 1 .. num_cues
      PROVE  f[i] \in Cue
  <2>1. i - 1 \in Nat
    BY <1>2
  <2>2. (i - 1) * D \in Nat /\ (i - 1) * C \in Nat
    BY <1>1, <2>1, ProductInNat
  <2>3. (i - 1) * D * CueEvery \in Nat /\ (i - 1) * C * CueEvery \in Nat
    BY <1>1, <2>2, ProductInNat
  <2>4. cluster_offset(o) + (i - 1) * C * CueEvery \in Nat
    BY <1>4, <2>3
  <2>5. f[i] = [time |-> ((i - 1) * D * CueEvery) % TimeMax,
                position |-> cluster_offset(o) + (i - 1) * C * CueEvery]
    BY <1>5
  <2>6. TimeMax \in Nat \ {0}
    BY ConstantsAssumption
  <2>7. ((i - 1) * D * CueEvery) % TimeMax \in Nat
    BY <2>3, <2>6, Remainder
  <2> QED
    BY <2>4, <2>5, <2>7 DEF Cue
<1>7. f \in [1 .. num_cues -> Cue]
  BY <1>5, <1>6
<1>8. f \in Seq(Cue)
  BY <1>2, <1>7, SeqDef
<1>9. Len(f) = num_cues
  BY <1>2, <1>7, <1>8, LenProperties
<1> QED
  BY <1>2, <1>4, <1>5, <1>8, <1>9 DEF f, D, C

-----------------------------------------------------------------------------
(* The tree while it grows. *)

Types ==
  /\ clip \in Clips
  /\ pc \in {"lookup", "adding", "thrown"}
  /\ step \in 0 .. 30
  /\ children \in [Parents -> Seq(Names)]
  /\ length \in Lengths
  /\ cues \in Seq(Cue)
  /\ pc = "adding" => clip.format \in cc_map

\* What AddChild does, to parent p and child c.
LEMMA AddChildFacts ==
  ASSUME Types, AddChild,
         NEW p, p = Program[step + 1].parent, NEW c, c = Program[step + 1].child
  PROVE  /\ pc = "adding" /\ clip.format \in cc_map
         /\ step + 1 \in 1 .. 30 /\ step' = step + 1
         /\ clip' = clip /\ pc' = pc
         /\ p \in Parents /\ c \in Names /\ c # p /\ p # "Cues"
         /\ children' = [children EXCEPT ![p] = Append(@, c)]
         /\ children'[p] = Append(children[p], c) /\ children'[p] \in Seq(Names)
         /\ getOffset(children'[p], length, c) \in Nat
         /\ cues' = IF c = "Cues"
                    THEN cues \o CuePoints(getOffset(children'[p], length, c)) ELSE cues
         /\ cues' \in Seq(Cue)
         /\ length' \in Lengths
         /\ length'["Cues"] = Len(cues') * cue_size
         /\ \A e \in DOMAIN ID \ {p, "Cues"} : length'[e] = length[e]
         /\ p # "Master" => length'[p] = length[p] + SizeOf(length', c)
<1>1. pc = "adding" /\ clip.format \in cc_map
  BY DEF AddChild, Types
<1>2. step + 1 \in 1 .. 30 /\ step' = step + 1 /\ clip' = clip /\ pc' = pc
  BY Calls DEF AddChild, Types
<1>3. p \in Parents /\ c \in Names /\ c # p /\ p # "Cues"
  <2>1. c = p => LastCall[p] < step + 1 /\ step + 1 <= LastCall[p]
    BY <1>2, CallsInOrder
  <2>2. p \in Parents => LastCall[p] \in Int
    BY DEF Parents, LastCall
  <2>3. p \in Parents /\ c \in Names
    BY <1>2, CallsInOrder
  <2>4. "Cues" \notin Parents
    BY KnownNames
  <2> QED
    BY <1>2, <2>1, <2>2, <2>3, <2>4
<1>4. /\ children' = [children EXCEPT ![p] = Append(@, c)]
      /\ children'[p] = Append(children[p], c) /\ children'[p] \in Seq(Names)
  <2>1. children' = [children EXCEPT ![p] = Append(@, c)]
    BY DEF AddChild
  <2>2. Append(children[p], c) \in Seq(Names)
    BY <1>3, AppendProperties DEF Types
  <2> QED
    BY <1>3, <2>1, <2>2 DEF Types
<1>5. getOffset(children'[p], length, c) \in Nat
  BY <1>1, <1>3, <1>4, OffsetInNat DEF Types
<1>6. cues' = IF c = "Cues"
              THEN cues \o CuePoints(getOffset(children'[p], length, c)) ELSE cues
  BY DEF AddChild
<1>7. cues' \in Seq(Cue)
  <2>1. CuePoints(getOffset(children'[p], length, c)) \in Seq(Cue)
    BY <1>1, <1>5, CuePointsAreSeq DEF Types
  <2> QED
    BY <1>6, <2>1, ConcatProperties DEF Types
<1> DEFINE filled == [length EXCEPT !["Cues"] = Len(cues') * cue_size]
<1>8. Len(cues') * cue_size \in Nat
  BY <1>7, LenProperties, CueSize, ProductInNat
<1>9. /\ filled \in Lengths /\ filled["Cues"] = Len(cues') * cue_size
      /\ \A e \in DOMAIN ID \ {"Cues"} : filled[e] = length[e]
  BY <1>8, KnownNames DEF Types, Lengths
<1>10. length' = IF p = "Master" THEN filled
                 ELSE [filled EXCEPT ![p] = @ + SizeOf(filled, c)]
  BY DEF AddChild
<1> HIDE DEF filled
<1>11. SizeOf(filled, c) \in Nat
  BY <1>1, <1>3, <1>9, SizeInNat DEF Types
<1>12. p # "Master" => p \in DOMAIN ID
  BY <1>3, KnownNames
<1>13. /\ length' \in Lengths
       /\ \A e \in DOMAIN ID \ {p} : length'[e] = filled[e]
       /\ p # "Master" => length'[p] = filled[p] + SizeOf(filled, c)
  BY <1>9, <1>10, <1>11, <1>12 DEF Lengths
<1>14. SizeOf(length', c) = SizeOf(filled, c)
  BY <1>3, <1>13 DEF SizeOf, Names
<1>15. "Cues" \in DOMAIN ID
  BY KnownNames
<1> QED
  BY <1>1, <1>2, <1>3, <1>4, <1>5, <1>6, <1>7, <1>9, <1>12, <1>13, <1>14, <1>15

\* The tree keeps its types.
LEMMA TypesInvariant == Spec => []Types
<1>1. Init => Types
  <2> SUFFICES ASSUME Init
               PROVE  Types
    OBVIOUS
  <2>1. length \in Lengths
    BY FirstLengths DEF Init, Lengths
  <2>2. children \in [Parents -> Seq(Names)] /\ cues \in Seq(Cue)
    BY EmptySeq DEF Init
  <2> QED
    BY <2>1, <2>2 DEF Init, Types
<1>2. Types /\ [Next]_vars => Types'
  <2> SUFFICES ASSUME Types, [Next]_vars
               PROVE  Types'
    OBVIOUS
  <2>1. CASE Lookup
    BY <2>1 DEF Lookup, Types
  <2>2. CASE AddChild
    <3> DEFINE p == Program[step + 1].parent
               c == Program[step + 1].child
    <3>1. /\ step + 1 \in 1 .. 30 /\ step' = step + 1 /\ clip' = clip /\ pc' = pc
          /\ children' = [children EXCEPT ![p] = Append(@, c)]
          /\ children'[p] = Append(children[p], c) /\ children'[p] \in Seq(Names)
          /\ cues' \in Seq(Cue) /\ length' \in Lengths
      BY <2>2, AddChildFacts
    <3> HIDE DEF p, c
    <3>2. children' \in [Parents -> Seq(Names)]
      BY <3>1 DEF Types
    <3> QED
      BY <3>1, <3>2 DEF Types
  <2>3. CASE UNCHANGED vars
    BY <2>3 DEF vars, Types
  <2> QED
    BY <2>1, <2>2, <2>3 DEF Next
<1> QED
  BY <1>1, <1>2, PTL DEF Spec

\* The variables keep their types, and only clips with a fourcc get a tree
\* (stream.cpp:43-48).
THEOREM LayoutTypeInvariant == Spec => []TypeOK
<1>1. Types => TypeOK
  BY Calls DEF Types, TypeOK, Lengths, Names
<1> QED
  BY <1>1, TypesInvariant, PTL

\* The children of each node are those of its calls that were made, in order.
Filled ==
  \A p \in Parents :
    /\ Len(children[p]) = Given(p, step)
    /\ \A k \in 1 .. Given(p, step) : children[p][k] = Program[FirstCall[p] + k - 1].child

\* Every call adds the next child of its node.
LEMMA FilledInvariant == Spec => []Filled
<1>1. Init => Filled
  <2> SUFFICES ASSUME Init, NEW p \in Parents
               PROVE  Len(children[p]) = 0 /\ Given(p, step) = 0
    BY DEF Filled
  <2>1. step = 0 /\ children[p] = <<>>
    BY DEF Init
  <2> QED
    BY <2>1, GivenFacts, EmptySeq
<1>2. Types /\ Filled /\ [Next]_vars => Filled'
  <2> SUFFICES ASSUME Types, Filled, [Next]_vars
               PROVE  Filled'
    OBVIOUS
  <2>1. CASE UNCHANGED <<children, step>>
    BY <2>1 DEF Filled
  <2>2. CASE AddChild
    <3> DEFINE p == Program[step + 1].parent
               c == Program[step + 1].child
    <3>1. /\ step + 1 \in 1 .. 30 /\ step' = step + 1
          /\ p \in Parents /\ c \in Names
          /\ children' = [children EXCEPT ![p] = Append(@, c)]
      BY <2>2, AddChildFacts
    <3>2. step \in 0 .. 30 /\ step < 30
      BY <3>1 DEF Types
    <3> SUFFICES ASSUME NEW q \in Parents
                 PROVE  /\ Len(children'[q]) = Given(q, step + 1)
                        /\ \A k \in 1 .. Given(q, step + 1) :
                             children'[q][k] = Program[FirstCall[q] + k - 1].child
      BY <3>1 DEF Filled
    <3> DEFINE g == Given(q, step)
    <3>3. /\ children[q] \in Seq(Names) /\ Len(children[q]) = g /\ g \in Nat
          /\ \A k \in 1 .. g : children[q][k] = Program[FirstCall[q] + k - 1].child
      BY <3>2, GivenFacts DEF Types, Filled
    <3>4. CASE q # p
      <4>1. children'[q] = children[q]
        BY <3>1, <3>4 DEF Types
      <4>2. Given(q, step + 1) = g
        BY <3>2, <3>4, GivenFacts
      <4> QED
        BY <3>3, <4>1, <4>2
    <3>5. CASE q = p
      <4>1. children'[q] = Append(children[q], c)
        BY <3>1, <3>5 DEF Types
      <4>2. Given(q, step + 1) = g + 1 /\ FirstCall[q] + g = step + 1
        BY <3>2, <3>5, GivenFacts
      <4> HIDE DEF g
      <4>3. /\ Len(children'[q]) = g + 1
            /\ \A k \in 1 .. g : children'[q][k] = children[q][k]
            /\ children'[q][g + 1] = Program[FirstCall[q] + g].child
        BY <3>1, <3>3, <4>1, <4>2, AppendProperties
      <4>4. FirstCall[q] + (g + 1) - 1 = FirstCall[q] + g
        BY <3>3, CallsOfNode
      <4>5. \A k \in 1 .. g + 1 : children'[q][k] = Program[FirstCall[q] + k - 1].child
        <5> TAKE k \in 1 .. g + 1
        <5>1. k \in 1 .. g \/ k = g + 1
          BY <3>3
        <5> QED
          BY <3>3, <4>3, <4>4, <5>1
      <4> QED
        BY <4>2, <4>3, <4>5
    <3> QED
      BY <3>4, <3>5
  <2> QED
    BY <2>1, <2>2 DEF Next, Lookup, vars
<1> QED
  BY <1>1, <1>2, TypesInvariant, PTL DEF Spec

\* Each child comes from a call that was made.
LEMMA CallOfChild ==
  ASSUME Types, Filled, NEW p \in Parents, NEW k \in 1 .. Len(children[p])
  PROVE  \E j \in 1 .. 30 : /\ j <= step /\ Program[j].parent = p
                            /\ Program[j].child = children[p][k]
<1>1. step \in 0 .. 30 /\ k \in 1 .. Given(p, step)
  BY DEF Types, Filled
<1>2. /\ FirstCall[p] + k - 1 \in 1 .. 30 /\ FirstCall[p] + k - 1 <= step
      /\ Program[FirstCall[p] + k - 1].parent = p
  BY <1>1, GivenFacts
<1>3. Program[FirstCall[p] + k - 1].child = children[p][k]
  BY <1>1 DEF Filled
<1> QED
  BY <1>2, <1>3

\* The length in an element is the size of its children, after every call
\* (element.cpp:61-66).
THEOREM LengthsRightInvariant == Spec => []LengthsRight
<1>1. Init => LengthsRight
  <2> SUFFICES ASSUME Init
               PROVE  LengthsRight
    OBVIOUS
  <2>1. ASSUME NEW e \in DOMAIN ID, e \in Parents \cup {"Cues"}
        PROVE  length[e] = 0
    <3>1. length[e] = InitialLength(clip, e)
      BY DEF Init
    <3>2. e \notin DOMAIN FixedContent /\ e \notin DOMAIN Value(clip)
      BY <2>1 DEF FixedContent, Value, Parents
    <3> QED
      BY <3>1, <3>2 DEF InitialLength
  <2>2. ASSUME NEW p \in Parents \ {"Master"}
        PROVE  length[p] = SizeOfAll(length, children[p])
    <3>1. children[p] = <<>> /\ length[p] = 0
      BY <2>1, KnownNames DEF Init
    <3> QED
      BY <3>1, SizeOfNone
  <2>3. length["Cues"] = 0 /\ Len(cues) = 0 /\ cue_size \in Nat
    BY <2>1, KnownNames, CueSize, EmptySeq DEF Init
  <2> QED
    BY <2>2, <2>3 DEF LengthsRight
<1>2. Types /\ Filled /\ LengthsRight /\ [Next]_vars => LengthsRight'
  <2> SUFFICES ASSUME Types, Filled, LengthsRight, [Next]_vars
               PROVE  LengthsRight'
    OBVIOUS
  <2>1. ASSUME UNCHANGED <<clip, children, length, cues>>
        PROVE  LengthsRight'
    BY <2>1 DEF LengthsRight, SizeOfAll, SizeOf
  <2>2. CASE AddChild
    <3> DEFINE p == Program[step + 1].parent
               c == Program[step + 1].child
    <3>1. /\ step + 1 \in 1 .. 30 /\ clip' = clip
          /\ p \in Parents /\ c \in Names /\ c # p /\ p # "Cues"
          /\ children' = [children EXCEPT ![p] = Append(@, c)]
          /\ cues' = IF c = "Cues"
                     THEN cues \o CuePoints(getOffset(children'[p], length, c)) ELSE cues
          /\ length'["Cues"] = Len(cues') * cue_size
          /\ \A e \in DOMAIN ID \ {p, "Cues"} : length'[e] = length[e]
          /\ p # "Master" => length'[p] = length[p] + SizeOf(length', c)
      BY <2>2, AddChildFacts, SMTT(30)
    <3>2. ASSUME NEW q \in Parents, NEW k \in 1 .. Len(children[q])
          PROVE  SizeOf(length', children[q][k]) = SizeOf(length, children[q][k])
      <4> DEFINE e == children[q][k]
      <4>1. PICK j \in 1 .. 30 : j <= step /\ Program[j].parent = q /\ Program[j].child = e
        BY <3>2, CallOfChild
      <4>2. j < step + 1 /\ step + 1 \in Int
        BY <4>1 DEF Types
      <4>3. e \in Names
        BY <4>1, <4>2, CallsInOrder
      <4>4. e # p
        <5>1. e = p => LastCall[p] < j /\ step + 1 <= LastCall[p]
          BY <3>1, <4>1, CallsInOrder
        <5>2. LastCall[p] \in Int
          BY <3>1 DEF Parents, LastCall
        <5> QED
          BY <4>1, <4>2, <5>1, <5>2
      <4>5. e = "Cues" => length'[e] = length[e]
        <5>1. e = "Cues" => j = 27
          BY <4>1, <4>2, CallsInOrder
        <5>2. c = "Cues" => step + 1 = 27
          BY <3>1, CallsInOrder
        <5>3. e = "Cues" => cues' = cues
          BY <3>1, <4>2, <5>1, <5>2
        <5> QED
          BY <3>1, <5>3 DEF LengthsRight
      <4> HIDE DEF e
      <4>6. e # "Clusters" => length'[e] = length[e]
        BY <3>1, <4>3, <4>4, <4>5 DEF Names
      <4> QED
        BY <4>6 DEF SizeOf, e
    <3>3. ASSUME NEW q \in Parents
          PROVE  /\ children[q] \in Seq(Names)
                 /\ SizeOfAll(length', children[q]) = SizeOfAll(length, children[q])
      <4>1. children[q] \in Seq(Names)
        BY DEF Types
      <4> QED
        BY <3>2, <4>1, SizeOfAllSame
    <3>4. ASSUME NEW q \in Parents \ {"Master"}
          PROVE  length'[q] = SizeOfAll(length', children'[q])
      <4>1. CASE q # p
        <5>1. children'[q] = children[q]
          BY <3>1, <4>1 DEF Types
        <5>2. length'[q] = length[q]
          BY <3>1, <4>1, KnownNames
        <5> QED
          BY <3>3, <5>1, <5>2 DEF LengthsRight
      <4>2. CASE q = p
        <5>1. children'[q] = Append(children[q], c)
          BY <3>1, <4>2 DEF Types
        <5>2. SizeOfAll(length', children'[q]) = SizeOfAll(length', children[q]) + SizeOf(length', c)
          BY <3>1, <3>3, <5>1, SizeOfAllAppend
        <5>3. length'[q] = length[q] + SizeOf(length', c)
          BY <3>1, <4>2
        <5> QED
          BY <3>3, <5>2, <5>3 DEF LengthsRight
      <4> QED
        BY <4>1, <4>2
    <3>5. ASSUME NEW q \in Parents \ {"Master"}
          PROVE  length'[q] = SizeOfAll(length, children[q])'
      <4>1. SizeOfAll(length, children[q])' = SizeOfAll(length', children'[q])
        BY <3>1 DEF SizeOfAll, SizeOf
      <4> QED
        BY <3>4, <4>1
    <3> QED
      BY <3>1, <3>5 DEF LengthsRight
  <2> QED
    BY <2>1, <2>2 DEF Next, Lookup, vars
<1> QED
  BY <1>1, <1>2, TypesInvariant, FilledInvariant, PTL DEF Spec

\* Each frame comes one frame's duration after the one before, as long as 16
\* bits hold the times in a cluster, and 4 bytes those of the clip
\* (clusterlist.cpp:148,173).
THEOREM FramesInOrderInvariant == Spec => []FramesInOrder
<1>1. Types => FramesInOrder
  <2> DEFINE d == millis(clip)
  <2> SUFFICES ASSUME Types, d < TimecodeMax, (BlocksPerCluster - 1) * d < TimecodeMax,
                      clip.numFrames * d <= TimeMax, NEW k \in Frames \ {0}
               PROVE  FrameTime(k) - FrameTime(k - 1) = d
    BY DEF FramesInOrder
  <2>1. clip \in Clips /\ clip.numFrames \in Nat
    BY ClipsAssumption DEF Types
  <2>2. k \in Nat /\ k - 1 \in Nat /\ k < clip.numFrames
    BY <2>1 DEF Frames
  <2>3. d \in Nat /\ frame_duration(clip) = d
    BY <2>1, FrameLasts
  <2>4. TimeMax \in Nat \ {0}
    BY ConstantsAssumption
  <2> HIDE DEF d
  <2>5. k * d = (k - 1) * d + d /\ (k - 1) * d \in Nat /\ k * d \in Nat
    BY <2>2, <2>3, ProductInNat
  <2>6. k * d < TimeMax
    <3>1. CASE d = 0
      BY <2>2, <2>4, <3>1
    <3>2. CASE d # 0
      <4>1. k + 1 \in Nat /\ k + 1 <= clip.numFrames
        BY <2>1, <2>2
      <4>2. (k + 1) * d <= clip.numFrames * d
        BY <2>1, <2>3, <4>1, ProductMonotone
      <4>3. (k + 1) * d = k * d + d /\ clip.numFrames * d \in Nat
        BY <2>1, <2>2, <2>3, ProductInNat
      <4> QED
        BY <2>3, <2>4, <2>5, <3>2, <4>2, <4>3
    <3> QED
      BY <3>1, <3>2
  <2>7. (k - 1) * d < TimeMax
    BY <2>3, <2>4, <2>5, <2>6
  <2>8. FrameTime(k) = k * d /\ FrameTime(k - 1) = (k - 1) * d
    BY <2>1, <2>2, <2>3, <2>6, <2>7, TimeOfFrame
  <2> QED
    BY <2>3, <2>5, <2>8
<1> QED
  BY <1>1, TypesInvariant, PTL

-----------------------------------------------------------------------------
(* Offsets in the segment, and the cues. *)

\* A child begins where those before it end.
LEMMA OffsetOfChild ==
  ASSUME NEW len, NEW kids \in Seq(Names), NEW n \in 1 .. Len(kids),
         \A i \in 1 .. Len(kids) : kids[i] = kids[n] => i = n
  PROVE  getOffset(kids, len, kids[n]) = SizeOfAll(len, SubSeq(kids, 1, n - 1))
<1> DEFINE position == {i \in DOMAIN kids : kids[i] = kids[n]}
<1>1. DOMAIN kids = 1 .. Len(kids)
  BY LenProperties
<1>2. position = {n}
  BY <1>1
<1>3. (CHOOSE i \in position : TRUE) = n
  BY <1>2
<1> QED
  BY <1>2, <1>3 DEF getOffset

\* The first n children are as large as the first n - 1 and the n-th.
LEMMA SizeOfFirst ==
  ASSUME NEW len, NEW kids \in Seq(Names), NEW n \in 1 .. Len(kids)
  PROVE  SizeOfAll(len, SubSeq(kids, 1, n)) =
           SizeOfAll(len, SubSeq(kids, 1, n - 1)) + SizeOf(len, kids[n])
<1> DEFINE a == SubSeq(kids, 1, n)
           b == SubSeq(kids, 1, n - 1)
           c == Append(b, kids[n])
<1>1. Len(kids) \in Nat /\ \A i \in 1 .. Len(kids) : kids[i] \in Names
  BY LenProperties, ElementOfSeq
<1>2. /\ a \in Seq(Names) /\ Len(a) = n
      /\ \A i \in 1 .. n : a[i] = kids[i]
  BY <1>1, SubSeqProperties
<1>3. /\ b \in Seq(Names) /\ Len(b) = n - 1
      /\ \A i \in 1 .. n - 1 : b[i] = kids[i]
  <2>1. \A i \in 1 .. n - 1 : kids[i] \in Names
    BY <1>1
  <2> QED
    BY <1>1, <2>1, SubSeqProperties
<1> HIDE DEF a, b
<1>4. /\ c \in Seq(Names) /\ Len(c) = n
      /\ \A i \in 1 .. n - 1 : c[i] = kids[i]
      /\ c[n] = kids[n]
  BY <1>1, <1>3, AppendProperties
<1> HIDE DEF c
<1>5. \A i \in 1 .. n : a[i] = c[i]
  BY <1>2, <1>4
<1>6. a = c
  BY <1>2, <1>4, <1>5, SeqEqual
<1>7. SizeOfAll(len, c) = SizeOfAll(len, b) + SizeOf(len, kids[n])
  BY <1>1, <1>3, SizeOfAllAppend DEF c
<1> QED
  BY <1>6, <1>7 DEF a, b

\* The children of the segment, and where they begin, for any lengths.
LEMMA SegmentOffsets ==
  ASSUME clip \in Clips, clip.format \in cc_map, NEW len \in Lengths, NEW kids \in Seq(Names),
         Len(kids) \in {3, 4}, kids[1] = "Info", kids[2] = "Tracks", kids[3] = "Cues",
         Len(kids) = 4 => kids[4] = "Clusters"
  PROVE  /\ getOffset(kids, len, "Info") = 0
         /\ getOffset(kids, len, "Tracks") = SizeOf(len, "Info")
         /\ getOffset(kids, len, "Cues") = SizeOf(len, "Info") + SizeOf(len, "Tracks")
         /\ Len(kids) = 4 => getOffset(kids, len, "Clusters") =
              SizeOf(len, "Info") + SizeOf(len, "Tracks") + SizeOf(len, "Cues")
<1> DEFINE first(n) == SizeOfAll(len, SubSeq(kids, 1, n))
<1>1. SubSeq(kids, 1, 0) = <<>>
  BY SubSeqEmpty
<1>2. first(0) = 0
  BY <1>1, SizeOfNone
<1>3. \A n \in 1 .. Len(kids) : first(n) = first(n - 1) + SizeOf(len, kids[n])
  BY SizeOfFirst
<1>4. \A n \in 1 .. Len(kids) : getOffset(kids, len, kids[n]) = first(n - 1)
  <2> TAKE n \in 1 .. Len(kids)
  <2>1. \A i \in 1 .. Len(kids) : kids[i] = kids[n] => i = n
    OBVIOUS
  <2> QED
    BY <2>1, OffsetOfChild
<1>5. /\ SizeOf(len, "Info") \in Nat /\ SizeOf(len, "Tracks") \in Nat
      /\ SizeOf(len, "Cues") \in Nat
  BY SizeInNat, KnownNames DEF Names
<1> HIDE DEF first
<1>6. /\ 1 - 1 = 0 /\ 2 - 1 = 1 /\ 3 - 1 = 2 /\ 4 - 1 = 3
      /\ 1 \in 1 .. Len(kids) /\ 2 \in 1 .. Len(kids) /\ 3 \in 1 .. Len(kids)
      /\ Len(kids) = 4 => 4 \in 1 .. Len(kids)
  OBVIOUS
<1>7. first(1) = SizeOf(len, "Info")
  BY <1>2, <1>3, <1>5, <1>6
<1>8. first(2) = SizeOf(len, "Info") + SizeOf(len, "Tracks")
  BY <1>3, <1>6, <1>7
<1>9. first(3) = SizeOf(len, "Info") + SizeOf(len, "Tracks") + SizeOf(len, "Cues")
  BY <1>3, <1>6, <1>8
<1> QED
  BY <1>2, <1>4, <1>6, <1>7, <1>8, <1>9

\* The ID of the cues has four bytes.
LEMMA CuesHeader == VintSize(ID["Cues"]) = 4
BY SMT DEF VintSize, Digits, ID

\* The calls for the segment.
LEMMA SegmentCallsAre ==
  /\ Program[25].child = "Info" /\ Program[26].child = "Tracks"
  /\ Program[27].child = "Cues" /\ Program[28].child = "Clusters"
  /\ FirstCall["Segment"] = 25 /\ LastCall["Segment"] = 28
BY DEF Program, HeadCalls, InfoCalls, VideoCalls, EntryCalls, TracksCalls,
       SegmentCalls, MasterCalls, calls, FirstCall, LastCall

\* What the segment consists of when the cues are added to it, and after that.
LEMMA SegmentChildren ==
  ASSUME Types, Filled, step >= 26
  PROVE  /\ children["Segment"] \in Seq(Names)
         /\ Len(children["Segment"]) = IF step > 28 THEN 4 ELSE step - 24
         /\ children["Segment"][1] = "Info" /\ children["Segment"][2] = "Tracks"
         /\ step >= 27 => children["Segment"][3] = "Cues"
         /\ step >= 28 => children["Segment"][4] = "Clusters"
<1> DEFINE kids == children["Segment"]
           g == Given("Segment", step)
<1>1. "Segment" \in Parents /\ step \in 0 .. 30
  BY KnownNames DEF Types
<1>2. g = IF step > 28 THEN 4 ELSE step - 24
  BY <1>1, SegmentCallsAre DEF Given
<1>3. /\ kids \in Seq(Names) /\ Len(kids) = g
      /\ \A k \in 1 .. g : kids[k] = Program[25 + k - 1].child
  BY <1>1, SegmentCallsAre DEF Types, Filled
<1> HIDE DEF kids, g
<1>4. /\ 25 + 1 - 1 = 25 /\ 25 + 2 - 1 = 26 /\ 25 + 3 - 1 = 27 /\ 25 + 4 - 1 = 28
      /\ 1 \in 1 .. g /\ 2 \in 1 .. g
      /\ step >= 27 => 3 \in 1 .. g
      /\ step >= 28 => 4 \in 1 .. g
  BY <1>1, <1>2
<1>5. kids[1] = "Info" /\ kids[2] = "Tracks"
  BY <1>3, <1>4, SegmentCallsAre
<1>6. /\ step >= 27 => kids[3] = "Cues"
      /\ step >= 28 => kids[4] = "Clusters"
  BY <1>3, <1>4, SegmentCallsAre
<1> QED
  BY <1>2, <1>3, <1>5, <1>6 DEF kids

\* The cues are those of a segment in which only the info and the tracks come
\* before them, with the sizes these keep.
CuesInPlace ==
  IF step < 27 THEN cues = <<>>
  ELSE cues = CuePoints(SizeOf(length, "Info") + SizeOf(length, "Tracks"))

\* When the cues are added, what comes before them is complete.
LEMMA CuesInPlaceInvariant == Spec => []CuesInPlace
<1>1. Init => CuesInPlace
  BY DEF Init, CuesInPlace
<1>2. Types /\ Filled /\ CuesInPlace /\ [Next]_vars => CuesInPlace'
  <2> SUFFICES ASSUME Types, Filled, CuesInPlace, [Next]_vars
               PROVE  CuesInPlace'
    OBVIOUS
  <2>1. ASSUME clip' = clip, length'["Info"] = length["Info"],
               length'["Tracks"] = length["Tracks"]
        PROVE  CuePoints(SizeOf(length, "Info") + SizeOf(length, "Tracks"))'
                 = CuePoints(SizeOf(length, "Info") + SizeOf(length, "Tracks"))
    BY <2>1 DEF CuePoints, cluster_offset, num_cues, SizeOf
  <2>2. CASE UNCHANGED <<clip, step, length, cues>>
    BY <2>1, <2>2 DEF CuesInPlace
  <2>3. CASE AddChild
    <3> SUFFICES ASSUME NEW p, p = Program[step + 1].parent,
                        NEW c, c = Program[step + 1].child
                 PROVE  CuesInPlace'
      OBVIOUS
    <3> DEFINE o == SizeOf(length, "Info") + SizeOf(length, "Tracks")
    <3>1. /\ clip.format \in cc_map
          /\ step + 1 \in 1 .. 30 /\ step' = step + 1 /\ clip' = clip
          /\ p \in Parents /\ c \in Names
          /\ children'[p] = Append(children[p], c) /\ children'[p] \in Seq(Names)
          /\ cues' = IF c = "Cues"
                     THEN cues \o CuePoints(getOffset(children'[p], length, c)) ELSE cues
          /\ \A e \in DOMAIN ID \ {p, "Cues"} : length'[e] = length[e]
      BY <2>3, AddChildFacts
    <3>2. /\ c = "Cues" <=> step + 1 = 27
          /\ p = "Segment" <=> 25 <= step + 1 /\ step + 1 <= 28
      <4>1. c = "Cues" <=> step + 1 = 27
        BY <3>1, CallsInOrder
      <4>2. p = "Segment" <=> 25 <= step + 1 /\ step + 1 <= 28
        BY <3>1, CallsOfNode, SegmentCallsAre, KnownNames
      <4> QED
        BY <3>1, <4>1, <4>2
    <3>3. step \in 0 .. 30 /\ clip \in Clips /\ length \in Lengths
      BY DEF Types
    <3>4. ASSUME step >= 26
          PROVE  length'["Info"] = length["Info"] /\ length'["Tracks"] = length["Tracks"]
      <4>1. p # "Info" /\ p # "Tracks"
        <5>1. LastCall["Info"] = 10 /\ LastCall["Tracks"] = 24 /\ step + 1 <= LastCall[p]
          BY <3>1, CallsInOrder DEF LastCall
        <5> QED
          BY <3>3, <3>4, <5>1
      <4>2. "Info" \in DOMAIN ID /\ "Tracks" \in DOMAIN ID
        BY KnownNames
      <4> QED
        BY <3>1, <4>1, <4>2
    <3>5. CASE step + 1 < 27
      BY <3>1, <3>2, <3>3, <3>5 DEF CuesInPlace
    <3>6. CASE step + 1 = 27
      <4> DEFINE kids == children["Segment"]
                 more == Append(kids, c)
      <4>1. c = "Cues" /\ p = "Segment" /\ step = 26
        BY <3>2, <3>3, <3>6
      <4>2. /\ kids \in Seq(Names) /\ Len(kids) = 2
            /\ kids[1] = "Info" /\ kids[2] = "Tracks"
        BY <4>1, SegmentChildren
      <4>3. children'["Segment"] = more
        BY <3>1, <4>1
      <4>4. cues = <<>>
        BY <4>1 DEF CuesInPlace
      <4> HIDE DEF kids
      <4>5. /\ more \in Seq(Names) /\ Len(more) = 3
            /\ more[1] = "Info" /\ more[2] = "Tracks" /\ more[3] = "Cues"
        <5>1. c \in Names /\ kids \in Seq(Names)
          BY <3>1, <4>2
        <5>2. /\ more \in Seq(Names) /\ Len(more) = Len(kids) + 1
              /\ \A k \in 1 .. Len(kids) : more[k] = kids[k]
              /\ more[Len(kids) + 1] = c
          BY <5>1, AppendProperties, LenProperties
        <5>3. 1 \in 1 .. Len(kids) /\ 2 \in 1 .. Len(kids) /\ Len(kids) + 1 = 3
          BY <4>2
        <5> QED
          BY <4>1, <4>2, <5>2, <5>3
      <4> HIDE DEF more
      <4>6. getOffset(more, length, "Cues") = o
        BY <3>1, <3>3, <4>5, SegmentOffsets, SMTT(30)
      <4>7. o \in Nat
        BY <3>1, <3>3, SizeInNat, KnownNames DEF Names
      <4>8. CuePoints(o) \in Seq(Cue)
        BY <3>1, <3>3, <4>7, CuePointsAreSeq
      <4>9. cues' = <<>> \o CuePoints(o)
        BY <3>1, <4>1, <4>3, <4>4, <4>6
      <4>10. cues' = CuePoints(o)
        BY <4>8, <4>9, ConcatEmptySeq
      <4>11. CuePoints(SizeOf(length, "Info") + SizeOf(length, "Tracks"))' = CuePoints(o)
        BY <2>1, <3>1, <3>4, <4>1
      <4> HIDE DEF o
      <4>12. step' = 27
        BY <3>1, <4>1
      <4> QED
        BY <4>10, <4>11, <4>12 DEF CuesInPlace
    <3>7. CASE step + 1 > 27
      <4>1. step >= 27 /\ cues' = cues
        BY <3>1, <3>2, <3>3, <3>7
      <4>2. cues = CuePoints(o)
        BY <3>3, <4>1 DEF CuesInPlace
      <4>3. CuePoints(SizeOf(length, "Info") + SizeOf(length, "Tracks"))' = CuePoints(o)
        BY <2>1, <3>1, <3>3, <3>4, <4>1
      <4> HIDE DEF o
      <4>4. ~(step' < 27)
        BY <3>1, <3>3, <4>1
      <4> QED
        BY <4>1, <4>2, <4>3, <4>4 DEF CuesInPlace
    <3> QED
      BY <3>3, <3>5, <3>6, <3>7
  <2> QED
    BY <2>2, <2>3 DEF Next, Lookup, vars
<1> QED
  BY <1>1, <1>2, TypesInvariant, FilledInvariant, PTL DEF Spec

\* In a finished file, the i-th cue has time and position of its cluster.
LEMMA CueOfCluster ==
  ASSUME Types, Filled, LengthsRight, CuesInPlace, Done, NEW i \in DOMAIN cues,
         NEW n, n = (i - 1) * CueEvery
  PROVE  /\ n \in Nat /\ n < num_clusters(clip)
         /\ ClustersAt \in Nat
         /\ cues[i].time = (n * cluster_duration(clip)) % TimeMax
         /\ num_cues \in Nat /\ i \in 1 .. num_cues
         /\ cues[i].position = ClustersAt + n * cluster_size(clip)
<1> DEFINE o == SizeOf(length, "Info") + SizeOf(length, "Tracks")
           C == num_clusters(clip)
           E == CueEvery
           D == cluster_duration(clip)
           S == cluster_size(clip)
           L == num_cues * cue_size
<1>1. /\ clip \in Clips /\ clip.format \in cc_map /\ step = 30 /\ length \in Lengths
  BY Calls DEF Done, Types
<1>2. /\ C \in Nat /\ E \in Nat \ {0} /\ D \in Nat /\ S \in Nat
  BY <1>1, ClipSizes, ClusterLastsLonger, ConstantsAssumption
<1>3. o \in Nat
  BY <1>1, SizeInNat, KnownNames DEF Names
<1>4. cues = CuePoints(o)
  BY <1>1 DEF CuesInPlace
<1> HIDE DEF o
<1>5. /\ num_cues \in Nat /\ Len(cues) = num_cues /\ DOMAIN cues = 1 .. num_cues
      /\ cluster_offset(o) \in Nat
      /\ cues[i] = [time     |-> ((i - 1) * D * E) % TimeMax,
                    position |-> cluster_offset(o) + (i - 1) * S * E]
  <2>1. /\ num_cues \in Nat /\ cues \in Seq(Cue) /\ Len(cues) = num_cues
        /\ cluster_offset(o) \in Nat
        /\ \A m \in 1 .. num_cues : cues[m] =
             [time |-> ((m - 1) * D * E) % TimeMax, position |-> cluster_offset(o) + (m - 1) * S * E]
    BY <1>1, <1>3, <1>4, CuePointsAreSeq
  <2>2. DOMAIN cues = 1 .. num_cues
    BY <2>1, LenProperties
  <2> QED
    BY <2>1, <2>2
<1>6. num_cues = C \div E
  BY DEF num_cues
<1>7. ClustersAt = o + SizeOf(length, "Cues")
  <2>1. /\ children["Segment"] \in Seq(Names) /\ Len(children["Segment"]) = 4
        /\ children["Segment"][1] = "Info" /\ children["Segment"][2] = "Tracks"
        /\ children["Segment"][3] = "Cues" /\ children["Segment"][4] = "Clusters"
    BY <1>1, SegmentChildren
  <2> QED
    BY <1>1, <2>1, SegmentOffsets DEF ClustersAt, o
<1>8. SizeOf(length, "Cues") = 4 + VintSize(L) + L
  <2>1. length["Cues"] = L
    BY <1>5 DEF LengthsRight
  <2> QED
    BY <2>1, CuesHeader DEF SizeOf, Encoded
<1>9. L \in Nat
  BY <1>5, CueSize, ProductInNat
<1>10. VintSize(L) \in Nat
  BY <1>9, WidthOfNumbers
<1>11. cluster_offset(o) = o + 4 + VintSize(L) + L
  BY DEF cluster_offset
<1> HIDE DEF C, E, D, S, L
<1>12. ClustersAt = cluster_offset(o)
  BY <1>3, <1>7, <1>8, <1>9, <1>10, <1>11
<1>13. i - 1 \in Nat /\ i - 1 <= num_cues - 1 /\ num_cues - 1 \in Nat /\ n = (i - 1) * E
  BY <1>5 DEF E
<1>14. n \in Nat
  BY <1>2, <1>13, ProductInNat
<1>15. (i - 1) * D * E = n * D /\ (i - 1) * S * E = n * S
  BY <1>2, <1>13
<1>16. n < C
  <2>1. (i - 1) * E <= (num_cues - 1) * E
    BY <1>2, <1>13, ProductMonotone
  <2>2. num_cues * E <= C
    BY <1>2, <1>6, Z3
  <2>3. (num_cues - 1) * E = num_cues * E - E /\ num_cues * E \in Nat
        /\ (num_cues - 1) * E \in Nat
    BY <1>2, <1>5, <1>13, ProductInNat
  <2> QED
    BY <1>2, <1>13, <1>14, <2>1, <2>2, <2>3
<1>17. num_cues \in Nat /\ i \in 1 .. num_cues
  BY <1>5
<1> QED
  BY <1>5, <1>12, <1>14, <1>15, <1>16, <1>17 DEF C, D, S

\* Each cue points at the first byte of the cluster it is for
\* (cues.cpp:69-83, clusterlist.cpp:70-96).
THEOREM CuesRightInvariant == Spec => []CuesRight
<1>1. Types /\ Filled /\ LengthsRight /\ CuesInPlace => CuesRight
  BY CueOfCluster DEF CuesRight
<1> QED
  BY <1>1, TypesInvariant, FilledInvariant, LengthsRightInvariant, CuesInPlaceInvariant, PTL

\* The cue a player takes is never for a cluster behind the frame's, although
\* the times of cues and frames are rounded differently, where clusters last, the
\* duration of a frame is not cut off to a negative one, and 4 bytes hold the
\* times of the cues (cues.cpp:86, clusterlist.h:48, clusterlist.cpp:148).
THEOREM SeekNeverOvershootsInvariant == Spec => []SeekNeverOvershoots
<1>1. Types /\ Filled /\ LengthsRight /\ CuesInPlace => SeekNeverOvershoots
  <2> SUFFICES ASSUME Types, Filled, LengthsRight, CuesInPlace, Done,
                      cluster_duration(clip) > 0, frame_duration(clip) >= 0,
                      num_cues * CueEvery * cluster_duration(clip) <= TimeMax,
                      NEW i \in DOMAIN cues, NEW k \in Frames, cues[i].time <= FrameTime(k)
               PROVE  ClusterOf(cues[i].position) <= k \div BlocksPerCluster
    BY DEF SeekNeverOvershoots
  <2> DEFINE n == (i - 1) * CueEvery
             S == cluster_size(clip)
             D == cluster_duration(clip)
  <2>1. /\ n \in Nat /\ ClustersAt \in Nat
        /\ cues[i].time = (n * D) % TimeMax /\ num_cues \in Nat /\ i \in 1 .. num_cues
        /\ cues[i].position = ClustersAt + n * S
    BY CueOfCluster
  <2>2. clip \in Clips /\ clip.format \in cc_map /\ S \in Nat \ {0}
    BY ClipSizes DEF Types, Done
  <2>3. k \in Nat
    BY <2>2, ClipsAssumption DEF Frames
  <2>8. n * D < TimeMax
    <3>1. CueEvery \in Nat \ {0} /\ D \in Nat \ {0} /\ TimeMax \in Nat
      BY <2>2, ConstantsAssumption, ClusterLastsLonger
    <3> HIDE DEF D
    <3>2. num_cues \in Nat /\ i \in Nat /\ i - 1 \in Nat /\ i <= num_cues
      BY <2>1
    <3> DEFINE a == num_cues * CueEvery
    <3>3. i * CueEvery <= a /\ a \in Nat /\ i * CueEvery \in Nat
      BY <3>1, <3>2, ProductMonotone, ProductInNat
    <3>4. i * CueEvery = n + CueEvery
      BY <3>1, <3>2
    <3> HIDE DEF n, a
    <3>5. (n + CueEvery) * D <= a * D /\ n + CueEvery \in Nat
      BY <2>1, <3>1, <3>3, <3>4, ProductMonotone
    <3>6. (n + CueEvery) * D = n * D + CueEvery * D
      BY <2>1, <3>1
    <3>7. n * D \in Nat /\ CueEvery * D \in Nat /\ a * D \in Nat
      BY <2>1, <3>1, <3>3, ProductInNat
    <3>9. CueEvery * D # 0
      BY <3>1, <3>7, ProductMonotone
    <3>8. a * D <= TimeMax
      BY DEF a, D
    <3> QED
      BY <3>1, <3>5, <3>6, <3>7, <3>8, <3>9
  <2>9. cues[i].time = n * D
    <3>1. D \in Nat /\ TimeMax \in Nat \ {0}
      BY <2>2, ConstantsAssumption, ClusterLastsLonger
    <3> HIDE DEF D, n
    <3>2. n * D \in Nat
      BY <2>1, <3>1, ProductInNat
    <3> QED
      BY <2>1, <2>8, <3>1, <3>2, Remainder
  <2> HIDE DEF n
  <2>4. n <= k \div BlocksPerCluster
    BY <2>1, <2>2, <2>3, <2>9, CueBeforeFrame
  <2>5. ClusterOf(cues[i].position) = (cues[i].position - ClustersAt) \div S
    BY DEF ClusterOf
  <2> HIDE DEF S
  <2>6. cues[i].position - ClustersAt = S * n + 0 /\ 0 \in 0 .. S - 1
    <3>1. S * n = n * S /\ S * n \in Nat
      BY <2>1, <2>2, ProductInNat
    <3> QED
      BY <2>1, <2>2, <3>1
  <2>7. (S * n + 0) \div S = n
    BY <2>1, <2>2, <2>6, Quotient
  <2> QED
    BY <2>4, <2>5, <2>6, <2>7
<1> QED
  BY <1>1, TypesInvariant, FilledInvariant, LengthsRightInvariant, CuesInPlaceInvariant, PTL

-----------------------------------------------------------------------------
(* The head of the file. *)

Leaves == DOMAIN ID \ (Parents \cup {"Cues"})

\* No leaf has more than 14 bytes of content.
LeavesShort == \A e \in Leaves : length[e] <= 14

\* Leaves keep the length their constructor gave them.
LEMMA LeavesShortInvariant == Spec => []LeavesShort
<1>1. Init => LeavesShort
  <2> SUFFICES ASSUME Init, NEW e \in Leaves
               PROVE  InitialLength(clip, e) <= 14
    BY DEF Init, LeavesShort, Leaves
  <2>1. e \in DOMAIN FixedContent => FixedContent[e] <= 14
    BY DEF FixedContent
  <2>2. e \in DOMAIN Value(clip) => Value(clip)[e] \in Nat
    <3>1. clip \in Clips
      BY DEF Init
    <3>2. PerFrame(clip, 1000000000) \in Nat /\ clip.width \in Nat /\ clip.height \in Nat
      BY <3>1, RoundedDown, ClipsAssumption
    <3> QED
      BY <3>2 DEF Value
  <2>3. e \in DOMAIN Value(clip) => IntSize(Value(clip)[e]) <= 14
    BY <2>2, WidthOfNumbers
  <2> QED
    BY <2>1, <2>3 DEF InitialLength
<1>2. Types /\ LeavesShort /\ [Next]_vars => LeavesShort'
  <2> SUFFICES ASSUME Types, LeavesShort, [Next]_vars
               PROVE  LeavesShort'
    OBVIOUS
  <2>1. CASE AddChild
    <3> SUFFICES ASSUME NEW p, p = Program[step + 1].parent,
                        NEW c, c = Program[step + 1].child
                 PROVE  LeavesShort'
      OBVIOUS
    <3>1. /\ p \in Parents
          /\ \A e \in DOMAIN ID \ {p, "Cues"} : length'[e] = length[e]
      BY <2>1, AddChildFacts, SMTT(30)
    <3> QED
      BY <3>1 DEF LeavesShort, Leaves
  <2>2. CASE UNCHANGED length
    BY <2>2 DEF LeavesShort
  <2> QED
    BY <2>1, <2>2 DEF Next, Lookup, vars
<1> QED
  BY <1>1, <1>2, TypesInvariant, PTL DEF Spec

\* What the parents in front of the cues consist of.
LEMMA ChildrenOfHead ==
  ASSUME NEW i \in 1 .. 30
  PROVE  /\ Program[i].parent \in {"EBMLHead", "Info", "TrackVideo"} =>
              Program[i].child \in Leaves
         /\ Program[i].parent = "TrackEntry" => Program[i].child \in Leaves \cup {"TrackVideo"}
         /\ Program[i].parent = "Tracks" => Program[i].child = "TrackEntry"
<1> DEFINE small == {"EBMLVersion", "EBMLReadVersion", "EBMLMaxIDLength",
                     "EBMLMaxSizeLength", "DocType", "DocTypeVersion", "DocTypeReadVersion",
                     "TimecodeScale", "MuxingApp", "WritingApp", "VideoFPS",
                     "VideoPixelWidth", "VideoPixelHeight", "VideoDisplayWidth",
                     "VideoDisplayHeight", "VideoColorSpace", "TrackNumber", "TrackUID",
                     "TrackType", "TrackMinCache", "CodecID", "TrackDefaultDuration"}
<1>1. Program[i].parent \in {"EBMLHead", "Info", "TrackVideo"} =>
        Program[i].child \in small
  BY SMT DEF Program, HeadCalls, InfoCalls, VideoCalls, EntryCalls, TracksCalls,
     SegmentCalls, MasterCalls, calls
<1>2. Program[i].parent = "TrackEntry" => Program[i].child \in small \cup {"TrackVideo"}
  BY SMT DEF Program, HeadCalls, InfoCalls, VideoCalls, EntryCalls, TracksCalls,
     SegmentCalls, MasterCalls, calls
<1>3. Program[i].parent = "Tracks" => Program[i].child = "TrackEntry"
  BY SMT DEF Program, HeadCalls, InfoCalls, VideoCalls, EntryCalls, TracksCalls,
     SegmentCalls, MasterCalls, calls
<1>4. small \subseteq Leaves
  BY SMT DEF Leaves, ID, Parents
<1> QED
  BY <1>1, <1>2, <1>3, <1>4

\* IDs are numbers, and no element is called like the clusters.
LEMMA Identifiers ==
  /\ \A e \in DOMAIN ID : ID[e] \in Nat
  /\ "Clusters" \notin DOMAIN ID /\ "Segment" \in DOMAIN ID
BY SMT DEF ID

\* The head of an element has at most 16 bytes.
LEMMA SizeBound ==
  ASSUME NEW len \in Lengths, NEW e \in DOMAIN ID
  PROVE  SizeOf(len, e) \in Nat /\ SizeOf(len, e) <= 16 + len[e]
<1>1. ID[e] \in Nat /\ len[e] \in Nat
  BY Identifiers DEF Lengths
<1>2. e # "Clusters"
  BY Identifiers
<1>3. VintSize(ID[e]) \in 1 .. 8 /\ VintSize(len[e]) \in 1 .. 8
  BY <1>1, WidthOfNumbers
<1> QED
  BY <1>1, <1>2, <1>3 DEF SizeOf, Encoded

\* An element is no longer than its children can be.
LEMMA LengthBound ==
  ASSUME Types, Filled, LengthsRight,
         NEW p \in Parents \ {"Master"}, NEW b \in Nat,
         \A i \in 1 .. 30 : Program[i].parent = p =>
           Program[i].child \in DOMAIN ID /\ 16 + length[Program[i].child] <= b
  PROVE  length[p] <= b * Given(p, step)
<1> DEFINE es == children[p]
           s == Sizes(length, es)
           l == Len(es)
<1>1. es \in Seq(Names) /\ length \in Lengths
  BY DEF Types
<1>2. l \in Nat /\ DOMAIN es = 1 .. l /\ l = Given(p, step)
  BY <1>1, LenProperties DEF Filled
<1>3. ASSUME NEW k \in 1 .. l
      PROVE  s[k] \in Nat /\ s[k] <= b
  <2>1. PICK i \in 1 .. 30 : Program[i].parent = p /\ Program[i].child = es[k]
    BY CallOfChild
  <2>2. es[k] \in DOMAIN ID /\ 16 + length[es[k]] <= b
    BY <2>1
  <2>3. SizeOf(length, es[k]) \in Nat /\ SizeOf(length, es[k]) <= 16 + length[es[k]]
    BY <1>1, <2>2, SizeBound
  <2>4. length[es[k]] \in Nat
    BY <1>1, <2>2 DEF Lengths
  <2>5. s[k] = SizeOf(length, es[k])
    BY <1>2 DEF Sizes
  <2> QED
    BY <2>2, <2>3, <2>4, <2>5
<1>4. s \in [1 .. l -> Nat]
  BY <1>2, <1>3 DEF Sizes
<1>5. length[p] = total(s)
  BY DEF LengthsRight, SizeOfAll, Sizes
<1> HIDE DEF es, s, l
<1>6. s \in Seq(Nat)
  BY <1>2, <1>4, SeqDef
<1>7. Len(s) = l
  BY <1>2, <1>4, <1>6, LenProperties
<1>8. total(s) <= b * Len(s)
  BY <1>3, <1>6, <1>7, TotalBound
<1> QED
  BY <1>2, <1>5, <1>7, <1>8

\* Everything in front of the cues ends in the first page, and so do cues without
\* cue points (string.cpp:39-58, floating.cpp:39-60, element.cpp:97).
THEOREM HeadInFirstPageInvariant == Spec => []HeadInFirstPage
<1>1. Types /\ Filled /\ LengthsRight /\ LeavesShort => HeadInFirstPage
  <2> SUFFICES ASSUME Types, Filled, LengthsRight, LeavesShort, Done
               PROVE  /\ SizeOf(length, "EBMLHead") <= Page
                      /\ \A e \in {"Info", "Tracks"} \cup (IF cues = <<>> THEN {"Cues"} ELSE {}) :
                           SegmentData + getOffset(children["Segment"], length, e)
                             + SizeOf(length, e) <= Page
    BY DEF HeadInFirstPage
  <2>1. /\ step = 30 /\ step \in 0 .. 30 /\ clip \in Clips /\ clip.format \in cc_map
        /\ length \in Lengths
    BY Calls DEF Done, Types
  <2>2. ASSUME NEW e \in Leaves
        PROVE  e \in DOMAIN ID /\ 16 + length[e] <= 30
    <3>1. e \in DOMAIN ID /\ length[e] \in Nat /\ length[e] <= 14
      BY <2>1, <2>2 DEF Leaves, Lengths, LeavesShort
    <3> QED
      BY <3>1
  <2>3. /\ {"EBMLHead", "Info", "TrackVideo", "TrackEntry", "Tracks", "Segment"}
             \subseteq Parents \ {"Master"}
        /\ \A p \in Parents \ {"Master"} : p \in DOMAIN ID /\ length[p] \in Nat
    BY <2>1, KnownNames DEF Parents, Lengths
  <2>4. ASSUME NEW p \in {"EBMLHead", "Info", "TrackVideo"}
        PROVE  length[p] <= 210
    <3>1. \A i \in 1 .. 30 : Program[i].parent = p =>
            Program[i].child \in DOMAIN ID /\ 16 + length[Program[i].child] <= 30
      BY <2>2, ChildrenOfHead
    <3>2. length[p] <= 30 * Given(p, step)
      BY <2>3, <3>1, LengthBound
    <3>3. Given(p, step) \in 0 .. 7 /\ length[p] \in Nat
      BY <2>1, <2>3, GivenFacts
    <3> QED
      BY <3>2, <3>3
  <2>5. length["TrackEntry"] <= 1582
    <3> DEFINE p == "TrackEntry"
    <3>1. \A i \in 1 .. 30 : Program[i].parent = p =>
            Program[i].child \in DOMAIN ID /\ 16 + length[Program[i].child] <= 226
      <4> SUFFICES ASSUME NEW e \in Leaves \cup {"TrackVideo"}
                   PROVE  e \in DOMAIN ID /\ 16 + length[e] <= 226
        BY ChildrenOfHead
      <4>1. length["TrackVideo"] \in Nat /\ length["TrackVideo"] <= 210
        BY <2>3, <2>4
      <4>2. e \in Leaves => e \in DOMAIN ID /\ 16 + length[e] <= 30 /\ length[e] \in Nat
        BY <2>1, <2>2 DEF Leaves, Lengths
      <4> QED
        BY <2>3, <4>1, <4>2
    <3>2. length[p] <= 226 * Given(p, step)
      BY <2>3, <3>1, LengthBound
    <3>3. Given(p, step) \in 0 .. 7 /\ length[p] \in Nat
      BY <2>1, <2>3, GivenFacts
    <3> QED
      BY <3>2, <3>3
  <2>6. length["Tracks"] <= 1598
    <3> DEFINE p == "Tracks"
    <3>1. \A i \in 1 .. 30 : Program[i].parent = p =>
            Program[i].child \in DOMAIN ID /\ 16 + length[Program[i].child] <= 1598
      <4>1. "TrackEntry" \in DOMAIN ID /\ 16 + length["TrackEntry"] <= 1598
        BY <2>3, <2>5
      <4> QED
        BY <4>1, ChildrenOfHead
    <3>2. length[p] <= 1598 * Given(p, step)
      BY <2>3, <3>1, LengthBound
    <3>3. Given(p, step) = 1
      BY <2>1 DEF Given, FirstCall, LastCall
    <3> QED
      BY <2>3, <3>2, <3>3
  <2>7. /\ SizeOf(length, "EBMLHead") \in 0 .. 226
        /\ SizeOf(length, "Info") \in 0 .. 226
        /\ SizeOf(length, "Tracks") \in 0 .. 1614
    <3>1. ASSUME NEW p \in {"EBMLHead", "Info", "Tracks"}
          PROVE  /\ SizeOf(length, p) \in Nat /\ SizeOf(length, p) <= 16 + length[p]
                 /\ length[p] \in Nat
      BY <2>1, <2>3, SizeBound
    <3> QED
      BY <2>4, <2>6, <3>1
  <2>8. VintSize(ID["Segment"]) \in 1 .. 8 /\ VintSize(length["Segment"]) \in 1 .. 8
    BY <2>3, Identifiers, WidthOfNumbers
  <2>9. /\ getOffset(children["Segment"], length, "Info") = 0
        /\ getOffset(children["Segment"], length, "Tracks") = SizeOf(length, "Info")
        /\ getOffset(children["Segment"], length, "Cues") =
             SizeOf(length, "Info") + SizeOf(length, "Tracks")
    BY <2>1, SegmentChildren, SegmentOffsets
  <2>10. Page \in Nat /\ Page >= 4096
    BY ConstantsAssumption
  <2>11. SegmentData \in 0 .. 242
    BY <2>7, <2>8 DEF SegmentData
  <2>12. SizeOf(length, "EBMLHead") <= Page
    BY <2>7, <2>10
  <2>13. SegmentData + getOffset(children["Segment"], length, "Info")
           + SizeOf(length, "Info") <= Page
    BY <2>7, <2>9, <2>10, <2>11
  <2>14. SegmentData + getOffset(children["Segment"], length, "Tracks")
           + SizeOf(length, "Tracks") <= Page
    <3> DEFINE a == SegmentData
               b == SizeOf(length, "Info")
               c == SizeOf(length, "Tracks")
    <3>1. a \in 0 .. 242 /\ b \in 0 .. 226 /\ c \in 0 .. 1614
      BY <2>7, <2>11
    <3> HIDE DEF a, b, c
    <3>2. a + b + c <= Page
      BY <2>10, <3>1
    <3> QED
      BY <2>9, <3>2 DEF a, b, c
  <2>15. ASSUME cues = <<>>
         PROVE  SegmentData + getOffset(children["Segment"], length, "Cues")
                  + SizeOf(length, "Cues") <= Page
    <3>1. length["Cues"] = 0
      <4>1. Len(cues) = 0 /\ cue_size \in Nat
        BY <2>15, CueSize
      <4> QED
        BY <4>1 DEF LengthsRight
    <3>2. "Cues" \in DOMAIN ID
      BY KnownNames
    <3> DEFINE a == SegmentData
               b == SizeOf(length, "Info")
               c == SizeOf(length, "Tracks")
               d == SizeOf(length, "Cues")
    <3>3. a \in 0 .. 242 /\ b \in 0 .. 226 /\ c \in 0 .. 1614
      BY <2>7, <2>11
    <3>4. d \in Nat /\ d <= 16
      BY <2>1, <3>1, <3>2, SizeBound
    <3> HIDE DEF a, b, c, d
    <3>5. a + (b + c) + d <= Page
      BY <2>10, <3>3, <3>4
    <3> QED
      BY <2>9, <3>5 DEF a, b, c, d
  <2> QED
    BY <2>12, <2>13, <2>14, <2>15
<1> QED
  BY <1>1, TypesInvariant, FilledInvariant, LengthsRightInvariant, LeavesShortInvariant, PTL
=============================================================================
