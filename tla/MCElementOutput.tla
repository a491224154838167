--------------------------- MODULE MCElementOutput ---------------------------
(***************************************************************************)
(* Elements for TLC: clusters and cues at every position in a page, and    *)
(* the head and the tracks of a file, which lie in its first page.         *)
(***************************************************************************)
EXTENDS ElementReport

Leaf(name, i, kind, id, n) == [name |-> <<name, i>>, kind |-> kind, id |-> id, n |-> n]

\* A tree with one more element, the parent of some.
With(t, name, i, id, children) ==
  Append(t, [name |-> <<name, i>>, kind |-> "master", id |-> id, children |-> children,
             n |-> total([k \in DOMAIN children |-> getSize(t[children[k]])])])

EBMLHead ==
  With(<<Leaf("DocType", 1, "string", 2, 5), Leaf("DocTypeVersion", 1, "integer", 2, 1)>>,
       "EBMLHead", 1, 4, <<1, 2>>)

\* The element with the video comes last in its parent, after the leaves.
Tracks ==
  LET video == With(<<Leaf("VideoFPS", 1, "floating", 3, 4),
                      Leaf("VideoPixelWidth", 1, "integer", 1, 2)>>,
                    "TrackVideo", 1, 1, <<1, 2>>)
      entry == With(video \o <<Leaf("TrackNumber", 1, "integer", 1, 1)>>,
                    "TrackEntry", 1, 1, <<4, 3>>)
  IN With(entry, "Tracks", 1, 4, <<5>>)

\* A clip shorter than fifteen clusters has no cue point.
NoCues == With(<<>>, "Cues", 1, 4, <<>>)

\* Two cue points, with positions of 8 bytes three levels below the cues.
Cues ==
  LET point(t, i) ==
        LET n         == Len(t)
            leaves    == t \o <<Leaf("CueTime", i, "integer", 1, 4),
                               Leaf("CueTrack", i, "integer", 1, 1),
                               Leaf("CueClusterPosition", i, "integer", 1, 8)>>
            positions == With(leaves, "CueTrackPositions", i, 1, <<n + 2, n + 3>>)
        IN With(positions, "CuePoint", i, 1, <<n + 1, n + 4>>)
  IN With(point(point(<<>>, 1), 2), "Cues", 1, 4, <<5, 10>>)

Plane(row, height, padding) ==
  [row |-> row, height |-> height, stride |-> row + padding]

\* Luma and two subsampled chroma planes.
Planes(padding) ==
  <<Plane(4, 3, padding), Plane(2, 2, padding), Plane(2, 2, padding)>>

\* Powers of five where the code has powers of 2^7.
Limits == [n \in 1 .. 8 |-> 5 ^ n]

Anywhere == 0 .. Page - 1

Unpadded ==
  {[tree |-> Cluster(n, Planes(0)), starts |-> Anywhere] : n \in 0 .. 2} \cup
  {[tree |-> Cues, starts |-> Anywhere],
   [tree |-> EBMLHead, starts |-> {0}], [tree |-> NoCues, starts |-> 0 .. Page - 5], [tree |-> Tracks, starts |-> {0, 2}]}

Padded == {[tree |-> Cluster(2, Planes(1)), starts |-> Anywhere]}
=============================================================================
