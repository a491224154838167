---------------------------- MODULE MCStreamLayout ----------------------------
(***************************************************************************)
(* Clips for TLC: numbers of frames around those at which a cluster, a cue *)
(* and a longer list of cues begin; frames around those at which lengths   *)
(* get longer; frame rates with whole and fractional durations, one so     *)
(* slow that the times in a cluster overflow, two so slow that the         *)
(* duration of a frame does, to a negative number or to a positive one,    *)
(* and two so fast that frames, or whole clusters, last less than a        *)
(* millisecond.                                                            *)
(***************************************************************************)
EXTENDS StreamLayout

\* <<format, width, height>>: 123, 124, 97536, 72, 16380 and 16384 bytes per frame.
Pictures ==
  {<<<<"444", 8>>, 41, 1>>, <<<<"422", 8>>, 2, 31>>, <<<<"420", 8>>, 254, 256>>,
   <<<<"410", 8>>, 16, 4>>, <<<<"444", 10>>, 273, 10>>, <<<<"422", 16>>, 256, 16>>,
   <<<<"RGB", 8>>, 16, 4>>}

Rates ==
  {<<25, 1>>, <<24000, 1001>>, <<60, 1>>, <<8, 1>>, <<1, 1>>, <<3, 4>>, <<3000, 1>>,
   <<20000, 1>>}

MCClips ==
  {[numFrames |-> n, format |-> p[1], width |-> p[2], height |-> p[3],
    fpsNum |-> r[1], fpsDen |-> r[2]] :
     n \in {1, 10, 149, 150, 309, 905}, p \in Pictures, r \in Rates}
=============================================================================
