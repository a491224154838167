---------------------------- MODULE MCClusterCache ----------------------------
(***************************************************************************)
(* Instances of ClusterCache for TLC.  Cluster lengths are small numbers   *)
(* chosen so that a full cluster, a shorter tail and an empty tail can be  *)
(* told apart by length alone.                                             *)
(***************************************************************************)
EXTENDS ClusterCache, TLC

CONSTANTS t1, t2, c1, c2, c3, c4, s1, s2

\* An element without blocks has one byte, every block adds two.
Lengths == [s \in Streams |-> [n \in 0 .. BlocksPerCluster |-> 1 + 2 * n]]

\* Every stream has two full clusters and an empty tail ...
TwoFull  == [s \in Streams |-> 2]
NoTail   == [s \in Streams |-> 0]

\* ... or s1 has one full cluster, s2 its tail only ...
Mixed    == s1 :> 1 @@ s2 :> 0

\* ... or s1 has two, and both have a tail with one block.
Lopsided == s1 :> 2 @@ s2 :> 0
OneMore  == [s \in Streams |-> 1]

Anonymous == Permutations(Threads) \cup Permutations(Clusters)
=============================================================================
