------------------------------ MODULE MCSizeMemo ------------------------------
(* Instances of SizeMemo for TLC. *)
EXTENDS SizeMemo, TLC

CONSTANTS t1, t2, t3

\* Sizes whose multiples and sums can be told apart.
HeadAndSegment == <<2, 5>>

Anonymous == Permutations(Threads)
=============================================================================
