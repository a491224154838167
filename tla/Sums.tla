--------------------------------- MODULE Sums ---------------------------------
(***************************************************************************)
(* The sum of a sequence of numbers, as a loop over it adds them up, and   *)
(* the concatenation of a sequence of sequences.                           *)
(***************************************************************************)
EXTENDS Integers, Sequences

\* The sum of the first n numbers, for every n.
sums(s) ==
  LET upto[n \in 0 .. Len(s)] == IF n = 0 THEN 0 ELSE upto[n - 1] + s[n]
  IN upto

total(s) == sums(s)[Len(s)]

\* The first n sequences put together, for every n.
joins(s) ==
  LET upto[n \in 0 .. Len(s)] == IF n = 0 THEN <<>> ELSE upto[n - 1] \o s[n]
  IN upto

joined(s) == joins(s)[Len(s)]
=============================================================================
