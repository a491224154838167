------------------------------ MODULE MCFileTree ------------------------------
(* FileTree for TLC. *)
EXTENDS FileTree

CONSTANTS t1, t2

\* Sizes whose multiples and sums can be told apart, and which are no multiples
\* of a page.
HeadAndSegment == <<2, 5>>

\* The pages of the file, the first one with both children and the second one
\* with its end, and pages behind it, up to the largest size of the race.
Pages == {0, Page, 2 * Page, 3 * Page}
=============================================================================
