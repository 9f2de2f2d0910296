---------------------------- MODULE MCBookReads -----------------------------
(* Instances of BookReads for TLC.                                         *)
EXTENDS BookReads, TLC

\* Books and requests are interchangeable.
Symmetry == Permutations(Books) \cup Permutations(Reads)
=============================================================================
