-------------------------- MODULE MCResponseCache ---------------------------
(* Instances of ResponseCache for TLC.                                     *)
EXTENDS ResponseCache, TLC

\* Requests are interchangeable.
Symmetry == Permutations(Requests)
=============================================================================
