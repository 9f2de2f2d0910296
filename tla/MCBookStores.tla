---------------------------- MODULE MCBookStores ----------------------------
(* Instances of BookStores for TLC.                                        *)
EXTENDS BookStores, TLC

\* Books that are not seeded, contents and requests are interchangeable.
Symmetry ==
  Permutations(BookIds \ Seeded) \cup Permutations(Contents)
    \cup Permutations(Requests)
=============================================================================
