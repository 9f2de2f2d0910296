------------------------- MODULE MCCacheSubscriber --------------------------
(* Instances of CacheSubscriber for TLC.                                   *)
EXTENDS CacheSubscriber, TLC

\* Events are interchangeable, and so are books once Init has named one of
\* them for the events that are not published yet.
Symmetry == Permutations(Events)
=============================================================================
