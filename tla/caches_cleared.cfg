SPECIFICATION Spec
CONSTANTS
  Requests = {r1, r2}
  Ttl = 2
  MaxLag = 2
  MaxTime = 6
  MaxData = 2
INVARIANT AllCachesCleared
SYMMETRY Symmetry
