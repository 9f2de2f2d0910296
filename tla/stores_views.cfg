SPECIFICATION Spec
CONSTANTS
  BookIds = {b1, b2}
  Seeded = {b1}
  Contents = {c1, c2}
  None = None
  Requests = {r1, r2, r3}
  Ops = {"create", "update", "updateViewsCount", "remove"}
  ScanLimit = 2
  MaxFaults = 1
INVARIANTS NoLostIncrement
SYMMETRY Symmetry
CHECK_DEADLOCK FALSE
