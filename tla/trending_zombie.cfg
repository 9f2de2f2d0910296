SPECIFICATION Spec
CONSTANTS
  Books = {b1, b2}
  Events = {e1, e2, e3}
  Kinds = {"VIEWS_UPDATED", "DELETED"}
  Cap = 2
  MaxViews = 1
  MaxFaults = 0
INVARIANTS DeletedLeavesTrending
SYMMETRY Symmetry
CHECK_DEADLOCK FALSE
