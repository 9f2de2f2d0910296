SPECIFICATION Spec
CONSTANTS
  Books = {b1, b2, b3}
  Events = {e1, e2, e3}
  Kinds = {"CREATED", "UPDATED", "DELETED", "BATCH_CREATED", "VIEWS_UPDATED", "SYNC_COMPLETED", "VIEWED"}
  Cap = 1
  MaxViews = 2
  MaxFaults = 1
INVARIANTS TypeOK TrendingBounded EveryKeyExpires OnlyCountsRevive
SYMMETRY Symmetry
CHECK_DEADLOCK FALSE
