SPECIFICATION FairSpec
CONSTANTS
  BookIds = {b1, b2, b3}
  Seeded = {b1}
  Contents = {c1}
  None = None
  Requests = {r1, r2}
  Ops = {"create", "update", "updateViewsCount", "remove", "sync"}
  ScanLimit = 2
  MaxFaults = 1
PROPERTIES RowsReachItems EventuallyConsistent
