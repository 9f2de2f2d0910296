SPECIFICATION Spec
CONSTANTS
  BookIds = {b1, b2}
  Seeded = {b1}
  Contents = {c1, c2}
  None = None
  Requests = {r1, r2}
  Ops = {"create", "update", "updateViewsCount", "remove", "batchWrite", "findOne", "sync"}
  ScanLimit = 1
  MaxFaults = 2
INVARIANTS TypeOK SyncConverges RecordedBooksExist
PROPERTIES SyncKeepsRows GoneIsForever
SYMMETRY Symmetry
