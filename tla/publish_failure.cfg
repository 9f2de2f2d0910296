SPECIFICATION Spec
CONSTANTS
  BookIds = {b1, b2}
  Seeded = {b1}
  Contents = {c1}
  None = None
  Requests = {r1}
  Ops = {"findOne"}
  ScanLimit = 2
  MaxFaults = 1
PROPERTIES PublishFailureIsSwallowed
CHECK_DEADLOCK FALSE
