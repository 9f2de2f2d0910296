SPECIFICATION Spec
CONSTANTS
  Books = {b1, b2}
  Reads = {r1, r2}
  Methods = {"findAll", "findOne", "findByAuthorAndYear", "batchRead"}
  ScanLimit = 1
  Limit = 2
  Skew = 0
  MaxRows = 2
  MaxFaults = 1
INVARIANTS TypeOK PagesMissNothing ReadsAreCounted
SYMMETRY Symmetry
CHECK_DEADLOCK FALSE
