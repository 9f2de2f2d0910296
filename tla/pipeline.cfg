SPECIFICATION Spec
CONSTANTS
  Requests = {r1, r2}
  Books = {b1, b2}
  Hosts = {h1, h2, h3}
  Malformed = {h3}
  MaxFaults = 1
INVARIANTS TypeOK WrappedOnce AnswerIsOwn
PROPERTIES EveryRequestAnswered
CHECK_DEADLOCK FALSE
