SPECIFICATION Spec
CONSTANTS
  MaxEvents = 3
  MaxFaults = 3
INVARIANTS TypeOK MadeByOne TableUnlessFault HandledOnce
PROPERTIES StartEnds HandledInOrder
CHECK_DEADLOCK FALSE
