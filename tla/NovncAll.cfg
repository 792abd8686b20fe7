CONSTANTS
  MaxLate = 2
  Faults = {"close", "hang"}
SPECIFICATION FairSpec
INVARIANTS
  OneLateMessage
PROPERTIES
  StreamCut
CHECK_DEADLOCK FALSE
