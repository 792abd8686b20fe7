CONSTANTS
  MaxLate = 2
  Faults = {}
SPECIFICATION Spec
INVARIANT EnforcedMeansClosed
CHECK_DEADLOCK FALSE
