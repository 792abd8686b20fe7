CONSTANTS
  Prober = {p1, p2}
  Interval = 2
  MaxNow = 4
  MaxGeneration = 3
  Faults = {"crash"}
SPECIFICATION Spec
SYMMETRY ProberSymmetry
INVARIANTS
  OneProbePerInterval
  FreshIsEarned
CHECK_DEADLOCK FALSE
