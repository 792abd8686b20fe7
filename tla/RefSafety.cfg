CONSTANTS
  Slots = 2
  Look = {x, y}
  MaxRef = 3
  MaxMade = 3
  MaxWorker = 2
  Faults = {"rewind"}
SPECIFICATION Spec
SYMMETRY LookSymmetry
INVARIANTS
  NeverReissued
  ResolvesAsSeen
  ActsOnChecked
CHECK_DEADLOCK FALSE
