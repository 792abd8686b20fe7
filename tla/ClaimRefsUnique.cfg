CONSTANTS
  Slots = 2
  Look = {"x", "y"}
  MaxRef = 3
  MaxMade = 4
  MaxWorker = 2
  Faults = {}
SPECIFICATION Spec
INVARIANTS
  NeverReissuedInConversation
CHECK_DEADLOCK FALSE
