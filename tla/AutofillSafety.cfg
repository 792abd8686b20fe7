CONSTANTS
  Step = {s1, s2}
  Alias = {a1, a2}
  Origin = {"o1", "outside"}
  Allowed = {"o1"}
  Kind = {"username", "password"}
  Cap = 1
  MaxNonce = 2
  Faults = {"call"}
SPECIFICATION Spec
SYMMETRY KeySymmetry
INVARIANTS
  TypedWhereReleased
  OneOpenRequest
PROPERTIES
  KeepsRelease
  NothingTypedAfterwards
CHECK_DEADLOCK FALSE
