CONSTANTS
  Origin = {"o1", "o2", "outside"}
  Wide = {"o1", "o2"}
  MaxGeneration = 3
  Kinds = {"loaded", "source"}
  Faults = {"publish", "evict"}
SPECIFICATION FairSpec
INVARIANTS
  ScopeHolds
  OwnRefreshKeepsSession
  RevokedLoginStaysOut
PROPERTIES
  KeepsPromise
  LocksComeBack
CHECK_DEADLOCK FALSE
