CONSTANTS
  MaxSessions = 2
  Faults = {"close", "hang"}
SPECIFICATION FairSpec
INVARIANTS
  RevokedNoneLive
  ShutdownLeavesNothing
  OneCleaner
PROPERTIES
  DueSessionsEnd
  RevocationReturns
CHECK_DEADLOCK FALSE
