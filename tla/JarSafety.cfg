CONSTANTS
  Process = {p1, p2}
  MaxGeneration = 3
  MaxPast = 2
  MaxLogins = 2
  MaxRestores = 1
  FaultPatterns = {
    {"crash", "torn"}, {"anchor", "unreadable", "rename"}, {"garbled", "unreadable"}, {"torn", "restore"}}
SPECIFICATION Spec
SYMMETRY ProcessSymmetry
INVARIANTS
  RevokedStaysBlocked
  NoResurrection
  DroppedSessionsBlocked
  RefreshIsLoadable
PROPERTIES
  KeepsPromise
  LoadHonoursRevocation
  GenerationsGrow
CHECK_DEADLOCK FALSE
