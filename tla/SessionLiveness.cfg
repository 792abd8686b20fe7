CONSTANTS
  Tokens = {t1, t2}
  AgentIdle = 3
  HumanIdle = 2
  ShortIdle = 1
  HardLimit = 4
  ExtendLimit = 2
  MaxNow = 5
  Faults = {"command"}
SPECIFICATION FairSpec
PROPERTIES
  ReachesTerminal
  BrowserReleased
