CONSTANTS
  Tokens = {t1, t2, t3, t4}
  Faults = {"command", "close", "hang"}
  AgentIdle = 3
  HumanIdle = 2
  ShortIdle = 1
  HardLimit = 4
  ExtendLimit = 2
  MaxNow = 5
SPECIFICATION Spec
SYMMETRY TokenSymmetry
INVARIANTS
  LeaseMatchesState
  WidenedNeverReturns
  OutstandingTokensFitState
  OneInvitation
  IdleWithinHard
  CommandExcludesHuman
  SweptIsTerminal
PROPERTIES
  SensitiveNeverReturned
  ResumeAsAsked
  ImplementsLease
CHECK_DEADLOCK FALSE
