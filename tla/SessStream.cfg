CONSTANTS
  Agents = {a1}
  Clients = {c1}
  None = None
  MaxChunks = 3
  ReadSize = 2
SPECIFICATION FairSpec
CHECK_DEADLOCK FALSE
INVARIANTS
  NoLostWakeup
  StreamIntact
  NoUncausedTeardown
  NoOrphanAtAgent
  CleanReturn
PROPERTIES
  HandlerReturns
  TargetLossReachesClient
