CONSTANTS
  IdLength = 2
  MaxSessions = 2
  MaxTyped = 2
  MaxEmitted = 2
  MaxEvents = 3
  ReadSize = 1
SPECIFICATION Spec
CHECK_DEADLOCK FALSE
INVARIANTS
  TypeOK
  PeersKeepProtocol
  BytesConserved
  ClientEndClosesTarget
  TargetEndReachesClient
  ChunksArrive
  StopsOnlyAtRest
PROPERTIES
  Tunnels
  DropTellsClient
