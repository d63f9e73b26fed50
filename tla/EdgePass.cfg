CONSTANTS
  MaxConns = 2
  MaxSessions = 2
  MaxChunks = 1
SPECIFICATION FairSpec
CHECK_DEADLOCK FALSE
INVARIANTS
  TypeOK
  NoLeakedWriter
  SessionOwnsConnections
  AnswerComesFirst
PROPERTIES
  EndReported
  LossNoticed
