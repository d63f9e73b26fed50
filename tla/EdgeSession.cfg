CONSTANTS
  MaxConns = 2
  MaxSessions = 2
  MaxChunks = 1
SPECIFICATION Spec
CHECK_DEADLOCK FALSE
PROPERTY
  SessionSurvivesTarget
