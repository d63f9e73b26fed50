CONSTANTS
  Sockets = {s1, s2, s3}
  Names = {n1, n2}
  None = None
SPECIFICATION Spec
CHECK_DEADLOCK FALSE
PROPERTY
  DeadAgentIsReplaced
