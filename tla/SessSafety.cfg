CONSTANTS
  Agents = {a1, a2}
  Clients = {c1, c2}
  None = None
  MaxChunks = 0
  ReadSize = 1
SPECIFICATION Spec
CHECK_DEADLOCK FALSE
SYMMETRY Symmetry
INVARIANTS
  TypeOK
  AgentGoneClean
  NoUncausedTeardown
