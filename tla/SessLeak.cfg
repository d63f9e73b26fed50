CONSTANTS
  Agents = {a1}
  Clients = {c1}
  None = None
  MaxChunks = 1
  ReadSize = 1
SPECIFICATION Spec
CHECK_DEADLOCK FALSE
INVARIANT
  NoLeakOnReturn
