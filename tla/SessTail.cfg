CONSTANTS
  Agents = {a1}
  Clients = {c1}
  None = None
  MaxChunks = 2
  ReadSize = 1
SPECIFICATION Spec
CHECK_DEADLOCK FALSE
INVARIANT
  TailDelivered
