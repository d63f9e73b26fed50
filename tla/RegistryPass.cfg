CONSTANTS
  Sockets = {s1, s2, s3}
  Names = {n1, n2}
  None = None
SPECIFICATION FairSpec
CHECK_DEADLOCK FALSE
INVARIANTS
  TypeOK
  OneLoopPerName
PROPERTIES
  OnlyOwnLoopUnregisters
  NameComesFree
