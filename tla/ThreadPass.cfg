CONSTANTS
  Readers = {r1}
  Writers = {w1, w2}
  NoThread = NoThread
  Loop = Loop
  MaxFill = 3
  MaxWrites = 3
  RecvSize = 2
  HasTimeout = TRUE
SPECIFICATION FairSpec
CHECK_DEADLOCK FALSE
INVARIANTS
  TypeOK
  RecvIntact
  SendIntact
  EOFMeansEnd
PROPERTY
  DropReachesReaders
