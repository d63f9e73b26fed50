CONSTANTS
  Readers = {r1}
  Writers = {w1}
  NoThread = NoThread
  Loop = Loop
  MaxFill = 1
  MaxWrites = 0
  RecvSize = 1
  HasTimeout = FALSE
SPECIFICATION FairSpec
CHECK_DEADLOCK FALSE
PROPERTY
  RecvUnblocked
