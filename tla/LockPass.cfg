CONSTANTS
  Senders = {s1, s2, s3}
  Loop = Loop
  Capacity = 1
  MaxOpen = 2
SPECIFICATION FairSpec
CHECK_DEADLOCK FALSE
INVARIANTS
  TypeOK
  OneWriter
PROPERTIES
  ServedInOrder
  SendsEnd
  LossIsHandled
