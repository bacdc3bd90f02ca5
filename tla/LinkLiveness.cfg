SPECIFICATION FairSpec
CONSTANTS
  SeqMod = 8
  MaxRetries = 1
  PendingCap = 2
  OooCap = 2
  Options <- GuaranteedModes
  MaxSend = 2
  MaxLoss = 1
  MaxAckLoss = 1
  MaxDup = 0
  MaxReturn = 0
PROPERTIES
  GuaranteedArrives
  ImplementsStream
  PendingClears
  CopyIsAcked
CHECK_DEADLOCK FALSE
