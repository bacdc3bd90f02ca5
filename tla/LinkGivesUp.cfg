SPECIFICATION FairSpec
CONSTANTS
  SeqMod = 8
  MaxRetries = 1
  PendingCap = 2
  OooCap = 2
  Options <- GuaranteedModes
  MaxSend = 2
  MaxLoss = 2
  MaxAckLoss = 0
  MaxDup = 0
  MaxReturn = 0
PROPERTY
  GuaranteedArrives
CHECK_DEADLOCK FALSE
