SPECIFICATION Spec
CONSTANTS
  SeqMod = 10
  MaxRetries = 0
  PendingCap = 2
  OooCap = 1
  Options <- AllModes
  MaxSend = 3
  MaxLoss = 1
  MaxAckLoss = 1
  MaxDup = 1
  MaxReturn = 1
INVARIANTS
  TypeOK
  OrderedDelivery
  NoSilentLoss
  DuplicatesOnlyAfterEviction
  MapsBounded
  BestEffortMonotone
  IndInv
CHECK_DEADLOCK FALSE
