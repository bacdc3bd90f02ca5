SPECIFICATION Spec
CONSTANTS
  SeqMod = 8
  MaxRetries = 1
  PendingCap = 4
  OooCap = 2
  Nets = {n1}
  Peers = {a, b}
  Frames <- OrderedFrames
  ScCap = 20
  RxCap = 2
  PeerCap = 1
  RemoteCap = 2
  BatchCap = 3
  RecvBatch = 2
  GameWaits = FALSE
  MaxBuffered = 3
INVARIANTS
  PumpTypeOK
  PeerBeforeMessage
  PeerIntroduction
  AckedIsQueued
PROPERTIES
  PumpIsFIFO
