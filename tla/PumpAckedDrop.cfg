SPECIFICATION Spec
CONSTANTS
  SeqMod = 8
  MaxRetries = 1
  PendingCap = 4
  OooCap = 2
  Nets = {n1}
  Peers = {a, b}
  Frames <- OrderedFrames
  ScCap = 1
  RxCap = 2
  PeerCap = 1
  RemoteCap = 2
  BatchCap = 3
  RecvBatch = 1
  GameWaits = FALSE
  MaxBuffered = 3
INVARIANTS
  AckedIsQueued
