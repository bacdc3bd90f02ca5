SPECIFICATION LiveSpec
CONSTANTS
  SeqMod = 8
  MaxRetries = 1
  PendingCap = 4
  OooCap = 2
  Nets = {n1, n2}
  Peers = {a}
  Frames <- OneFrame
  ScCap = 20
  RxCap = 1
  PeerCap = 1
  RemoteCap = 1
  BatchCap = 1
  RecvBatch = 1
  GameWaits = FALSE
  MaxBuffered = 2
PROPERTIES
  EverythingHandedOut
  PeerAppears
