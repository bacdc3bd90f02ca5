SPECIFICATION FairSpec
CONSTANTS
  SeqMod = 8
  MaxRetries = 1
  PendingCap = 4
  OooCap = 2
  Nets = {n1}
  Peers = {a, b}
  Frames <- OneFrame
  ScCap = 9
  RxCap = 1
  PeerCap = 1
  RemoteCap = 2
  BatchCap = 3
  RecvBatch = 1
  GameWaits = TRUE
  MaxBuffered = 2
PROPERTIES
  BufferedIsReplayed
