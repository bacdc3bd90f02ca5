SPECIFICATION Spec
CONSTANTS
  SeqMod = 8
  MaxRetries = 1
  PendingCap = 4
  OooCap = 2
  Nets = {n1, n2}
  Peers = {a}
  Frames <- LooseFrames
  ScCap = 3
  RxCap = 1
  PeerCap = 1
  RemoteCap = 2
  BatchCap = 2
  RecvBatch = 1
  GameWaits = TRUE
  MaxBuffered = 2
SYMMETRY NetSymmetry
VIEW WithoutMessageHistory
INVARIANTS
  PeerIntroduction
  CompletionsKept
  MessagesBounded
PROPERTIES
  PumpIsFIFO
