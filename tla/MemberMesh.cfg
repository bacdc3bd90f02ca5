SPECIFICATION MeshSpec
CONSTANTS
  a = a
  b = b
  c = c
  Entities = {c}
  MeshCap = 2
  Ttl = 3
  Period = 1
  Watchdog = 1
  SendsSeq = FALSE
  Prompt = TRUE
  Settle = 2
  MaxBoxes = 2
  MaxReadds = 1
  MaxPolls = 4
  MaxTicks = 4
  MaxGiveUps = 1
  MaxRestarts = 1
  MaxDeaths = 1
INVARIANTS
  EverySettledIsListed
  EverySettledKnows
PROPERTIES
  FreshRowKept
SYMMETRY PlayerSymmetry
CHECK_DEADLOCK FALSE
