SPECIFICATION Spec
CONSTANTS
  Entities = {a}
  MeshCap = 2
  Ttl = 3
  Period = 1
  Watchdog = 1
  SendsSeq = FALSE
  Prompt = FALSE
  Settle = 3
  MaxBoxes = 2
  MaxReadds = 0
  MaxPolls = 2
  MaxTicks = 0
  MaxGiveUps = 1
  MaxRestarts = 0
  MaxDeaths = 0
PROPERTIES
  LateIsHarmless
CHECK_DEADLOCK FALSE
