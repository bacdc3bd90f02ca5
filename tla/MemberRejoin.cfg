SPECIFICATION Spec
CONSTANTS
  Entities = {a}
  MeshCap = 2
  Ttl = 3
  Period = 1
  Watchdog = 1
  SendsSeq = FALSE
  Prompt = FALSE
  Settle = 3
  MaxBoxes = 2
  MaxReadds = 0
  MaxPolls = 2
  MaxTicks = 0
  MaxGiveUps = 0
  MaxRestarts = 0
  MaxDeaths = 0
INVARIANTS
  DoneIsRegistered
CHECK_DEADLOCK FALSE
