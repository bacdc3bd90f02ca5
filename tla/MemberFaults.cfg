SPECIFICATION Spec
CONSTANTS
  Entities = {a}
  MeshCap = 2
  Ttl = 3
  Period = 1
  Watchdog = 1
  SendsSeq = FALSE
  Prompt = FALSE
  Settle = 3
  MaxBoxes = 2
  MaxReadds = 1
  MaxPolls = 3
  MaxTicks = 2
  MaxGiveUps = 1
  MaxRestarts = 1
  MaxDeaths = 1
INVARIANTS
  MembershipTypeOK
  PollOrder
  OnlySweptPollsAreLost
CHECK_DEADLOCK FALSE
