SPECIFICATION FairAgentSpec
CONSTANTS
  b1 = b1
  b2 = b2
  bad = bad
  s1 = s1
  x = x
  y = y
  None = None
  Base <- MCBase
  Managed <- MCManaged
  Slot <- MCSlot
  SlotsOf <- MCSlotsOf
  Account <- MCAccount
  Config <- MCConfig
  Malformed <- RefusedOnB1
  Undecodable <- BadBase
  ValidateConfig = TRUE
  Faults = {"build", "start", "sync", "disk", "crash", "lost", "rpc", "geodata"}
  MaxFaults = 3
  MaxVersion = 3
  ConfigOf <- NotJson
  UsersOf <- ThereAndBack
  Rollback = FALSE
  Unrenderable = {}
INVARIANT AppliedVersionIsServed
PROPERTY Converges
