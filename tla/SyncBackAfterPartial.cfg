SPECIFICATION AgentSpec
CONSTANTS
  b1 = b1
  b2 = b2
  bad = bad
  s1 = s1
  x = x
  y = y
  None = None
  Base <- MCBase
  Managed <- MCManaged
  Slot <- MCSlot
  SlotsOf <- MCSlotsOf
  Account <- MCAccount
  Config <- MCConfig
  Malformed <- RefusedAccount
  Undecodable <- BadBase
  ValidateConfig = TRUE
  Faults = {}
  MaxFaults = 0
  MaxVersion = 3
  ConfigOf <- ThreeGood
  UsersOf <- ThereAndBack
  Rollback = FALSE
  Unrenderable = {}
INVARIANT SyncOkIsServed
