SPECIFICATION AgentSpec
CONSTANTS
  b1 = b1
  b2 = b2
  bad = bad
  s1 = s1
  x = x
  y = y
  None = None
  Base <- MCBase
  Managed <- MCManaged
  Slot <- MCSlot
  SlotsOf <- MCSlotsOf
  Account <- MCAccount
  Config <- MCConfig
  Malformed <- BadBase
  Undecodable <- BadBase
  ValidateConfig = TRUE
  Faults = {"crash"}
  MaxFaults = 1
  MaxVersion = 2
  ConfigOf <- GoodThenBad
  UsersOf <- TwoUsers
  Rollback = FALSE
  Unrenderable = {}
INVARIANT AppliedIsDesired
