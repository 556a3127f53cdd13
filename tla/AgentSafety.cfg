SPECIFICATION AgentSpec
CONSTANTS
  b1 = b1
  b2 = b2
  bad = bad
  s1 = s1
  x = x
  y = y
  None = None
  Base <- MCBase
  Managed <- MCManaged
  Slot <- MCSlot
  SlotsOf <- MCSlotsOf
  Account <- MCAccount
  Config <- MCConfig
  Malformed <- RefusedAccount
  Undecodable <- BadBase
  ValidateConfig = FALSE
  Faults = {"build", "start", "sync", "disk", "crash", "lost", "rpc", "geodata"}
  MaxFaults = 2
  MaxVersion = 3
  ConfigOf <- BadThenGood
  UsersOf <- NotValid
  Rollback = TRUE
  Unrenderable = {}
INVARIANTS
  AgentTypeOK
  UsersInMemoryAreServed
  OfflineRunsLastGood
PROPERTY RuntimeContract
