SPECIFICATION Spec
CONSTANTS
  b1 = b1
  b2 = b2
  u = u
  s1 = s1
  s2 = s2
  x = x
  y = y
  None = None
  Base <- MCBase
  Managed <- MCManaged
  Slot <- MCSlot
  SlotsOf <- MCSlotsOf
  Account <- MCAccount
  Config <- MCConfig
  Malformed <- MCMalformed
  Undecodable <- MCUndecodable
  ValidateConfig = TRUE
  Faults = {"build", "start", "sync", "disk", "crash", "lost"}
  MaxFaults = 2
INVARIANTS
  TypeOK
  LastGoodWasServed
  CurrentIsBuildable
  FailureKeepsService
  OkMeansServed
  RememberedUsersMatch
PROPERTIES
  PromoteOnlyServed
  RefinesTwoSlots
