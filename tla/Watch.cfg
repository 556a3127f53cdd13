SPECIFICATION MainSpec
CONSTANTS
  MaxVersion = 3
  Faults = {"break", "rpc"}
  MaxFaults = 3
INVARIANTS
  TypeOK
  ConfigNoticed
  UsersNoticed
PROPERTY EventuallySeen
