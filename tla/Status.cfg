SPECIFICATION FairSpec
CONSTANTS
  None = None
  Width = 3
  MaxSize = 1
  Masked = {"memory"}
  MaxVersion = 2
  MaxMarks = 2
  MaxFaults = 2
INVARIANTS
  TypeOK
  LoadIsTrue
  ChangesAreReported
PROPERTY EventuallySeen
