CONSTANTS
  a = a
  b = b
  None = None
  Files = {a, b}
  Uses <- UsesEachOther
  MaxVersion = 2
  MaxTime = 4
  MaxSystem = 1
SPECIFICATION Spec
CHECK_DEADLOCK FALSE
SYMMETRY Sources
INVARIANTS
  TypeOK
  StaleIsRecompiled
  CleanBuildIsCurrent
  EntryComplete
