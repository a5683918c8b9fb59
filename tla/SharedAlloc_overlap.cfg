CONSTANTS
  m = m
  c1 = c1
  c2 = c2
  Proc <- AllProcs
  Master = m
  NoProc = NoProc
  Loaders <- AllProcs
  Resetters <- Nobody
  ShmSize = 4
  Align = 2
  Sizes = {2}
  MaxCalls = 2
  LockErrors = FALSE
SPECIFICATION Spec
CHECK_DEADLOCK FALSE
INVARIANTS
  HeldIntact
