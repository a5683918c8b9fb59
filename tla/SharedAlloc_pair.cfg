CONSTANTS
  m = m
  c1 = c1
  c2 = c2
  Proc <- TwoProcs
  Master = m
  NoProc = NoProc
  Loaders <- TwoProcs
  Resetters <- TwoProcs
  ShmSize = 5
  Align = 2
  Sizes = {1, 3}
  MaxCalls = 2
  LockErrors = FALSE
SPECIFICATION FairSpec
CHECK_DEADLOCK FALSE
INVARIANTS
  TypeOK
  MutualExclusion
  PreforkIntact
  ClaimedDisjoint
PROPERTIES
  ImplementsPrivateHeap
  LockGranted
