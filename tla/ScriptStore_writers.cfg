CONSTANTS
  w1 = w1
  w2 = w2
  r1 = r1
  Nothing = Nothing
  Torn = Torn
  Writers <- TwoWriters
  Readers = {r1}
  Pids = {1, 2}
  PidOf <- OwnPids
  MaxStores = 2
  MaxLoads = 2
SPECIFICATION Spec
CHECK_DEADLOCK FALSE
INVARIANTS
  TypeOK
  LoadsWhole
PROPERTIES
  ReleasedOnce
  ImplementsAtomicPublish
