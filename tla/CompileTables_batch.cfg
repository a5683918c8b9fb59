CONSTANTS
  a = a
  b = b
  c = c
  None = None
  Files = {a, b, c}
  Symbol = {"fa", "fc1", "fc2", "A", "B", "KA", "KB", "internal"}
  Declares <- Batch
  Internal <- Engine
  FirstSize = 4
  MaxCompiles = 3
SPECIFICATION Spec
CHECK_DEADLOCK FALSE
INVARIANTS
  TypeOK
  OwnOnly
  OthersKept
  CleanupRestores
  AloneExact
