CONSTANTS
  m = m
  c1 = c1
  Master = m
  Proc <- OnlyMaster
  Files <- AppFiles
  Funcs = {"f", "main"}
  Consts = {"C"}
  Classes = {"P", "D"}
  ByName = "name"
  Declares <- SharedNames
  Line <- AppLine
  Needs <- AppNeeds
  Placement = {FALSE, TRUE}
  Booters <- OnlyMaster
  InCode = {"load", "drop"}
  MaxCalls = 6
  MaxBoots = 2
SPECIFICATION Spec
CHECK_DEADLOCK FALSE
INVARIANTS
  ItemsLoaded
  NamesResolve
  ClassesResolve
