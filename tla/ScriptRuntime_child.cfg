CONSTANTS
  m = m
  c1 = c1
  Master = m
  Proc <- OnlyMaster
  Files <- ChildFiles
  Funcs = {}
  Consts = {}
  Classes = {"P", "D"}
  ByName = "name"
  Declares <- ChildNames
  Line <- AppLine
  Needs <- AppNeeds
  Placement = {FALSE}
  Booters <- OnlyMaster
  InCode = {"load", "drop"}
  MaxCalls = 4
  MaxBoots = 2
SPECIFICATION Spec
CHECK_DEADLOCK FALSE
INVARIANTS
  NoDanglingSymbol
