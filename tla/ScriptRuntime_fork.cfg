CONSTANTS
  m = m
  c1 = c1
  Master = m
  Proc <- TwoProcs
  Files <- AppFiles
  Funcs = {"f", "main"}
  Consts = {"C"}
  Classes = {}
  ByName = "name"
  Declares <- NoClassNames
  Line <- NoLine
  Needs <- NoNeeds
  Placement = {FALSE}
  Booters <- TwoProcs
  InCode = {"load"}
  MaxCalls = 3
  MaxBoots = 2
SPECIFICATION Spec
CHECK_DEADLOCK FALSE
INVARIANTS
  TypeOK
  
  NoCacheLost
