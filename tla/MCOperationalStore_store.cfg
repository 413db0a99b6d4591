SPECIFICATION Spec
CONSTANTS
  Procs = {p1, p2}
  Directories <- AllDirectories
  Records <- Named
  Queries <- OneByOne
  Generations = {1}
  MaxOpens = 2
  MaxPuts = 3
  MaxQueries = 3
  MaxKills = 1
INVARIANTS
  IdentitySound
  IdsAgree
  Disclosed
  CompleteIsClean

SYMMETRY Symmetry
CHECK_DEADLOCK FALSE
