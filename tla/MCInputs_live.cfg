CONSTANTS
  o1 = o1
  o2 = o2
  Specs <- GitAndOci
  Self = Self
  Objects = {o1, o2}
  Contents = {c1, c2}
  Missing = Missing
  None = None
  Watched = {o1}
  MaxRetries = 1
  Disturbances = {"edit", "data", "readError", "crash"}
  MaxDisturbances = 2
  MaxEdits = 1
SPECIFICATION FairSpec
INVARIANTS TypeOK ReadyComplete
PROPERTIES InputsDeployed RevisionSettles
CHECK_DEADLOCK FALSE
