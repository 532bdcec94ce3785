CONSTANTS
  o1 = o1
  o2 = o2
  Specs <- TwoVersions
  Self = Self
  Objects = {o1}
  Contents = {c1}
  Missing = Missing
  None = None
  Watched = {o1}
  MaxRetries = 0
  Disturbances = {"edit"}
  MaxDisturbances = 1
  MaxEdits = 1
SPECIFICATION Spec
INVARIANT ReadyArtifact
CHECK_DEADLOCK FALSE
