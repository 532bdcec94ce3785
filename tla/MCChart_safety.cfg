CONSTANTS
  Releases = {r1, r2}
  Sources = {s1, s2}
  ChartRef = ChartRef
  Specs = {s1, s2}
  None = None
  Blank = Blank
  RetrySteps = 2
  StallOnFailure = TRUE
  FluxFinalizer = FALSE
  Faults = TRUE
  MaxDisturbances = 2
SPECIFICATION Spec
INVARIANTS TypeOK AppliedSourceLive
PROPERTIES DeletedOnlyUnlisted KeepsSharing
SYMMETRY ReleaseSymmetry
CHECK_DEADLOCK FALSE
