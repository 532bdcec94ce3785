CONSTANTS
  Releases = {r1}
  Sources = {s1}
  ChartRef = ChartRef
  Specs = {s1, ChartRef}
  None = None
  Blank = Blank
  RetrySteps = 2
  StallOnFailure = FALSE
  FluxFinalizer = FALSE
  Faults = FALSE
  MaxDisturbances = 2
SPECIFICATION Spec
INVARIANT RestingSourceLive
CHECK_DEADLOCK FALSE
