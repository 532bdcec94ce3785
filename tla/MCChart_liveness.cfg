CONSTANTS
  Releases = {r1, r2}
  Sources = {s1, s2}
  ChartRef = ChartRef
  Specs = {s1, s2, ChartRef}
  None = None
  Blank = Blank
  RetrySteps = 2
  StallOnFailure = FALSE
  FluxFinalizer = TRUE
  Faults = TRUE
  MaxDisturbances = 1
SPECIFICATION FairSpec
PROPERTY Settles
CHECK_DEADLOCK FALSE
