CONSTANTS
  Releases = {r1}
  Sources = {s1}
  ChartRef = ChartRef
  Specs = {s1}
  None = None
  Blank = Blank
  RetrySteps = 2
  StallOnFailure = FALSE
  FluxFinalizer = FALSE
  Faults = FALSE
  MaxDisturbances = 1
SPECIFICATION Spec
INVARIANT NoSourceLeft
CHECK_DEADLOCK FALSE
