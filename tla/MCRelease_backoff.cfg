CONSTANTS
  Wants = {w1}
  Artifacts = {a1}
  Namespaces = {n1}
  None = None
  SourceKind = "HelmChart"
  Interval = 1
  MaxRetries = 30
  AutoRollback = FALSE
  Disturbances = {"nelmError"}
  MaxDisturbances = 2
SPECIFICATION RetryingSpec
INVARIANT RetryScheduled
CHECK_DEADLOCK FALSE
