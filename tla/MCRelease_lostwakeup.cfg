CONSTANTS
  Wants = {w1, w2}
  Artifacts = {a1, a2}
  Namespaces = {n1}
  None = None
  SourceKind = "HelmChart"
  Interval = 1
  MaxRetries = 1
  AutoRollback = TRUE
  Disturbances = {"edit", "flap"}
  MaxDisturbances = 2
SPECIFICATION FairSpec
PROPERTY Converges
CHECK_DEADLOCK FALSE
