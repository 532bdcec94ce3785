CONSTANTS
  Wants = {w1}
  Artifacts = {a1}
  Namespaces = {n1, n2}
  None = None
  SourceKind = "HelmChart"
  Interval = 1
  MaxRetries = 1
  AutoRollback = FALSE
  Disturbances = {"move", "delete"}
  MaxDisturbances = 2
SPECIFICATION Spec
INVARIANT NoOrphan
CHECK_DEADLOCK FALSE
