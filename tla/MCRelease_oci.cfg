CONSTANTS
  Wants = {w1, w2}
  Artifacts = {a1, a2}
  Namespaces = {n1, n2}
  None = None
  SourceKind = "OCIRepository"
  Interval = 0
  MaxRetries = 0
  AutoRollback = TRUE
  Disturbances = {"edit", "move", "suspend", "delete", "create", "publish", "flap", "readError", "nelmError", "writeError", "crash"}
  MaxDisturbances = 2
SPECIFICATION FairSpec
INVARIANT ReadyTruthful
PROPERTY Converges
CHECK_DEADLOCK FALSE
