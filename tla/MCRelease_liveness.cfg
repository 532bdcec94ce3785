CONSTANTS
  Wants = {w1, w2}
  Artifacts = {a1, a2}
  Namespaces = {n1}
  None = None
  SourceKind = "HelmChart"
  Interval = 1
  MaxRetries = 2
  AutoRollback = TRUE
  Disturbances = {"edit", "suspend", "delete", "create", "deploy", "uninstall", "drift", "publish", "readError", "nelmError", "writeError", "crash"}
  MaxDisturbances = 2
SPECIFICATION FairSpec
PROPERTIES Converges DeletionCompletes
CHECK_DEADLOCK FALSE
