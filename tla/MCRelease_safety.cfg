CONSTANTS
  Wants = {w1, w2}
  Artifacts = {a1}
  Namespaces = {n1, n2}
  None = None
  SourceKind = "HelmChart"
  Interval = 1
  MaxRetries = 1
  AutoRollback = TRUE
  Disturbances = {"edit", "suspend", "delete", "create", "deploy", "uninstall", "readError", "nelmError", "writeError", "crash"}
  MaxDisturbances = 3
SPECIFICATION Spec
INVARIANTS TypeOK NoOrphan RetryScheduled
PROPERTIES UninstallOnlyDeleted KeepsLifecycle
CHECK_DEADLOCK FALSE
