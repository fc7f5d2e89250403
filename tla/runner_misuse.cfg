SPECIFICATION Spec
CONSTANTS
  MaxReqs = 4
  Usage = {"hold", "drop", "stash", "external", "panic", "cancel"}
  Faults = {"constraint", "unknown", "abort", "commit"}
  Unwind = TRUE
INVARIANTS CommitOnlyIfOk NoLostEvent RunCanWake
CHECK_DEADLOCK FALSE
