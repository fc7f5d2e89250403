SPECIFICATION Spec
CONSTANTS
  MaxReqs = 4
  Usage = {"reorder", "hold", "drop", "stash", "external", "panic", "cancel"}
  Faults = {"constraint", "unknown", "abort", "commit"}
  Unwind = FALSE
INVARIANTS TypeOK InflightExact SettlesOnce
CHECK_DEADLOCK FALSE
