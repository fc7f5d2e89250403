SPECIFICATION Spec
CONSTANTS
  MaxReqs = 2
  Usage = {"reorder"}
  Faults = {}
  Unwind = FALSE
INVARIANTS CommitOnlyIfOk
