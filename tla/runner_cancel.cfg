SPECIFICATION Spec
CONSTANTS
  MaxReqs = 2
  Usage = {"cancel"}
  Faults = {}
  Unwind = FALSE
INVARIANTS NoPollAfterScope
