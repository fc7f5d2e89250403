SPECIFICATION Spec
CONSTANTS
  MaxReqs = 2
  Usage = {"panic"}
  Faults = {}
  Unwind = FALSE
INVARIANTS PanicAborts
