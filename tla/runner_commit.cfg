SPECIFICATION Spec
CONSTANTS
  MaxReqs = 2
  Usage = {}
  Faults = {"commit"}
  Unwind = FALSE
INVARIANTS OkIsHonoured
