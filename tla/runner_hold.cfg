SPECIFICATION Spec
CONSTANTS
  MaxReqs = 2
  Usage = {"external", "hold"}
  Faults = {}
  Unwind = FALSE
PROPERTIES MisuseIsReported
CHECK_DEADLOCK FALSE
