SPECIFICATION Spec
CONSTANTS
  MaxReqs = 4
  Usage = {"external"}
  Faults = {"constraint"}
  Unwind = FALSE
INVARIANTS AcceptsRequests FailureAborts OkIsHonoured NoPollAfterScope JarNeverAborts
PROPERTIES RunSettles OkCommits MisuseIsReported RefinesAtomicRun
