SPECIFICATION Spec
CONSTANTS
  MaxTxs = 3
  MaxReqs = 3
  Usage = {"nest", "share"}
INVARIANTS
  TypeOK
  CountsOwn
  ActiveWhenPolled
  CommitsWhole
  NestedNeverCommits
  AnswersAreTrue
  NoDeadlock
PROPERTY
  RunsEnd
CHECK_DEADLOCK FALSE
