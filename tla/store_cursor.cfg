SPECIFICATION Spec
CONSTANTS
  MaxKey = 3
  MaxValue = 2
  MaxCalls = 1
  Modes = {"readonly", "versionchange"}
  ArgRanges <- MCRanges
  AutoIncrement = TRUE
INVARIANTS
  TypeOK
  RangesAsInRust
  WithinRange
  NothingMissed
PROPERTIES
  WalksInOrder
  VisitsOnce
  DroppedStepAborts
  PanicsOnlyOnUnmapped
CHECK_DEADLOCK FALSE
