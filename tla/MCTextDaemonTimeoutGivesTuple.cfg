CONSTANTS
  Records = 3
  Timeouts = {2}
  MaxInt = 3
  SplitEnds <- MCSplitEnds
SPECIFICATION Spec
PROPERTY TimeoutGivesTuple
CHECK_DEADLOCK FALSE
