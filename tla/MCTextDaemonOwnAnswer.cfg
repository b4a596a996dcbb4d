CONSTANTS
  Records = 3
  Timeouts = {2}
  MaxInt = 3
  SplitEnds <- MCSplitEnds
SPECIFICATION Spec
INVARIANT OwnAnswer
CHECK_DEADLOCK FALSE
