CONSTANTS
  Records = 3
  Timeouts <- MCTimeouts
  MaxInt = 3
  SplitEnds <- MCSplitEnds
SPECIFICATION Spec
INVARIANTS
  TypeOK
  AnswersLagByTimeouts
  OneConnection
PROPERTIES
  TaskEnds
  ImplementsScan
CHECK_DEADLOCK FALSE
