CONSTANTS
  Records = 3
  Timeouts <- MCTimeouts
  MaxInt = 3
SPECIFICATION Spec
INVARIANTS
  TypeOK
  NoSocketLeft
PROPERTIES
  ImplementsScan
  TaskEnds
CHECK_DEADLOCK FALSE
