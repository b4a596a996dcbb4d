CONSTANTS
  n1 = n1
  n2 = n2
  None = None
  Names = {n1, n2}
  Sources <- MCSources
  MaxRuns = 2
SPECIFICATION Spec
INVARIANTS
  TypeOK
  PrefixOnly
  FinishedAreLoaded
CHECK_DEADLOCK FALSE
