CONSTANTS
  Programs <- MCPrograms
  Timeouts = {0, 2, 5, 6}
  PipeCapacity = 1
  MaxLong = 6
  MaxNow = 5
  MaxOutput = 2
SPECIFICATION ExecSpec
INVARIANTS
  ExecTypeOK
  OutputWhole
  TimesOutWhenDue
  NeverAbandoned
PROPERTIES
  CallEnds
  ChildEnds
CHECK_DEADLOCK FALSE
