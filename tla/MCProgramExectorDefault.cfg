CONSTANTS
  Programs <- MCPrograms
  Timeouts = {6}
  PipeCapacity = 1
  MaxLong = 6
  MaxNow = 5
  MaxOutput = 2
SPECIFICATION ExecSpec
CHECK_DEADLOCK FALSE
PROPERTY EndingProgramEndsCall
