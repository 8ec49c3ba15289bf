SPECIFICATION Spec
CONSTANTS
  Sources <- MCSources
  MaxRuns = 2
INVARIANT TypeOK
INVARIANT ExitIsVerdict
INVARIANT SuccessIsComplete
PROPERTY RefusedLeavesProgram
CHECK_DEADLOCK FALSE
