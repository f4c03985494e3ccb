SPECIFICATION CliSpec
CONSTANTS
  CliSteps = {s1, s2, s3}
  MaxSignals = 2
CHECK_DEADLOCK FALSE
INVARIANT CancelledExitsCancelled
