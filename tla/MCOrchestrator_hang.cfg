SPECIFICATION HangSpec
CONSTANTS
  Inputs <- DefaultInputs
  Task = task
CHECK_DEADLOCK FALSE
PROPERTY StepsTimeOut
