SPECIFICATION Spec
CONSTANTS
  Inputs <- DefaultInputs
  Task = task
CHECK_DEADLOCK FALSE
PROPERTY CancelledRunStops
