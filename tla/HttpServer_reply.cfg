SPECIFICATION Spec
CONSTANTS
  Sends = {s1, s2}
  Invokes = {i1}
  MaxConcurrent = 1
  MaxTasks = 2
CHECK_DEADLOCK FALSE
INVARIANT ReplyNamesOwnTask
