SPECIFICATION Spec
CONSTANTS
  Callers = {c1, c2, c3, c4}
  MaxConcurrent = 2
  QueueTimeout = FALSE
INVARIANT AtMostMaxConcurrent
