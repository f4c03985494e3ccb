SPECIFICATION PlanSpec
CONSTANTS
  PlanInputs <- MCTwoChains
  Constraints <- MCOneAtATime
CHECK_DEADLOCK FALSE
INVARIANT BatchesWithinMaxParallelism
