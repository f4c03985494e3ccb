SPECIFICATION MCSpec
CONSTANTS
  Parts = {"server", "validator"}
  Sends = {s1, s2, s3}
  Invokes = {i1}
  MaxConcurrent = 1
  MaxTasks = 2
  PlanInputs <- MCPlans
  Constraints <- MCConstraints
CHECK_DEADLOCK FALSE
INVARIANTS
  RunningTasksHoldSlots
  SearchFindsCycles
  
  RootSkillsNeedRootContext
  ValidPlanRunsEveryStep
  StepEscalatesForItsSkills
PROPERTIES
  UsesRegistry
  NobodyParkedForever
  EveryTurnCounts
