SPECIFICATION FairSpec
CONSTANTS
  Inputs <- MCInputs
  Task = task
CHECK_DEADLOCK FALSE
INVARIANTS
  DependenciesFirst
  SequentialRunsAlone
  EventsWellFormed
  OutcomeMatchesSteps
  ExecutablePlanRunsCompletely
PROPERTIES
  NothingLaunchedAfterFailure
  EveryMoveCounts
  ImplementsRun
