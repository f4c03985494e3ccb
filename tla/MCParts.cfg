SPECIFICATION PartSpec
CONSTANTS
  Parts = {"limiter", "registry", "cli", "tenant", "audit", "contracts"}
  Callers = {c1, c2, c3, c4}
  MaxConcurrent = 2
  QueueTimeout = TRUE
  TaskIds = {t1, t2, t3, t4}
  MaxTasks = 2
  CliSteps = {s1, s2, s3}
  MaxSignals = 2
  TaskRequests = {r1, r2, r3, r4}
  TaskLimit = 2
  RequestLimit = 3
  MaxGuardTime = 2
  WindowMs = 1
  CacheTtlMs = 0
  MaxEntries = 5
  PageLimit = 2
  AgentRoles = {"supervisor", "parser", "planner", "specialist", "synthesizer", "verifier"}
CHECK_DEADLOCK FALSE
INVARIANTS
  CountIsRunning
  NoStrandedWaiter
  RegistryConsistent
  ResultLostOnlyIfCancelledOrGone
  ExitCodeIsTrue
  ConcurrencyBounded
  PagesMissNothing
  OneRetryRepairs
PROPERTIES
  OnlyOvertakingExceeds
  EveryEndAdvances
  EveryWaiterServed
  TerminalIsFinal
  CancelledRunExits
