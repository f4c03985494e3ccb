--------------------------- MODULE TaskLifecycle ---------------------------
(***************************************************************************)
(* Who uses the task registry, and when.  Orchestrator.run registers a     *)
(* task and marks it running in one synchronous stretch of code; much      *)
(* later, finishRun stores the result, once.  In between, requests of the  *)
(* HTTP servers cancel tasks, users of the library delete them, and other  *)
(* runs start, which evicts the oldest task of a full registry.            *)
(***************************************************************************)
EXTENDS TaskRegistry

VARIABLES
  registry,  \* the singleton taskRegistry
  run,       \* progress of the run of each task id: new, active, ended
  outcome    \* what setResult answered to the run: "none" before it ended

lifecycleVars == <<registry, run, outcome>>

LifecycleInit ==
  /\ registry = EmptyRegistry
  /\ run = [t \in TaskIds |-> "new"]
  /\ outcome = [t \in TaskIds |-> "none"]

\* Mutated form of Start: the status is not updated.
StartWithoutUpdate(t) ==
  /\ run[t] = "new"
  /\ registry' = Created(registry, t)
  /\ run' = [run EXCEPT ![t] = "active"]
  /\ UNCHANGED outcome

\* Orchestrator.run: create, then updateStatus(taskId, "running").
Start(t) ==
  /\ run[t] = "new"
  /\ registry' = StatusUpdated(Created(registry, t), t, "running")
  /\ run' = [run EXCEPT ![t] = "active"]
  /\ UNCHANGED outcome

\* finishRun: setResult, whose outcome the orchestrator ignores.
FinishRun(t) ==
  /\ run[t] = "active"
  /\ outcome' = [outcome EXCEPT ![t] = SetResultOutcome(registry, t)]
  /\ \E kind \in ResultKind : registry' = ResultSet(registry, t, kind)
  /\ run' = [run EXCEPT ![t] = "ended"]

\* tasks/cancel: any id that was handed out, of a task still there or not.
Cancel(t) ==
  /\ run[t] # "new"
  /\ registry' = Cancelled(registry, t)
  /\ UNCHANGED <<run, outcome>>

\* The exported delete.
Delete(t) ==
  /\ run[t] # "new"
  /\ registry' = Deleted(registry, t)
  /\ UNCHANGED <<run, outcome>>

LifecycleNext == \E t \in TaskIds : Start(t) \/ FinishRun(t) \/ Cancel(t) \/ Delete(t)

LifecycleSpec == LifecycleInit /\ [][LifecycleNext]_lifecycleVars

-----------------------------------------------------------------------------
LifecycleTypeOK ==
  /\ registry \in Registry
  /\ run \in [TaskIds -> {"new", "active", "ended"}]
  /\ outcome \in [TaskIds -> {"none", "set", "idempotent", "already_terminal", "not_found"}]

\* The two Maps and the insertion order list the same tasks, each once: an
\* eviction or a deletion never leaves a controller behind.
MapsAgree ==
  /\ ToSet(registry.order) = Present(registry)
  /\ IsInjective(registry.order)
  /\ registry.controllers = Present(registry)

\* However runs, cancels and deletions interleave, the registry is bounded.
Bounded == Len(registry.order) <= MaxTasks

\* A status never contradicts the rest of the task: a result is stored in
\* exactly the tasks that ran to their end, and the signal has fired for
\* exactly the cancelled ones.
StatusMatchesData ==
  \A t \in Present(registry) :
    /\ registry.status[t] = "failed" <=> registry.result[t] = "error"
    /\ registry.status[t] \in {"completed", "failed"} <=> registry.result[t] # "none"
    /\ registry.status[t] = "cancelled" <=> t \in registry.aborted

\* No task stays "running" after its run ended, and none is reported finished
\* before: while its run is active a task is running or cancelled.
StatusMatchesRun ==
  \A t \in Present(registry) :
    /\ run[t] = "active" => registry.status[t] \in {"running", "cancelled"}
    /\ run[t] = "ended"  => registry.status[t] \in Terminal
    /\ run[t] # "new"

\* What a reader of the registry relies on: its collections, the data of its tasks
\* and the runs behind them tell the same story, whatever an eviction, a cancel or
\* a deletion does while a run goes on.
RegistryConsistent == MapsAgree /\ StatusMatchesData /\ StatusMatchesRun

\* An outcome is final: once a task is completed, failed or cancelled, later
\* cancels and results leave it as it is for as long as it is kept.
TerminalIsFinal ==
  [][\A t \in TaskIds :
       registry.status[t] \in Terminal /\ registry'.status[t] # "absent"
         => /\ registry'.status[t] = registry.status[t]
            /\ registry'.result[t] = registry.result[t]]_lifecycleVars

\* A result is lost only for a reason: the task was cancelled, or is gone.
ResultLostOnlyIfCancelledOrGone ==
  \A t \in TaskIds :
    /\ outcome[t] = "already_terminal" => t \in registry.aborted
    /\ outcome[t] = "not_found" => t \notin Present(registry)
    /\ outcome[t] = "set" => registry.status[t] \in {"absent", "completed", "failed"}
    /\ outcome[t] # "idempotent"
=============================================================================
