-------------------------- MODULE OrchestratorProps --------------------------
(* What Orchestrator.run promises, whatever the plan, the outcomes of the    *)
(* steps, and the moment at which its task is cancelled, evicted or late.    *)
EXTENDS Orchestrator

\* What is emitted: a run or a step, or the kind of the result.
EventNames == {"run_started", "step_started", "step_completed", "escalation", "run_completed"}
Events == EventNames \X (StepIds \union {Task} \union {"ok", "partial", "escalation", "error"})

TypeOK ==
  /\ input \in Inputs
  /\ pc \in {"start", "batch", "sequential", "parallel", "collect", "returned"} \union Agents
  /\ step \in [StepIds -> {"none", "queued", "running", "expired"} \union Finished]
  /\ completed \subseteq PlanIds /\ parallel \subseteq PlanIds
  /\ sequential \subseteq DOMAIN Plan
  /\ reported \subseteq StepIds
  /\ late \in BOOLEAN
  /\ events \in Seq(Events)

\* "Dependencies - step IDs that must complete first": when a step of the plan
\* has begun, the steps it depends on have all run to their end.
DependenciesFirst ==
  \A s \in PlanIds \intersect Begun : \A d \in StepOf(Plan, s).dependsOn :
    d \in PlanIds /\ Done(d)

\* A step that is not marked parallel has the plan to itself: while it is under
\* way no other step of the run is.
SequentialRunsAlone ==
  \A s \in PlanIds : ~StepOf(Plan, s).parallel /\ s \in InFlight => InFlight = {s}

\* With abortOnError no step is handed to the limiter once a step of the plan
\* has failed; those handed over before it still run.
NothingLaunchedAfterFailure ==
  [][input.abortOnError /\ With("error") # {}
       => \A s \in PlanIds : step[s] = "none" => step'[s] = "none"]_vars

\* The event stream is well formed: run_started first, exactly one
\* run_completed, last, once the run has returned and not before; each step
\* starts at most once and completes after it started.
Positions(e) == {i \in DOMAIN events : events[i] = e}
EventsWellFormed ==
  /\ {i \in DOMAIN events : events[i][1] = "run_completed"}
       = IF pc = "returned" THEN {Len(events)} ELSE {}
  /\ \A s \in StepIds :
       /\ Cardinality(Positions(<<"step_started", s>>)) = IF s \in Begun THEN 1 ELSE 0
       /\ Cardinality(Positions(<<"step_completed", s>>)) = IF Done(s) THEN 1 ELSE 0
       /\ \A i \in Positions(<<"step_started", s>>), j \in Positions(<<"step_completed", s>>) :
            1 < i /\ i < j

\* The kind of the result, in the last event, tells what happened to the steps
\* of the plan; and the registry tells the same, unless the task was cancelled
\* or is gone.
OutcomeMatchesSteps ==
  pc = "returned" =>
    LET kind == events[Len(events)][2]
    IN /\ kind = "ok" => With("error") = {} /\ With("escalated") = {}
       /\ kind = "partial" => With("error") # {} /\ ~input.abortOnError
       /\ With("escalated") # {} => kind = "escalation"
       /\ registry.status[Task] \notin {"cancelled", "absent"} => registry.result[Task] = kind

\* A plan whose dependencies exist and have no cycle is executed completely,
\* unless a failure stops it: the batches never skip a step.
ExecutablePlanRunsCompletely ==
  pc = "synthesizer" /\ Executable(Plan) => \A s \in PlanIds : Done(s)

\* What a run has yet to do.  Its stages in this order, the loop of the executor
\* turning back from `batch' to `sequential'; steps to complete, to launch, to
\* begin and to end; and, before all that, steps that have not been in a batch.
Stage == [start |-> 1, supervisor |-> 2, parser |-> 3, planner |-> 4, sequential |-> 5,
          parallel |-> 6, batch |-> 7, collect |-> 8, synthesizer |-> 9, returned |-> 10]
OwnSteps == PlanIds \union Agents
Unplanned == PlanIds \ (completed \union {Plan[i].id : i \in sequential} \union parallel)
WorkLeft == <<Stage[pc]..9, PlanIds \ completed, {s \in OwnSteps : step[s] = "none"},
              OwnSteps \ Begun, {s \in OwnSteps : ~Done(s)}>>

\* The loop of the executor ends, whatever the dependencies: each move of the run
\* gets something done and undoes nothing, but for the next turn of the loop, which
\* takes steps that were in no batch before.  So a run makes finitely many moves.
EveryMoveCounts ==
  [][\/ UNCHANGED <<pc, step, executor>>   \* a cancel, an eviction, the timeout
     \/ Unplanned' \subseteq Unplanned /\ Unplanned' # Unplanned
     \/ /\ Unplanned' = Unplanned
        /\ \A k \in 1..5 : WorkLeft'[k] \subseteq WorkLeft[k]
        /\ WorkLeft' # WorkLeft]_vars

\* The run as its caller sees it; the kind of the result is in the last event.
Returned == pc = "returned"
Abstract == INSTANCE AbstractRun
  WITH RunSteps <- StepIds, launched <- Begun, ended <- {s \in StepIds : Done(s)},
       reported <- IF Returned THEN reported ELSE {},
       result <- IF Returned THEN events[Len(events)][2] ELSE "none"

\* run keeps the promise its callers (the CLI, the HTTP servers) build on: it
\* resolves once, with a result that lists every step that began, when all of
\* them have ended, so nothing it started runs on after it; and it does resolve,
\* even when the dependencies of the plan have a cycle, are missing or can never
\* be met, as long as the calls of its steps end.
ImplementsRun == Abstract!RunPromise

\* types.ts, stepTimeoutMs: "Timeout per step in ms"; runStep: "Execute a single
\* step with timeout and error handling".  A step that began ends, even if the
\* call it makes does not.
StepsTimeOut == \A s \in StepIds : step[s] = "running" ~> Done(s)

\* http.ts, of DELETE /tasks/:id: "Cancel a running task".  Once the registry says
\* that the task is cancelled, no step of its run begins.
CancelledRunStops == [][registry.status[Task] = "cancelled" => Begun' = Begun]_vars
=============================================================================
