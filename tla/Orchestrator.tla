---------------------------- MODULE Orchestrator ----------------------------
(***************************************************************************)
(* One call of Orchestrator.run (src/liku/orchestrator/orchestrator.ts):   *)
(* supervisor, parser, planner, the steps of the plan in batches, the      *)
(* synthesizer, and finishRun.  Each action is the code between two        *)
(* awaits.  A step of the plan goes through the orchestrator's limiter     *)
(* (no queue timeout): it is queued, then begins when the limiter lets it, *)
(* in any order with the other queued steps, since other runs share the    *)
(* limiter.  What a step does inside runStep is its outcome: an agent      *)
(* error, an LLM error (an abort among them), an escalation or a success.  *)
(* Around the run, its task may be cancelled, evicted or deleted.          *)
(***************************************************************************)
EXTENDS Plans

CONSTANTS
  Inputs,  \* [plan, given, abortOnError] records: input.plan and its presence,
           \* and config.abortOnError
  Task     \* the id the registry gives to this run

Agents == {"supervisor", "parser", "planner", "synthesizer"}

\* A plan is an array; its ids are unique, and none is that of an agent of the run itself.
ASSUME InputsAssumption ==
  \A i \in Inputs :
    /\ i.given \in BOOLEAN /\ i.abortOnError \in BOOLEAN
    /\ DOMAIN i.plan \subseteq Nat /\ IsFiniteSet(DOMAIN i.plan)
    /\ \A j, k \in DOMAIN i.plan : i.plan[j].id = i.plan[k].id => j = k
    /\ \A j \in DOMAIN i.plan : i.plan[j].id \notin Agents /\ i.plan[j].parallel \in BOOLEAN

\* parsePlannerOutput: no output of runStep has a goalSummary at its top level,
\* so the plan is always the default one.
DefaultPlan == <<[id |-> "ts-execution", dependsOn |-> {}, parallel |-> FALSE]>>

StepIds == Agents \union {"ts-execution"} \union (UNION {IdsOf(i.plan) : i \in Inputs})

VARIABLES
  input,       \* the argument of run; never changes
  pc,          \* where run and executeStepsWithEvents are
  step,        \* progress of every step
  completed,   \* the set `completed' of the executor
  sequential,  \* positions of the rest of sequentialSteps of the current batch
  parallel,    \* parallelSteps of the current batch
  reported,    \* steps whose result is in the array `steps' of the result
  events,      \* events emitted, in order
  late,        \* the total timeout has passed
  registry     \* the task registry, as far as this run's task is concerned

vars == <<input, pc, step, completed, sequential, parallel, reported, events,
          late, registry>>
executor == <<completed, sequential, parallel>>

R == INSTANCE TaskRegistry WITH TaskIds <- {Task}, MaxTasks <- 1

Plan    == IF input.given THEN input.plan ELSE DefaultPlan
PlanIds == IdsOf(Plan)

Finished == {"success", "error", "escalated"}
Done(s)  == step[s] \in Finished
Begun    == {s \in StepIds : step[s] \notin {"none", "queued"}}
InFlight == {s \in StepIds : step[s] \in {"queued", "running", "expired"}}
With(o)  == {s \in PlanIds : step[s] = o}

Init ==
  /\ input \in Inputs
  /\ pc = "start"
  /\ step = [s \in StepIds |-> "none"]
  /\ completed = {} /\ sequential = {} /\ parallel = {}
  /\ reported = {}
  /\ events = <<>>
  /\ late = FALSE
  /\ registry = R!EmptyRegistry

-----------------------------------------------------------------------------
(* A single step: runStepWithEvents and runStep.                           *)

\* step_started is emitted; runStep gives up at once after the total timeout.
Begin(s) ==
  /\ \/ s \in Agents /\ pc = s /\ step[s] = "none"
     \/ step[s] = "queued"
  /\ step' = [step EXCEPT ![s] = IF late THEN "expired" ELSE "running"]
  /\ events' = Append(events, <<"step_started", s>>)
  /\ UNCHANGED <<input, pc, executor, reported, late, registry>>

\* runStep returns (it never throws): step_completed, and escalation with it.
End(s) ==
  /\ \E o \in Finished :
       /\ step[s] = "running" \/ (step[s] = "expired" /\ o = "error")
       /\ step' = [step EXCEPT ![s] = o]
       /\ events' = Append(events, <<"step_completed", s>>)
                      \o IF o = "escalated" THEN <<<<"escalation", s>>>> ELSE <<>>
  /\ UNCHANGED <<input, pc, executor, reported, late, registry>>

-----------------------------------------------------------------------------
(* run: the pipeline.                                                      *)

Start ==
  /\ pc = "start"
  /\ registry' = R!StatusUpdated(R!Created(registry, Task), Task, "running")
  /\ events' = <<<<"run_started", Task>>>>
  /\ pc' = "supervisor"
  /\ UNCHANGED <<input, step, executor, reported, late>>

\* Mutated form of Return: an escalation is returned without its event.
ReturnSilently(kind) ==
  /\ registry' = R!ResultSet(registry, Task, kind)
  /\ events' = IF kind = "escalation" THEN events ELSE Append(events, <<"run_completed", kind>>)
  /\ pc' = "returned"

\* finishRun: the result goes to the registry, which may refuse it, and
\* run_completed is emitted either way.
Return(kind) ==
  /\ registry' = R!ResultSet(registry, Task, kind)
  /\ events' = Append(events, <<"run_completed", kind>>)
  /\ pc' = "returned"

Continue(next) == pc' = next /\ UNCHANGED <<registry, events>>

\* `error' and abortOnError
Aborts(s) == step[s] = "error" /\ input.abortOnError

AfterSupervisor ==
  /\ pc = "supervisor" /\ Done("supervisor")
  /\ reported' = reported \union {"supervisor"}
  /\ IF Aborts("supervisor") THEN Return("error")
     ELSE IF step["supervisor"] = "escalated" THEN Return("escalation")
     ELSE Continue("parser")
  /\ UNCHANGED <<input, step, executor, late>>

\* An escalation of the parser or of the planner is not looked at.
AfterParser ==
  /\ pc = "parser" /\ Done("parser")
  /\ reported' = reported \union {"parser"}
  /\ IF Aborts("parser") THEN Return("error")
     ELSE Continue(IF input.given THEN "batch" ELSE "planner")
  /\ UNCHANGED <<input, step, executor, late>>

AfterPlanner ==
  /\ pc = "planner" /\ Done("planner")
  /\ reported' = reported \union {"planner"}
  /\ IF Aborts("planner") THEN Return("error") ELSE Continue("batch")
  /\ UNCHANGED <<input, step, executor, late>>

-----------------------------------------------------------------------------
(* executeStepsWithEvents                                                  *)

\* What a batch is made of: the steps to run one by one, and all at once.
Split(batch) ==
  /\ sequential' = {i \in batch : ~Plan[i].parallel}
  /\ parallel' = {Plan[i].id : i \in {j \in batch : Plan[j].parallel}}

\* The sequential step whose turn it is: the first one in the plan.
First == CHOOSE i \in sequential : \A j \in sequential : i <= j
Turn  == Plan[First].id

\* Mutated form of NextBatch: no `break' when no step is ready.
NextBatchUnbroken ==
  /\ pc = "batch"
  /\ IF completed = PlanIds THEN Continue("collect") /\ UNCHANGED executor
     ELSE Split(ReadySteps(Plan, completed)) /\ Continue("sequential") /\ UNCHANGED completed
  /\ UNCHANGED <<input, step, reported, late>>

\* The head of the while loop: leave it when all steps are completed, or when
\* none is ready, else split the ready steps.
NextBatch ==
  /\ pc = "batch"
  /\ LET batch == ReadySteps(Plan, completed)
     IN IF completed = PlanIds \/ batch = {}
        THEN Continue("collect") /\ UNCHANGED executor
        ELSE /\ Split(batch)
             /\ Continue("sequential")
             /\ UNCHANGED completed
  /\ UNCHANGED <<input, step, reported, late>>

\* Mutated form of LaunchSequential: the steps are not awaited one by one.
LaunchSequentialAll ==
  /\ pc = "sequential" /\ sequential # {}
  /\ step[Turn] = "none"
  /\ step' = [s \in StepIds |-> IF \E i \in sequential : Plan[i].id = s
                                THEN "queued" ELSE step[s]]
  /\ UNCHANGED <<input, pc, executor, reported, events, late, registry>>

LaunchSequential ==
  /\ pc = "sequential" /\ sequential # {}
  /\ step[Turn] = "none"
  /\ step' = [step EXCEPT ![Turn] = "queued"]
  /\ UNCHANGED <<input, pc, executor, reported, events, late, registry>>

\* Mutated form of AfterSequential: a failure does not end the executor.
AfterSequentialAnyway ==
  /\ pc = "sequential" /\ sequential # {}
  /\ Done(Turn)
  /\ completed' = completed \union {Turn}
  /\ sequential' = sequential \ {First}
  /\ Continue("sequential")
  /\ UNCHANGED <<input, step, parallel, reported, late>>

AfterSequential ==
  /\ pc = "sequential" /\ sequential # {}
  /\ Done(Turn)
  /\ completed' = completed \union {Turn}
  /\ sequential' = sequential \ {First}
  /\ Continue(IF Aborts(Turn) THEN "collect" ELSE "sequential")
  /\ UNCHANGED <<input, step, parallel, reported, late>>

\* Mutated form of LaunchParallel: a batch without parallel steps is the last.
LaunchParallelOrStop ==
  /\ pc = "sequential" /\ sequential = {}
  /\ step' = [s \in StepIds |-> IF s \in parallel THEN "queued" ELSE step[s]]
  /\ Continue(IF parallel = {} THEN "collect" ELSE "parallel")
  /\ UNCHANGED <<input, executor, reported, late>>

\* Promise.all over the parallel steps: all are handed to the limiter at once.
LaunchParallel ==
  /\ pc = "sequential" /\ sequential = {}
  /\ step' = [s \in StepIds |-> IF s \in parallel THEN "queued" ELSE step[s]]
  /\ Continue(IF parallel = {} THEN "batch" ELSE "parallel")
  /\ UNCHANGED <<input, executor, reported, late>>

\* Mutated form of AfterParallel: Promise.race in the place of Promise.all.
AfterParallelRace ==
  /\ pc = "parallel"
  /\ \E s \in parallel : Done(s)
  /\ completed' = completed \union parallel
  /\ Continue(IF \E s \in parallel : Aborts(s) THEN "collect" ELSE "batch")
  /\ UNCHANGED <<input, step, sequential, parallel, reported, late>>

\* Promise.all resolves when every one of them has.
AfterParallel ==
  /\ pc = "parallel"
  /\ \A s \in parallel : Done(s)
  /\ completed' = completed \union parallel
  /\ Continue(IF \E s \in parallel : Aborts(s) THEN "collect" ELSE "batch")
  /\ UNCHANGED <<input, step, sequential, parallel, reported, late>>

-----------------------------------------------------------------------------
(* run, after the executor: failures, synthesizer, result.                 *)

Collect ==
  /\ pc = "collect"
  /\ reported' = reported \union completed
  /\ IF With("escalated") # {} THEN Return("escalation")
     ELSE IF With("error") # {} /\ input.abortOnError THEN Return("error")
     ELSE Continue("synthesizer")
  /\ UNCHANGED <<input, step, executor, late>>

\* Mutated form of AfterSynthesizer: failed steps are forgotten.
AfterSynthesizerOk ==
  /\ pc = "synthesizer" /\ Done("synthesizer")
  /\ reported' = reported \union {"synthesizer"}
  /\ Return("ok")
  /\ UNCHANGED <<input, step, executor, late>>

\* The status of the synthesizer is not looked at.
AfterSynthesizer ==
  /\ pc = "synthesizer" /\ Done("synthesizer")
  /\ reported' = reported \union {"synthesizer"}
  /\ Return(IF With("error") # {} THEN "partial" ELSE "ok")
  /\ UNCHANGED <<input, step, executor, late>>

-----------------------------------------------------------------------------
(* The world around the run.                                               *)

Environment(reg) ==
  /\ pc # "start"
  /\ registry' = reg
  /\ UNCHANGED <<input, pc, step, executor, reported, events, late>>

\* totalTimeoutMs passes
Expire ==
  /\ pc \notin {"start", "returned"} /\ ~late
  /\ late' = TRUE
  /\ UNCHANGED <<input, pc, step, executor, reported, events, registry>>

\* A request is handled only while the run awaits a step of its own.
Cancel ==
  /\ R!Cancellable(registry, Task) /\ InFlight # {}
  /\ Environment(R!Cancelled(registry, Task))

\* Other runs fill the registry until this task is the oldest, or it is deleted.
Evict == Environment(R!Deleted(registry, Task))

-----------------------------------------------------------------------------
Advance == Start \/ AfterSupervisor \/ AfterParser \/ AfterPlanner \/ NextBatch
           \/ LaunchSequential \/ AfterSequential \/ LaunchParallel
           \/ AfterParallel \/ Collect \/ AfterSynthesizer

Next ==
  \/ Advance
  \/ \E s \in StepIds : Begin(s) \/ End(s)
  \/ Expire \/ Cancel \/ Evict

Spec == Init /\ [][Next]_vars

\* Something of the run moves as long as anything can: the engine resumes it,
\* the limiter serves its queue, and agent and LLM calls end.
FairSpec == Spec /\ WF_vars(Advance \/ \E s \in StepIds : Begin(s) \/ End(s))

\* The engine and the limiter are fair, but of the calls only what the
\* orchestrator itself bounds is assumed to end: the steps runStep gives up.
HangSpec ==
  /\ Spec
  /\ WF_vars(Advance)
  /\ \A s \in StepIds : WF_vars(Begin(s)) /\ WF_vars(step[s] = "expired" /\ End(s))
=============================================================================
