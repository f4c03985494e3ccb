------------------------- MODULE OrchestratorProofs -------------------------
(***************************************************************************)
(* What Orchestrator.run promises holds for every plan: the order and the  *)
(* isolation of its steps, and that a caller sees an AbstractRun.          *)
(***************************************************************************)
EXTENDS OrchestratorProps, FiniteSetTheorems, WellFoundedInduction, TLAPS

Step(s) == StepOf(Plan, s)

\* Agents come one after the other: one that has begun is the one run is at,
\* unless it is in the result already.
AgentsInTurn == \A s \in Agents : step[s] # "none" /\ s \notin reported => pc = s

\* What is in the result, or in `completed', has ended; `completed' contains
\* what its steps depend on.
ReportedDone  == \A s \in reported : Done(s)
CompletedDone == \A s \in completed : Done(s) /\ Step(s).dependsOn \subseteq completed

\* Of the steps of the plan that are not completed, only those of the batch that
\* is under way have been touched: the sequential one whose turn it is, or the
\* parallel ones.
InBatch ==
  \A s \in PlanIds \ completed :
    step[s] # "none" => \/ pc = "sequential" /\ sequential # {} /\ s = Turn
                        \/ pc = "parallel" /\ s \in parallel

OthersIdle == \A s \in StepIds : s \notin Agents /\ s \notin PlanIds => step[s] = "none"

\* The steps of a batch are ready.
SequentialReady ==
  pc = "sequential" =>
    \A i \in sequential : /\ ~Plan[i].parallel /\ Plan[i].id \notin completed
                          /\ Plan[i].dependsOn \subseteq completed
ParallelReady ==
  pc \in {"sequential", "parallel"} =>
    \A s \in parallel : Step(s).parallel /\ s \notin completed /\ Step(s).dependsOn \subseteq completed

\* Where run is, and what is in `completed' and in the result.
BeforeExecutor == pc \in {"start", "supervisor", "parser", "planner"} => completed = {}
AfterExecutor ==
  /\ pc = "synthesizer" => completed \subseteq reported
  /\ pc = "returned" => Begun \subseteq reported

\* Why the executor is over, and that a failure ends it.
Failed == input.abortOnError /\ With("error") # {}
ExecutorOver ==
  /\ pc \in {"collect", "synthesizer"} =>
       completed = PlanIds \/ ReadySteps(Plan, completed) = {} \/ Failed
  /\ pc = "synthesizer" => ~Failed
AbortStops ==
  input.abortOnError /\ pc \in {"batch", "sequential", "parallel"} =>
    \A s \in completed : step[s] # "error"

RunInv ==
  /\ TypeOK
  /\ AgentsInTurn /\ ReportedDone /\ CompletedDone /\ InBatch /\ OthersIdle
  /\ SequentialReady /\ ParallelReady /\ BeforeExecutor /\ AfterExecutor
  /\ ExecutorOver /\ AbortStops

-----------------------------------------------------------------------------
(* The plan.                                                               *)

\* Ids are unique, so that a step is found by its id.
LEMMA PlanFacts ==
  ASSUME input \in Inputs
  PROVE  /\ input.abortOnError \in BOOLEAN
         /\ DOMAIN Plan \subseteq Nat
         /\ \A j, k \in DOMAIN Plan : Plan[j].id = Plan[k].id => j = k
         /\ \A j \in DOMAIN Plan : /\ Plan[j].id \in PlanIds /\ Plan[j].parallel \in BOOLEAN
                                   /\ Step(Plan[j].id) = Plan[j]
         /\ \A s \in PlanIds : s \in StepIds /\ s \notin Agents /\ \E j \in DOMAIN Plan : Plan[j].id = s
         /\ Agents \subseteq StepIds
<1>1. /\ DOMAIN Plan \subseteq Nat
      /\ \A j, k \in DOMAIN Plan : Plan[j].id = Plan[k].id => j = k
      /\ \A j \in DOMAIN Plan : Plan[j].id \notin Agents /\ Plan[j].parallel \in BOOLEAN
  <2>1. CASE input.given
    BY <2>1, InputsAssumption DEF Plan
  <2>2. CASE ~input.given
    <3>1. Plan = <<[id |-> "ts-execution", dependsOn |-> {}, parallel |-> FALSE]>>
      BY <2>2 DEF Plan, DefaultPlan
    <3>2. /\ DOMAIN Plan = {1} /\ Plan[1].id = "ts-execution" /\ Plan[1].parallel = FALSE
      BY <3>1
    <3>3. "ts-execution" \notin Agents
      BY DEF Agents
    <3>4. \A j \in DOMAIN Plan : j = 1
      BY <3>2
    <3>5. \A j \in DOMAIN Plan : Plan[j].id \notin Agents /\ Plan[j].parallel \in BOOLEAN
      BY <3>2, <3>3, <3>4
    <3>6. DOMAIN Plan \subseteq Nat
      BY <3>4
    <3>q. QED BY <3>4, <3>5, <3>6
  <2>q. QED BY <2>1, <2>2
<1>2. PlanIds \subseteq StepIds
  <2>1. CASE input.given
    BY <2>1 DEF PlanIds, Plan, StepIds
  <2>2. CASE ~input.given
    <3>1. Plan = <<[id |-> "ts-execution", dependsOn |-> {}, parallel |-> FALSE]>>
      BY <2>2 DEF Plan, DefaultPlan
    <3>2. DOMAIN Plan = {1} /\ Plan[1].id = "ts-execution"
      BY <3>1
    <3>3. \A s \in PlanIds : s = "ts-execution"
      BY <3>2 DEF PlanIds, IdsOf
    <3>4. "ts-execution" \in StepIds
      BY DEF StepIds
    <3>q. QED BY <3>3, <3>4
  <2>q. QED BY <2>1, <2>2
<1>3. \A j \in DOMAIN Plan : Step(Plan[j].id) = Plan[j]
  BY <1>1 DEF Step, StepOf
<1>q. QED BY <1>1, <1>2, <1>3, InputsAssumption DEF PlanIds, IdsOf, StepIds

\* As long as there is a sequential step left, it is somebody's turn.
LEMMA TurnFacts ==
  ASSUME TypeOK, sequential # {}
  PROVE  First \in sequential /\ Turn = Plan[First].id /\ Turn \in PlanIds
<1>1. sequential \subseteq Nat /\ sequential \subseteq DOMAIN Plan
  BY PlanFacts DEF TypeOK
<1>2. \E i \in sequential : \A j \in sequential : i <= j
  <2>1. PICK i \in sequential : \A j \in sequential : ~(<<j, i>> \in OpToRel(<, Nat))
    BY <1>1, NatLessThanWellFounded, WFMin
  <2>2. \A j \in sequential : ~(j < i)
    BY <1>1, <2>1 DEF OpToRel
  <2>q. QED BY <1>1, <2>2
<1>3. First \in sequential
  BY <1>2 DEF First
<1>q. QED BY <1>1, <1>3, PlanFacts DEF Turn, TypeOK

\* run never changes its argument, and so not its plan.
LEMMA SamePlan ==
  ASSUME input' = input
  PROVE  /\ Plan' = Plan /\ PlanIds' = PlanIds
         /\ \A s : Step(s)' = Step(s)
         /\ ReadySteps(Plan', completed') = ReadySteps(Plan, completed')
BY DEF Plan, PlanIds, Step

-----------------------------------------------------------------------------
(* Types.                                                                  *)

LEMMA EventTypes ==
  /\ \A s \in StepIds : /\ <<"step_started", s>> \in Events
                        /\ <<"step_completed", s>> \in Events
                        /\ <<"escalation", s>> \in Events
  /\ <<"run_started", Task>> \in Events
  /\ \A kind \in {"ok", "partial", "escalation", "error"} : <<"run_completed", kind>> \in Events
BY DEF Events, EventNames

LEMMA InitialTypes == Init => TypeOK
<1>1. Init => events \in Seq(Events)
  BY DEF Init
<1>q. QED BY <1>1 DEF Init, TypeOK

LEMMA TypesKept == TypeOK /\ [Next]_vars => TypeOK'
<1> SUFFICES ASSUME TypeOK, [Next]_vars PROVE TypeOK'
  OBVIOUS
<1> DEFINE Progress == {"none", "queued", "running", "expired"} \union Finished
<1>0. input' = input
  BY DEF Next, Advance, Begin, End, Start, AfterSupervisor, AfterParser, AfterPlanner, NextBatch,
         LaunchSequential, AfterSequential, LaunchParallel, AfterParallel, Collect,
         AfterSynthesizer, Expire, Cancel, Evict, Environment, vars
<1>1. step' \in [StepIds -> Progress]
  <2>1. step \in [StepIds -> Progress]
    BY DEF TypeOK
  <2>2. ASSUME NEW s \in StepIds, Begin(s) PROVE step' \in [StepIds -> Progress]
    <3>1. PICK v \in Progress : step' = [step EXCEPT ![s] = v]
      BY <2>2 DEF Begin
    <3>q. QED BY <2>1, <3>1
  <2>3. ASSUME NEW s \in StepIds, End(s) PROVE step' \in [StepIds -> Progress]
    <3>1. PICK v \in Progress : step' = [step EXCEPT ![s] = v]
      BY <2>3 DEF End
    <3>q. QED BY <2>1, <3>1
  <2>4. CASE LaunchSequential
    BY <2>1, <2>4 DEF LaunchSequential
  <2>5. CASE LaunchParallel
    BY <2>1, <2>5 DEF LaunchParallel
  <2>6. CASE UNCHANGED step
    BY <2>1, <2>6
  <2>q. QED BY <2>2, <2>3, <2>4, <2>5, <2>6
     DEF Next, Advance, Start, AfterSupervisor, AfterParser, AfterPlanner, NextBatch,
         AfterSequential, AfterParallel, Collect, AfterSynthesizer, Expire, Cancel, Evict,
         Environment, vars
<1>2. events' \in Seq(Events)
  <2>1. events \in Seq(Events)
    BY DEF TypeOK
  <2>2. ASSUME NEW s \in StepIds, Begin(s) PROVE events' \in Seq(Events)
    <3>1. PICK e \in Events : events' = Append(events, e)
      BY <2>2, EventTypes DEF Begin
    <3>q. QED BY <2>1, <3>1
  <2>3. ASSUME NEW s \in StepIds, End(s) PROVE events' \in Seq(Events)
    <3>1. PICK o \in Finished :
            events' = Append(events, <<"step_completed", s>>)
                        \o IF o = "escalated" THEN <<<<"escalation", s>>>> ELSE <<>>
      BY <2>3 DEF End
    <3>2. PICK e \in Events : e = <<"step_completed", s>>
      BY EventTypes
    <3>3. PICK f \in Events : f = <<"escalation", s>>
      BY EventTypes
    <3>q. QED BY <2>1, <3>1, <3>2, <3>3
  <2>4. ASSUME NEW kind \in {"ok", "partial", "escalation", "error"}, Return(kind)
        PROVE  events' \in Seq(Events)
    BY <2>1, <2>4, EventTypes DEF Return
  <2>5. CASE Start
    BY <2>5, EventTypes DEF Start
  <2>6. CASE UNCHANGED events
    BY <2>1, <2>6
  <2>q. QED BY <2>2, <2>3, <2>4, <2>5, <2>6
     DEF Next, Advance, AfterSupervisor, AfterParser, AfterPlanner, NextBatch, LaunchSequential,
         AfterSequential, LaunchParallel, AfterParallel, Collect, AfterSynthesizer, Expire,
         Cancel, Evict, Environment, Continue, vars
<1>3. /\ completed' \subseteq PlanIds /\ parallel' \subseteq PlanIds
      /\ sequential' \subseteq DOMAIN Plan
  <2>1. CASE NextBatch
    BY <2>1, PlanFacts DEF NextBatch, Split, ReadySteps, TypeOK, executor
  <2>2. CASE AfterSequential
    BY <2>2, TurnFacts DEF AfterSequential, TypeOK
  <2>3. CASE AfterParallel
    BY <2>3 DEF AfterParallel, TypeOK
  <2>4. CASE UNCHANGED executor
    BY <2>4 DEF executor, TypeOK
  <2>q. QED BY <2>1, <2>2, <2>3, <2>4
     DEF Next, Advance, Begin, End, Start, AfterSupervisor, AfterParser, AfterPlanner,
         LaunchSequential, LaunchParallel, Collect, AfterSynthesizer, Expire, Cancel, Evict,
         Environment, vars, executor
<1>4. /\ pc' \in {"start", "batch", "sequential", "parallel", "collect", "returned"} \union Agents
      /\ late' \in BOOLEAN
  BY DEF TypeOK, Agents, Next, Advance, Begin, End, Start, AfterSupervisor, AfterParser, AfterPlanner,
         NextBatch, LaunchSequential, AfterSequential, LaunchParallel, AfterParallel, Collect,
         AfterSynthesizer, Return, Continue, Expire, Cancel, Evict, Environment, vars
<1>5. reported' \subseteq StepIds
  <2>1. Agents \subseteq StepIds /\ PlanIds \subseteq StepIds /\ completed \subseteq PlanIds
    BY PlanFacts DEF TypeOK
  <2>q. QED
    BY <2>1 DEF TypeOK, Agents, Next, Advance, Begin, End, Start, AfterSupervisor, AfterParser,
         AfterPlanner, NextBatch, LaunchSequential, AfterSequential, LaunchParallel,
         AfterParallel, Collect, AfterSynthesizer, Expire, Cancel, Evict, Environment, vars
<1>q. QED BY <1>0, <1>1, <1>2, <1>3, <1>4, <1>5, SamePlan DEF TypeOK

-----------------------------------------------------------------------------
(* The inductive invariant.                                                *)

LEMMA InvariantInitially == Init => RunInv
<1> SUFFICES ASSUME Init PROVE RunInv
  OBVIOUS
<1>1. TypeOK /\ input \in Inputs
  BY InitialTypes DEF TypeOK
<1>2. \A s \in StepIds : step[s] = "none"
  BY DEF Init
<1>3. PlanIds \subseteq StepIds /\ Agents \subseteq StepIds
  BY <1>1, PlanFacts
<1>q. QED
  BY <1>1, <1>2, <1>3
  DEF Init, RunInv, AgentsInTurn, ReportedDone, CompletedDone, InBatch, OthersIdle, SequentialReady,
      ParallelReady, BeforeExecutor, AfterExecutor, ExecutorOver, AbortStops

\* A step that has begun, or an agent whose turn it is, makes progress.
LEMMA Progresses ==
  ASSUME RunInv, TypeOK', NEW s \in StepIds, NEW v, v # "none",
         \/ step[s] \in {"queued", "running", "expired"}
         \/ s \in Agents /\ pc = s /\ step[s] = "none",
         step' = [step EXCEPT ![s] = v],
         UNCHANGED <<input, pc, executor, reported>>
  PROVE  RunInv'
<1>1. /\ input \in Inputs
      /\ Plan' = Plan /\ PlanIds' = PlanIds /\ (\A x : Step(x)' = Step(x))
      /\ ReadySteps(Plan', completed') = ReadySteps(Plan, completed)
      /\ completed' = completed /\ sequential' = sequential /\ parallel' = parallel
      /\ reported' = reported /\ pc' = pc /\ input' = input
  BY SamePlan DEF executor, RunInv, TypeOK
<1>2. /\ step'[s] = v /\ \A x \in StepIds : x # s => step'[x] = step[x]
      /\ ~Done(s) /\ s \notin completed /\ s \notin reported
  BY DEF RunInv, TypeOK, Done, Finished, ReportedDone, CompletedDone
<1>3. PlanIds \subseteq StepIds /\ Agents \subseteq StepIds /\ Agents \intersect PlanIds = {}
      /\ completed \subseteq PlanIds /\ reported \subseteq StepIds
  BY <1>1, PlanFacts DEF RunInv, TypeOK
<1>4. Turn' = Turn
  BY <1>1 DEF Turn, First
<1>5. AgentsInTurn'
  BY <1>1, <1>2, <1>3 DEF RunInv, AgentsInTurn
<1>6. ReportedDone' /\ CompletedDone'
  BY <1>1, <1>2, <1>3 DEF RunInv, ReportedDone, CompletedDone, Done
<1>7. InBatch' /\ OthersIdle'
  BY <1>1, <1>2, <1>3, <1>4 DEF RunInv, InBatch, OthersIdle
<1>8. SequentialReady' /\ ParallelReady' /\ BeforeExecutor'
  BY <1>1 DEF RunInv, SequentialReady, ParallelReady, BeforeExecutor
<1>9. pc \in {"collect", "synthesizer", "returned"} => s \notin PlanIds
  BY <1>1, <1>2, <1>3 DEF RunInv, InBatch
<1>10. AfterExecutor'
  <2>1. pc # "returned"
    BY <1>2, <1>3, <1>9 DEF RunInv, AgentsInTurn, OthersIdle, Agents
  <2>q. QED BY <1>1, <2>1 DEF RunInv, AfterExecutor
<1>11. ExecutorOver' /\ AbortStops'
  <2>1. With("error") \subseteq With("error")'
    BY <1>1, <1>2, <1>3 DEF With, Done, Finished
  <2>2. pc \in {"collect", "synthesizer"} => With("error")' = With("error")
    BY <1>1, <1>2, <1>3, <1>9 DEF With
  <2>q. QED BY <1>1, <1>2, <1>3, <2>1, <2>2 DEF RunInv, ExecutorOver, AbortStops, Failed
<1>q. QED BY <1>5, <1>6, <1>7, <1>8, <1>10, <1>11 DEF RunInv

\* Between its steps, run moves on: an agent that has ended enters the result,
\* so do the completed steps once the executor is over.
LEMMA MovesOn ==
  ASSUME RunInv, TypeOK', UNCHANGED <<input, step, executor>>,
         \/ Start \/ AfterSupervisor \/ AfterParser \/ AfterPlanner \/ Collect \/ AfterSynthesizer
         \/ UNCHANGED <<pc, reported>>
  PROVE  RunInv'
<1>1. /\ input \in Inputs
      /\ Plan' = Plan /\ PlanIds' = PlanIds /\ (\A x : Step(x)' = Step(x))
      /\ ReadySteps(Plan', completed') = ReadySteps(Plan, completed)
      /\ completed' = completed /\ sequential' = sequential /\ parallel' = parallel
      /\ step' = step /\ input' = input
  BY SamePlan DEF executor, RunInv, TypeOK
<1>2. PlanIds \subseteq StepIds /\ Agents \subseteq StepIds /\ Agents \intersect PlanIds = {}
      /\ completed \subseteq PlanIds /\ input.abortOnError \in BOOLEAN
  BY <1>1, PlanFacts DEF RunInv, TypeOK
<1>3. Turn' = Turn /\ With("error")' = With("error") /\ With("escalated")' = With("escalated")
      /\ Begun' = Begun /\ \A s : Done(s)' = Done(s)
  BY <1>1 DEF Turn, First, With, Begun, Done
<1> DEFINE Untouched(s) == s \in PlanIds \ completed => step[s] = "none"
<1>4. CASE Start \/ AfterSupervisor \/ AfterParser \/ AfterPlanner
  <2>1. pc \in {"start", "supervisor", "parser", "planner"} /\ completed = {}
        /\ pc' \in {"supervisor", "parser", "planner", "batch", "returned"}
    BY <1>4 DEF Start, AfterSupervisor, AfterParser, AfterPlanner, Return, Continue, RunInv, BeforeExecutor
  <2>2. \A s \in StepIds \ Agents : step[s] = "none"
    BY <1>2, <2>1 DEF RunInv, InBatch, OthersIdle
  <2>3. /\ pc # "start" => Done(pc)
        /\ reported' = IF pc = "start" THEN reported ELSE reported \union {pc}
        /\ pc = "start" => pc' = "supervisor"
    BY <1>4 DEF Start, AfterSupervisor, AfterParser, AfterPlanner, Return, Continue
  <2>4. AgentsInTurn' /\ ReportedDone' /\ CompletedDone'
    BY <1>1, <1>2, <1>3, <2>1, <2>3 DEF RunInv, AgentsInTurn, ReportedDone, CompletedDone, Agents
  <2>5. InBatch' /\ OthersIdle' /\ SequentialReady' /\ ParallelReady'
    BY <1>1, <1>2, <1>3, <2>1, <2>2 DEF RunInv, InBatch, OthersIdle, SequentialReady, ParallelReady
  <2>6. \A s \in Begun : pc' = "returned" => s \in reported'
    BY <1>2, <2>1, <2>2, <2>3 DEF Begun, RunInv, AgentsInTurn
  <2>7. BeforeExecutor' /\ AfterExecutor' /\ ExecutorOver' /\ AbortStops'
    BY <1>1, <1>3, <2>1, <2>6 DEF BeforeExecutor, AfterExecutor, ExecutorOver, AbortStops
  <2>q. QED BY <2>4, <2>5, <2>7 DEF RunInv
<1>5. CASE Collect \/ AfterSynthesizer
  <2>1. /\ pc \in {"collect", "synthesizer"} /\ pc' \in {"synthesizer", "returned"}
        /\ pc = "collect" => reported' = reported \union completed
        /\ pc = "synthesizer" => /\ Done("synthesizer") /\ pc' = "returned"
                                 /\ reported' = reported \union {"synthesizer"}
        /\ pc' = "synthesizer" => ~Failed
    BY <1>2, <1>5 DEF Collect, AfterSynthesizer, Return, Continue, Failed
  <2>2. \A s \in PlanIds \ completed : step[s] = "none"
    BY <2>1 DEF RunInv, InBatch
  <2>3. completed \subseteq reported'
    BY <2>1 DEF RunInv, AfterExecutor
  <2>4. AgentsInTurn' /\ ReportedDone' /\ CompletedDone'
    BY <1>1, <1>2, <1>3, <2>1 DEF RunInv, AgentsInTurn, ReportedDone, CompletedDone, Agents
  <2>5. InBatch' /\ OthersIdle' /\ SequentialReady' /\ ParallelReady' /\ BeforeExecutor'
    BY <1>1, <1>2, <1>3, <2>1, <2>2
    DEF RunInv, InBatch, OthersIdle, SequentialReady, ParallelReady, BeforeExecutor
  <2>6. \A s \in Begun : pc' = "returned" => s \in reported'
    BY <1>2, <2>1, <2>2, <2>3 DEF Begun, RunInv, AgentsInTurn, OthersIdle, Agents
  <2>7. AfterExecutor' /\ ExecutorOver' /\ AbortStops'
    BY <1>1, <1>3, <2>1, <2>3, <2>6 DEF RunInv, AfterExecutor, ExecutorOver, AbortStops, Failed
  <2>q. QED BY <2>4, <2>5, <2>7 DEF RunInv
<1>6. CASE UNCHANGED <<pc, reported>>
  BY <1>1, <1>3, <1>6
  DEF RunInv, AgentsInTurn, ReportedDone, CompletedDone, InBatch, OthersIdle, SequentialReady,
      ParallelReady, BeforeExecutor, AfterExecutor, ExecutorOver, AbortStops, Failed
<1>q. QED BY <1>4, <1>5, <1>6

\* The executor splits the ready steps, or is over.
LEMMA Batches == ASSUME RunInv, TypeOK', NextBatch PROVE RunInv'
<1>1. /\ input \in Inputs
      /\ Plan' = Plan /\ PlanIds' = PlanIds /\ (\A x : Step(x)' = Step(x))
      /\ ReadySteps(Plan', completed') = ReadySteps(Plan, completed)
      /\ completed' = completed /\ reported' = reported /\ step' = step /\ input' = input
      /\ pc = "batch" /\ pc' \in {"collect", "sequential"}
  BY SamePlan DEF executor, RunInv, TypeOK, NextBatch, Continue
<1>2. With("error")' = With("error") /\ \A s : Done(s)' = Done(s)
  BY <1>1 DEF With, Done
<1>3. pc' = "collect" => completed = PlanIds \/ ReadySteps(Plan, completed) = {}
  BY <1>1 DEF NextBatch, Continue
<1>4. pc' = "sequential" => Split(ReadySteps(Plan, completed))
  BY <1>1 DEF NextBatch, Continue
<1>5. \A s \in PlanIds \ completed : step[s] = "none"
  BY <1>1 DEF RunInv, InBatch
<1>6. AgentsInTurn' /\ ReportedDone' /\ CompletedDone' /\ OthersIdle' /\ InBatch'
  BY <1>1, <1>2, <1>5 DEF RunInv, AgentsInTurn, ReportedDone, CompletedDone, OthersIdle, InBatch, Agents
<1>7. SequentialReady'
  BY <1>1, <1>4, PlanFacts DEF Split, ReadySteps, SequentialReady
<1>8. ParallelReady'
  BY <1>1, <1>4, PlanFacts DEF Split, ReadySteps, ParallelReady
<1>9. BeforeExecutor' /\ AfterExecutor' /\ ExecutorOver' /\ AbortStops'
  BY <1>1, <1>2, <1>3 DEF RunInv, BeforeExecutor, AfterExecutor, ExecutorOver, AbortStops
<1>q. QED BY <1>6, <1>7, <1>8, <1>9 DEF RunInv

\* The sequential step whose turn it is goes to the limiter.
LEMMA SequentialLaunched == ASSUME RunInv, TypeOK', LaunchSequential PROVE RunInv'
<1>1. /\ input \in Inputs
      /\ Plan' = Plan /\ PlanIds' = PlanIds /\ (\A x : Step(x)' = Step(x))
      /\ completed' = completed /\ sequential' = sequential /\ parallel' = parallel
      /\ reported' = reported /\ input' = input
      /\ pc = "sequential" /\ pc' = pc /\ sequential # {}
  BY SamePlan DEF executor, RunInv, TypeOK, LaunchSequential
<1>2. First \in sequential /\ Turn = Plan[First].id /\ Turn \in PlanIds /\ Turn \notin completed
  BY <1>1, TurnFacts DEF RunInv, SequentialReady
<1>3. Turn' = Turn /\ Turn \notin Agents /\ Turn \in StepIds
  BY <1>1, <1>2, PlanFacts DEF Turn, First
<1>4. PICK t : t = Turn
  OBVIOUS
<1>5. step' = [step EXCEPT ![t] = "queued"] /\ step[t] = "none"
  BY <1>4 DEF LaunchSequential
<1>6. /\ step'[t] = "queued" /\ (\A s \in StepIds : s # t => step'[s] = step[s])
      /\ PlanIds \subseteq StepIds /\ Agents \subseteq StepIds /\ completed \subseteq PlanIds
      /\ reported \subseteq StepIds
  BY <1>1, <1>3, <1>4, <1>5, PlanFacts DEF RunInv, TypeOK
<1>7. AgentsInTurn' /\ ReportedDone' /\ CompletedDone'
  BY <1>1, <1>2, <1>3, <1>4, <1>5, <1>6
  DEF RunInv, AgentsInTurn, ReportedDone, CompletedDone, Done, Finished
<1>8. InBatch' /\ OthersIdle'
  BY <1>1, <1>2, <1>3, <1>4, <1>6 DEF RunInv, InBatch, OthersIdle
<1>9. SequentialReady' /\ ParallelReady' /\ BeforeExecutor' /\ AfterExecutor' /\ ExecutorOver'
  BY <1>1 DEF RunInv, SequentialReady, ParallelReady, BeforeExecutor, AfterExecutor, ExecutorOver
<1>10. AbortStops'
  BY <1>1, <1>2, <1>4, <1>6 DEF RunInv, AbortStops
<1>q. QED BY <1>7, <1>8, <1>9, <1>10 DEF RunInv

\* It has ended: the next one is launched, or the executor is over.
LEMMA SequentialOver == ASSUME RunInv, TypeOK', AfterSequential PROVE RunInv'
<1>1. /\ input \in Inputs
      /\ Plan' = Plan /\ PlanIds' = PlanIds /\ (\A x : Step(x)' = Step(x))
      /\ completed' = completed \union {Turn} /\ sequential' = sequential \ {First}
      /\ parallel' = parallel /\ reported' = reported /\ step' = step /\ input' = input
      /\ pc = "sequential" /\ sequential # {} /\ Done(Turn)
      /\ pc' = IF Aborts(Turn) THEN "collect" ELSE "sequential"
  BY SamePlan DEF RunInv, TypeOK, AfterSequential, Continue
<1>2. First \in sequential /\ Turn = Plan[First].id /\ Turn \in PlanIds /\ sequential \subseteq DOMAIN Plan
  BY <1>1, TurnFacts DEF RunInv, TypeOK
<1>3. Step(Turn) = Plan[First] /\ Turn \notin completed /\ ~Step(Turn).parallel
      /\ Step(Turn).dependsOn \subseteq completed
  BY <1>1, <1>2, PlanFacts DEF RunInv, SequentialReady
<1>4. With("error")' = With("error") /\ \A s : Done(s)' = Done(s)
  BY <1>1 DEF With, Done
<1>5. \A s \in PlanIds \ completed' : step[s] = "none"
  BY <1>1 DEF RunInv, InBatch
<1>6. AgentsInTurn' /\ ReportedDone' /\ OthersIdle'
  BY <1>1, <1>4 DEF RunInv, AgentsInTurn, ReportedDone, OthersIdle, Agents
<1>7. CompletedDone' /\ InBatch'
  BY <1>1, <1>3, <1>4, <1>5 DEF RunInv, CompletedDone, InBatch
<1>8. SequentialReady'
  <2>1. \A i \in sequential \ {First} : Plan[i].id # Turn
    BY <1>1, <1>2, PlanFacts
  <2>q. QED BY <1>1, <2>1 DEF RunInv, SequentialReady
<1>9. ParallelReady'
  BY <1>1, <1>3 DEF RunInv, ParallelReady
<1>10. ExecutorOver' /\ AbortStops'
  BY <1>1, <1>2, <1>4 DEF RunInv, ExecutorOver, AbortStops, Failed, With, Aborts
<1>q. QED BY <1>1, <1>6, <1>7, <1>8, <1>9, <1>10 DEF RunInv, BeforeExecutor, AfterExecutor

\* All parallel steps of the batch go to the limiter at once.
LEMMA ParallelLaunched == ASSUME RunInv, TypeOK', LaunchParallel PROVE RunInv'
<1>1. /\ input \in Inputs
      /\ Plan' = Plan /\ PlanIds' = PlanIds /\ (\A x : Step(x)' = Step(x))
      /\ completed' = completed /\ sequential' = sequential /\ parallel' = parallel
      /\ reported' = reported /\ input' = input
      /\ pc = "sequential" /\ sequential = {}
      /\ pc' = IF parallel = {} THEN "batch" ELSE "parallel"
  BY SamePlan DEF executor, RunInv, TypeOK, LaunchParallel, Continue
<1>2. /\ PlanIds \subseteq StepIds /\ Agents \subseteq StepIds /\ Agents \intersect PlanIds = {}
      /\ completed \subseteq PlanIds /\ reported \subseteq StepIds /\ parallel \subseteq PlanIds
  BY <1>1, PlanFacts DEF RunInv, TypeOK
<1>3. \A s \in StepIds : step'[s] = IF s \in parallel THEN "queued" ELSE step[s]
  BY DEF LaunchParallel
<1>4. parallel \intersect completed = {} /\ \A s \in PlanIds \ completed : step[s] = "none"
  BY <1>1 DEF RunInv, ParallelReady, InBatch
<1>5. AgentsInTurn' /\ CompletedDone' /\ InBatch' /\ OthersIdle'
  BY <1>1, <1>2, <1>3, <1>4 DEF RunInv, AgentsInTurn, CompletedDone, InBatch, OthersIdle, Done, Agents
<1>6. ReportedDone'
  BY <1>1, <1>2, <1>3, <1>4 DEF RunInv, ReportedDone, CompletedDone, Done, Finished
<1>7. SequentialReady' /\ ParallelReady' /\ BeforeExecutor' /\ AfterExecutor' /\ ExecutorOver'
  BY <1>1 DEF RunInv, SequentialReady, ParallelReady, BeforeExecutor, AfterExecutor, ExecutorOver
<1>8. AbortStops'
  BY <1>1, <1>2, <1>3 DEF RunInv, AbortStops
<1>q. QED BY <1>5, <1>6, <1>7, <1>8 DEF RunInv

\* All of them have ended.
LEMMA ParallelOver == ASSUME RunInv, TypeOK', AfterParallel PROVE RunInv'
<1>1. /\ input \in Inputs
      /\ Plan' = Plan /\ PlanIds' = PlanIds /\ (\A x : Step(x)' = Step(x))
      /\ completed' = completed \union parallel /\ sequential' = sequential
      /\ parallel' = parallel /\ reported' = reported /\ step' = step /\ input' = input
      /\ pc = "parallel" /\ (\A s \in parallel : Done(s)) /\ parallel \subseteq PlanIds
      /\ pc' = IF \E s \in parallel : Aborts(s) THEN "collect" ELSE "batch"
  BY SamePlan DEF RunInv, TypeOK, AfterParallel, Continue
<1>2. With("error")' = With("error") /\ \A s : Done(s)' = Done(s)
  BY <1>1 DEF With, Done
<1>3. \A s \in PlanIds \ completed' : step[s] = "none"
  BY <1>1 DEF RunInv, InBatch
<1>4. AgentsInTurn' /\ ReportedDone' /\ OthersIdle'
  BY <1>1, <1>2 DEF RunInv, AgentsInTurn, ReportedDone, OthersIdle, Agents
<1>5. CompletedDone' /\ InBatch'
  BY <1>1, <1>2, <1>3 DEF RunInv, CompletedDone, InBatch, ParallelReady
<1>6. ExecutorOver' /\ AbortStops'
  BY <1>1, <1>2 DEF RunInv, ExecutorOver, AbortStops, Failed, With, Aborts
<1>q. QED
  BY <1>1, <1>4, <1>5, <1>6
  DEF RunInv, SequentialReady, ParallelReady, BeforeExecutor, AfterExecutor

LEMMA InvariantKept == RunInv /\ [Next]_vars => RunInv'
<1> SUFFICES ASSUME RunInv, [Next]_vars PROVE RunInv'
  OBVIOUS
<1>0. TypeOK'
  BY TypesKept DEF RunInv
<1>1. ASSUME NEW s \in StepIds, Begin(s) PROVE RunInv'
  <2>1. PICK v \in {"running", "expired"} : step' = [step EXCEPT ![s] = v]
    BY <1>1 DEF Begin
  <2>q. QED BY <1>0, <1>1, <2>1, Progresses DEF Begin
<1>2. ASSUME NEW s \in StepIds, End(s) PROVE RunInv'
  <2>1. PICK v : v # "none" /\ step' = [step EXCEPT ![s] = v]
    BY <1>2 DEF End, Finished
  <2>q. QED BY <1>0, <1>2, <2>1, Progresses DEF End
<1>3. CASE Start \/ AfterSupervisor \/ AfterParser \/ AfterPlanner \/ Collect \/ AfterSynthesizer
  BY <1>0, <1>3, MovesOn DEF Start, AfterSupervisor, AfterParser, AfterPlanner, Collect, AfterSynthesizer
<1>4. CASE Expire \/ Cancel \/ Evict \/ UNCHANGED vars
  BY <1>0, <1>4, MovesOn DEF Expire, Cancel, Evict, Environment, vars, executor
<1>5. CASE NextBatch \/ LaunchSequential \/ AfterSequential \/ LaunchParallel \/ AfterParallel
  BY <1>0, <1>5, Batches, SequentialLaunched, SequentialOver, ParallelLaunched, ParallelOver
<1>q. QED BY <1>1, <1>2, <1>3, <1>4, <1>5 DEF Next, Advance

\* The inductive invariant holds for every plan, given or not.
THEOREM RunInvariant == Spec => []RunInv
<1>q. QED BY InvariantInitially, InvariantKept, PTL DEF Spec

-----------------------------------------------------------------------------
(* What it is for.                                                         *)

\* Variables keep their types.
THEOREM RunTypeCorrect == Spec => []TypeOK
<1>1. RunInv => TypeOK
  BY DEF RunInv
<1>q. QED BY <1>1, RunInvariant, PTL

\* When a step of the plan has begun, the steps it depends on exist and have
\* run to their end (executeStepsWithEvents and its readySteps).
THEOREM StepsRespectDependencies == Spec => []DependenciesFirst
<1>1. RunInv => DependenciesFirst
  <2> SUFFICES ASSUME RunInv, NEW s \in PlanIds \intersect Begun, NEW d \in Step(s).dependsOn
               PROVE  d \in PlanIds /\ Done(d)
    BY DEF DependenciesFirst, Step
  <2>1. step[s] # "none" /\ completed \subseteq PlanIds /\ input \in Inputs
    BY DEF Begun, RunInv, TypeOK
  <2>2. CASE s \in completed
    BY <2>1, <2>2 DEF RunInv, CompletedDone
  <2>3. CASE s \notin completed
    <3>1. CASE pc = "sequential" /\ sequential # {} /\ s = Turn
      <4>1. First \in sequential /\ s = Plan[First].id /\ First \in DOMAIN Plan
        BY <3>1, TurnFacts DEF RunInv, TypeOK
      <4>2. Step(s).dependsOn \subseteq completed
        BY <2>1, <3>1, <4>1, PlanFacts DEF RunInv, SequentialReady
      <4>q. QED BY <2>1, <4>2 DEF RunInv, CompletedDone
    <3>2. CASE pc = "parallel" /\ s \in parallel
      BY <2>1, <3>2 DEF RunInv, ParallelReady, CompletedDone
    <3>q. QED BY <2>1, <2>3, <3>1, <3>2 DEF RunInv, InBatch
  <2>q. QED BY <2>2, <2>3
<1>q. QED BY <1>1, RunInvariant, PTL

\* While a step that is not marked parallel is with the limiter or runs, no
\* other step of the run is (executeStepsWithEvents awaits it alone).
THEOREM SequentialStepsRunAlone == Spec => []SequentialRunsAlone
<1>1. RunInv => SequentialRunsAlone
  <2> SUFFICES ASSUME RunInv, NEW s \in PlanIds, ~Step(s).parallel, s \in InFlight, NEW t \in InFlight
               PROVE  t = s
    BY DEF SequentialRunsAlone, Step
  <2>1. /\ step[s] # "none" /\ step[t] # "none" /\ ~Done(s) /\ ~Done(t)
        /\ t \in StepIds /\ input \in Inputs
    BY DEF InFlight, Done, Finished, RunInv, TypeOK
  <2>2. pc = "sequential" /\ s = Turn
    BY <2>1 DEF RunInv, InBatch, CompletedDone, ParallelReady
  <2>3. t \notin Agents
    BY <2>1, <2>2 DEF RunInv, AgentsInTurn, ReportedDone, Agents
  <2>q. QED BY <2>1, <2>2, <2>3 DEF RunInv, OthersIdle, InBatch, CompletedDone
<1>q. QED BY <1>1, RunInvariant, PTL

\* With abortOnError no step of the plan is handed to the limiter once one has
\* failed (the two returns of executeStepsWithEvents).
THEOREM AbortStopsLaunches == Spec => NothingLaunchedAfterFailure
<1> DEFINE Launches == Failed => \A s \in PlanIds : step[s] = "none" => step'[s] = "none"
<1>1. RunInv /\ [Next]_vars => Launches
  <2> SUFFICES ASSUME RunInv, [Next]_vars, Failed, NEW s \in PlanIds, step[s] = "none"
               PROVE  step'[s] = "none"
    OBVIOUS
  <2>1. s \in StepIds /\ s \notin Agents
    BY PlanFacts DEF RunInv, TypeOK
  <2>2. PICK e \in PlanIds : step[e] = "error" /\ input.abortOnError
    BY DEF Failed, With
  <2>3. pc = "sequential" => sequential # {} /\ e = Turn
    BY <2>2 DEF RunInv, InBatch, AbortStops
  <2>4. ~LaunchSequential /\ ~LaunchParallel
    BY <2>2, <2>3 DEF LaunchSequential, LaunchParallel
  <2>5. ASSUME NEW t \in StepIds, Begin(t) \/ End(t) PROVE step'[s] = "none"
    <3>1. t # s
      BY <2>1, <2>5 DEF Begin, End
    <3>2. PICK v : step' = [step EXCEPT ![t] = v]
      BY <2>5 DEF Begin, End
    <3>q. QED BY <2>1, <3>1, <3>2 DEF RunInv, TypeOK
  <2>q. QED
    BY <2>4, <2>5 DEF Next, Advance, Start, AfterSupervisor, AfterParser, AfterPlanner, NextBatch,
       AfterSequential, AfterParallel, Collect, AfterSynthesizer, Expire, Cancel, Evict, Environment, vars
<1>2. RunInv /\ [Next]_vars => [Launches]_vars
  BY <1>1
<1>3. NothingLaunchedAfterFailure <=> [][Launches]_vars
  BY PTL DEF NothingLaunchedAfterFailure, Failed
<1>q. QED BY <1>2, <1>3, RunInvariant, PTL DEF Spec

\* A plan whose dependencies exist and have no cycle has been executed
\* completely when the synthesizer runs: as long as steps are left, one is ready.
THEOREM ExecutablePlansRun == Spec => []ExecutablePlanRunsCompletely
<1>1. RunInv => ExecutablePlanRunsCompletely
  <2> SUFFICES ASSUME RunInv, pc = "synthesizer", NoMissingDependency(Plan), Acyclic(Plan)
               PROVE  completed = PlanIds
    BY DEF ExecutablePlanRunsCompletely, Executable, RunInv, CompletedDone
  <2>1. completed \subseteq PlanIds /\ input \in Inputs
    BY DEF RunInv, TypeOK
  <2>2. completed = PlanIds \/ ReadySteps(Plan, completed) = {}
    BY DEF RunInv, ExecutorOver
  <2>3. ASSUME completed # PlanIds PROVE FALSE
    <3> DEFINE Left == PlanIds \ completed
    <3>1. Left \in (SUBSET PlanIds) \ {{}}
      BY <2>1, <2>3
    <3>2. PICK s \in Left : Step(s).dependsOn \intersect Left = {}
      BY <3>1 DEF Acyclic, Step, PlanIds
    <3>3. PICK i \in DOMAIN Plan : Plan[i].id = s
      BY <2>1, <3>2, PlanFacts
    <3>4. Step(s) = Plan[i]
      BY <2>1, <3>3, PlanFacts
    <3>5. Plan[i].dependsOn \subseteq completed
      BY <3>2, <3>3, <3>4 DEF NoMissingDependency, PlanIds
    <3>6. i \in ReadySteps(Plan, completed)
      BY <3>2, <3>3, <3>5 DEF ReadySteps
    <3>q. QED BY <2>2, <2>3, <3>6
  <2>q. QED BY <2>3
<1>q. QED BY <1>1, RunInvariant, PTL

-----------------------------------------------------------------------------
(* What the result says.                                                   *)

\* The registry: empty until the run has started; while it is under way its
\* task is running, unless it was cancelled or is gone.
RegistryInv ==
  /\ registry = [order |-> registry.order, status |-> registry.status, result |-> registry.result,
                 controllers |-> registry.controllers, aborted |-> registry.aborted]
  /\ registry.status \in [{Task} -> R!TaskStatus \union {"absent"}]
  /\ registry.result \in [{Task} -> R!ResultKind \union {"none"}]
  /\ pc = "start" => registry = R!EmptyRegistry
  /\ pc \notin {"start", "returned"} => registry.status[Task] \in {"running", "cancelled", "absent"}

OutcomeInv ==
  /\ RunInv
  /\ RegistryInv
  /\ pc = "synthesizer" => With("escalated") = {}
  /\ OutcomeMatchesSteps

LEMMA RegistryStarted ==
  ASSUME registry = R!EmptyRegistry, Start
  PROVE  RegistryInv'
<1>1. R!Created(registry, Task) = R!Inserted(registry, Task)
  BY DEF R!Created, R!Evicted, R!EmptyRegistry
<1>2. PICK reg : reg = R!Inserted(registry, Task)
  OBVIOUS
<1>3. /\ reg = [order |-> reg.order, status |-> reg.status, result |-> reg.result,
               controllers |-> reg.controllers, aborted |-> reg.aborted]
      /\ reg.status = [t \in {Task} |-> "pending"] /\ reg.result = [t \in {Task} |-> "none"]
  BY <1>2 DEF R!Inserted, R!EmptyRegistry
<1>4. registry' = [reg EXCEPT !.status = [reg.status EXCEPT ![Task] = "running"]] /\ pc' = "supervisor"
  BY <1>1, <1>2, <1>3 DEF Start, R!StatusUpdated
<1>q. QED BY <1>3, <1>4 DEF RegistryInv, R!TaskStatus, R!ResultKind

\* finishRun: unless the task was cancelled or is gone, the registry takes the
\* result, which is also the last event.
LEMMA Returning ==
  ASSUME RegistryInv, pc \notin {"start", "returned"}, events \in Seq(Events),
         NEW kind \in R!ResultKind, Return(kind)
  PROVE  /\ RegistryInv'
         /\ pc' = "returned" /\ events'[Len(events')][2] = kind
         /\ registry'.status[Task] \notin {"cancelled", "absent"} => registry'.result[Task] = kind
<1>1. pc' = "returned" /\ events'[Len(events')][2] = kind
  BY DEF Return
<1>2. CASE registry.status[Task] = "running"
  <2>1. R!SetResultOutcome(registry, Task) = "set"
    BY <1>2 DEF R!SetResultOutcome, R!Terminal
  <2>2. PICK st \in R!TaskStatus :
          registry' = [registry EXCEPT
                         !.result = [registry.result EXCEPT ![Task] = kind],
                         !.status = [registry.status EXCEPT ![Task] = st]]
    BY <2>1 DEF Return, R!ResultSet, R!TaskStatus
  <2>3. /\ registry'.result = [registry.result EXCEPT ![Task] = kind]
        /\ registry'.status = [registry.status EXCEPT ![Task] = st]
        /\ registry' = [order |-> registry'.order, status |-> registry'.status, result |-> registry'.result,
                        controllers |-> registry'.controllers, aborted |-> registry'.aborted]
    BY <2>2 DEF RegistryInv
  <2>q. QED BY <1>1, <2>3 DEF RegistryInv
<1>3. CASE registry.status[Task] # "running"
  <2>1. registry.status[Task] \in {"cancelled", "absent"}
    BY <1>3 DEF RegistryInv
  <2>2. R!SetResultOutcome(registry, Task) # "set"
    BY <2>1 DEF R!SetResultOutcome, R!Terminal
  <2>3. registry' = registry
    BY <2>2 DEF Return, R!ResultSet
  <2>q. QED BY <1>1, <2>1, <2>3 DEF RegistryInv
<1>q. QED BY <1>2, <1>3

\* Cancelling, evicting or deleting the task: its status becomes "cancelled" or
\* "absent", or nothing happens.
LEMMA RegistryElsewhere ==
  ASSUME RegistryInv, Cancel \/ Evict
  PROVE  /\ RegistryInv'
         /\ registry'.status[Task] \in {"cancelled", "absent"}
<1>1. pc # "start" /\ pc' = pc
  BY DEF Cancel, Evict, Environment
<1>2. CASE Cancel
  <2>1. PICK ab : registry' = [registry EXCEPT
                                 !.status = [registry.status EXCEPT ![Task] = "cancelled"],
                                 !.aborted = ab]
    BY <1>2 DEF Cancel, Environment, R!Cancelled
  <2>2. /\ registry'.status = [registry.status EXCEPT ![Task] = "cancelled"]
        /\ registry'.result = registry.result
        /\ registry' = [order |-> registry'.order, status |-> registry'.status, result |-> registry'.result,
                        controllers |-> registry'.controllers, aborted |-> registry'.aborted]
    BY <2>1 DEF RegistryInv
  <2>q. QED BY <1>1, <2>2 DEF RegistryInv, R!TaskStatus
<1>3. CASE Evict
  <2>1. /\ registry'.status = [registry.status EXCEPT ![Task] = "absent"]
        /\ registry'.result = [registry.result EXCEPT ![Task] = "none"]
        /\ registry' = [order |-> registry'.order, status |-> registry'.status, result |-> registry'.result,
                        controllers |-> registry'.controllers, aborted |-> registry'.aborted]
    BY <1>3 DEF Evict, Environment, R!Deleted
  <2>q. QED BY <1>1, <2>1 DEF RegistryInv
<1>q. QED BY <1>2, <1>3

\* When run has returned, nothing of it is under way.
LEMMA QuietAtTheEnd ==
  RunInv /\ pc = "returned" =>
    /\ \A s \in StepIds : step[s] = "none" \/ Done(s)
    /\ Begun = {s \in StepIds : Done(s)}
    /\ reported = Begun
<1> SUFFICES ASSUME RunInv, pc = "returned"
             PROVE  /\ \A s \in StepIds : step[s] = "none" \/ Done(s)
                    /\ Begun = {s \in StepIds : Done(s)}
                    /\ reported = Begun
  OBVIOUS
<1>1. \A s \in StepIds : step[s] = "none" \/ Done(s)
  BY DEF RunInv, AgentsInTurn, ReportedDone, CompletedDone, InBatch, OthersIdle, Agents
<1>2. Begun = {s \in StepIds : Done(s)}
  BY <1>1 DEF Begun, Done, Finished
<1>3. reported \subseteq Begun
  BY <1>2 DEF RunInv, ReportedDone, TypeOK
<1>q. QED BY <1>1, <1>2, <1>3 DEF RunInv, AfterExecutor

LEMMA OutcomeInitially == Init => OutcomeInv
<1> SUFFICES ASSUME Init PROVE OutcomeInv
  OBVIOUS
<1>1. RunInv
  BY InvariantInitially
<1>2. RegistryInv
  BY DEF Init, RegistryInv, R!EmptyRegistry
<1>q. QED BY <1>1, <1>2 DEF Init, OutcomeInv, OutcomeMatchesSteps

LEMMA OutcomeKept == OutcomeInv /\ [Next]_vars => OutcomeInv'
<1> SUFFICES ASSUME OutcomeInv, [Next]_vars PROVE OutcomeInv'
  OBVIOUS
<1>0. RunInv /\ RunInv' /\ TypeOK /\ RegistryInv
  BY InvariantKept DEF OutcomeInv, RunInv
<1>1. ASSUME NEW s \in StepIds, Begin(s) \/ End(s) PROVE OutcomeInv'
  <2>1. pc # "returned"
    BY <1>0, <1>1, QuietAtTheEnd DEF Begin, End, Done, Finished, Agents
  <2>2. pc' = pc /\ registry' = registry /\ input' = input
    BY <1>1 DEF Begin, End
  <2>3. pc = "synthesizer" => s \notin PlanIds
    BY <1>0, <1>1, PlanFacts DEF RunInv, TypeOK, InBatch, CompletedDone, Begin, End, Done, Finished
  <2>4. PICK v : step' = [step EXCEPT ![s] = v]
    BY <1>1 DEF Begin, End
  <2>5. pc = "synthesizer" => With("escalated")' = With("escalated")
    BY <1>0, <2>2, <2>3, <2>4, PlanFacts, SamePlan DEF With, TypeOK
  <2>q. QED BY <1>0, <2>1, <2>2, <2>5 DEF OutcomeInv, RegistryInv, OutcomeMatchesSteps
<1>2. CASE LaunchSequential \/ LaunchParallel \/ NextBatch \/ AfterSequential \/ AfterParallel
  BY <1>0, <1>2
  DEF LaunchSequential, LaunchParallel, NextBatch, AfterSequential, AfterParallel, Continue,
      OutcomeInv, RegistryInv, OutcomeMatchesSteps
<1>3. CASE Start
  BY <1>0, <1>3, RegistryStarted DEF Start, OutcomeInv, RegistryInv, OutcomeMatchesSteps
<1>4. ASSUME UNCHANGED <<input, step>>
      PROVE  With("error")' = With("error") /\ With("escalated")' = With("escalated")
  BY <1>4, SamePlan DEF With
<1>5. CASE Expire \/ UNCHANGED vars
  BY <1>0, <1>4, <1>5 DEF Expire, vars, OutcomeInv, RegistryInv, OutcomeMatchesSteps
<1>6. CASE Cancel \/ Evict
  <2>1. RegistryInv' /\ registry'.status[Task] \in {"cancelled", "absent"}
    BY <1>0, <1>6, RegistryElsewhere
  <2>2. UNCHANGED <<input, pc, step, events>>
    BY <1>6 DEF Cancel, Evict, Environment
  <2>q. QED BY <1>0, <1>4, <2>1, <2>2 DEF OutcomeInv, OutcomeMatchesSteps
<1>7. CASE AfterSupervisor \/ AfterParser \/ AfterPlanner \/ Collect \/ AfterSynthesizer
  <2>1. pc \notin {"start", "returned"} /\ UNCHANGED <<input, step>>
    BY <1>7 DEF AfterSupervisor, AfterParser, AfterPlanner, Collect, AfterSynthesizer
  <2>2. pc \in {"supervisor", "parser", "planner"} => With("error") = {} /\ With("escalated") = {}
    BY <1>0, PlanFacts DEF RunInv, TypeOK, InBatch, BeforeExecutor, With
  <2>3. CASE pc' # "returned"
    <3>1. /\ registry' = registry /\ pc' # "start"
          /\ pc' = "synthesizer" => With("escalated") = {}
      BY <1>7, <2>3 DEF AfterSupervisor, AfterParser, AfterPlanner, Collect, AfterSynthesizer,
         Return, Continue
    <3>q. QED BY <1>0, <1>4, <2>1, <2>3, <3>1 DEF OutcomeInv, RegistryInv, OutcomeMatchesSteps
  <2>4. ASSUME NEW kind \in R!ResultKind, Return(kind),
               kind = "ok" => With("error") = {} /\ With("escalated") = {},
               kind = "partial" => With("error") # {} /\ ~input.abortOnError,
               With("escalated") # {} => kind = "escalation"
        PROVE  OutcomeInv'
    <3>1. /\ RegistryInv' /\ pc' = "returned" /\ events'[Len(events')][2] = kind
          /\ registry'.status[Task] \notin {"cancelled", "absent"} => registry'.result[Task] = kind
      BY <1>0, <2>1, <2>4, Returning DEF TypeOK
    <3>q. QED BY <1>0, <1>4, <2>1, <2>4, <3>1 DEF OutcomeInv, OutcomeMatchesSteps
  <2>5. CASE pc' = "returned" /\ (AfterSupervisor \/ AfterParser \/ AfterPlanner)
    <3>1. PICK kind \in {"error", "escalation"} : Return(kind)
      BY <2>5 DEF AfterSupervisor, AfterParser, AfterPlanner, Continue
    <3>2. pc \in {"supervisor", "parser", "planner"}
      BY <2>5 DEF AfterSupervisor, AfterParser, AfterPlanner
    <3>q. QED BY <2>2, <2>4, <3>1, <3>2 DEF R!ResultKind
  <2>6. CASE pc' = "returned" /\ Collect
    <3>1. PICK kind \in {"error", "escalation"} : Return(kind) /\ (With("escalated") # {} => kind = "escalation")
      BY <2>6 DEF Collect, Continue
    <3>q. QED BY <2>4, <3>1 DEF R!ResultKind
  <2>7. CASE AfterSynthesizer
    <3>1. With("escalated") = {} /\ ~Failed
      BY <1>0, <2>7 DEF AfterSynthesizer, OutcomeInv, RunInv, ExecutorOver
    <3>2. CASE With("error") = {}
      <4>1. Return("ok")
        BY <2>7, <3>2 DEF AfterSynthesizer
      <4>q. QED BY <2>4, <3>1, <3>2, <4>1 DEF R!ResultKind
    <3>3. CASE With("error") # {}
      <4>1. Return("partial")
        BY <2>7, <3>3 DEF AfterSynthesizer
      <4>q. QED BY <2>4, <3>1, <3>3, <4>1 DEF R!ResultKind, Failed
    <3>q. QED BY <3>2, <3>3
  <2>q. QED BY <1>7, <2>3, <2>5, <2>6, <2>7
<1>q. QED BY <1>1, <1>2, <1>3, <1>5, <1>6, <1>7 DEF Next, Advance

\* The kind of the result, in the last event and, unless the task was cancelled
\* or is gone, in the registry, tells what happened to the steps of the plan.
THEOREM OutcomeTellsSteps == Spec => []OutcomeMatchesSteps
<1>1. OutcomeInv => OutcomeMatchesSteps
  BY DEF OutcomeInv
<1>q. QED BY <1>1, OutcomeInitially, OutcomeKept, PTL DEF Spec

-----------------------------------------------------------------------------
(* The run as its caller sees it.                                          *)

LEMMA QuietOnceReturned ==
  (RunInv /\ pc = "returned" => Begun = {s \in StepIds : Done(s)} /\ reported = Begun)'
<1>1. RunInv /\ pc = "returned" => Begun = {s \in StepIds : Done(s)} /\ reported = Begun
  BY QuietAtTheEnd
<1>q. QED BY <1>1, PTL

\* What a step does to the steps that have begun and to those that have ended.
Over == {s \in StepIds : Done(s)}

LEMMA StepBegins ==
  ASSUME RunInv, NEW s \in StepIds, Begin(s)
  PROVE  /\ pc \notin {"start", "returned"} /\ s \notin Begun
         /\ Begun' = Begun \union {s} /\ Over' = Over
<1>1. pc \notin {"start", "returned"} /\ step[s] \in {"none", "queued"}
  BY QuietAtTheEnd
  DEF Begin, Done, Finished, Agents, RunInv, AgentsInTurn, ReportedDone, CompletedDone, InBatch, OthersIdle
<1>2. PICK v \in {"running", "expired"} : step' = [step EXCEPT ![s] = v]
  BY DEF Begin
<1>3. step'[s] = v /\ \A t \in StepIds : t # s => step'[t] = step[t]
  BY <1>2 DEF RunInv, TypeOK
<1>4. Begun' = Begun \union {s} /\ s \notin Begun
  BY <1>1, <1>3 DEF Begun
<1>5. Over' = Over
  BY <1>1, <1>3 DEF Over, Done, Finished
<1>q. QED BY <1>1, <1>4, <1>5

LEMMA StepEnds ==
  ASSUME RunInv, NEW s \in StepIds, End(s)
  PROVE  /\ pc \notin {"start", "returned"} /\ s \in Begun \ Over
         /\ Begun' = Begun /\ Over' = Over \union {s}
<1>1. step[s] \in {"running", "expired"}
  BY DEF End
<1>2. pc \notin {"start", "returned"}
  BY <1>1, QuietAtTheEnd
  DEF Done, Finished, Agents, RunInv, AgentsInTurn, ReportedDone, CompletedDone, InBatch, OthersIdle
<1>3. PICK v \in Finished : step' = [step EXCEPT ![s] = v]
  BY DEF End
<1>4. step'[s] = v /\ \A t \in StepIds : t # s => step'[t] = step[t]
  BY <1>3 DEF RunInv, TypeOK
<1>5. Begun' = Begun /\ s \in Begun \ Over
  BY <1>1, <1>3, <1>4 DEF Begun, Over, Done, Finished
<1>6. Over' = Over \union {s}
  BY <1>1, <1>3, <1>4 DEF Over, Done
<1>q. QED BY <1>2, <1>5, <1>6

LEMMA OtherSteps ==
  ASSUME RunInv, Advance \/ Expire \/ Cancel \/ Evict \/ UNCHANGED vars
  PROVE  Begun' = Begun /\ Over' = Over
<1>1. CASE UNCHANGED step
  BY <1>1 DEF Begun, Over, Done
<1>2. CASE LaunchSequential \/ LaunchParallel
  <2>1. \A s \in StepIds : step'[s] = step[s] \/ (step[s] = "none" /\ step'[s] = "queued")
    <3>1. CASE LaunchSequential
      <4>1. PICK t : t = Turn
        OBVIOUS
      <4>2. step' = [step EXCEPT ![t] = "queued"] /\ step[t] = "none"
        BY <3>1, <4>1 DEF LaunchSequential
      <4>q. QED BY <4>2 DEF RunInv, TypeOK
    <3>2. CASE LaunchParallel
      BY <3>2 DEF LaunchParallel, RunInv, TypeOK, ParallelReady, InBatch
    <3>q. QED BY <1>2, <3>1, <3>2
  <2>q. QED BY <2>1 DEF Begun, Over, Done, Finished
<1>q. QED
  BY <1>1, <1>2 DEF Advance, Start, AfterSupervisor, AfterParser, AfterPlanner, NextBatch, AfterSequential,
     AfterParallel, Collect, AfterSynthesizer, Expire, Cancel, Evict, Environment, vars

LEMMA AbstractInitially == Init => Abstract!RunInit
<1> SUFFICES ASSUME Init PROVE Abstract!RunInit
  OBVIOUS
<1>1. \A s \in StepIds : step[s] = "none"
  BY DEF Init
<1>2. Begun = {} /\ {s \in StepIds : Done(s)} = {}
  BY <1>1 DEF Begun, Done, Finished
<1>q. QED BY <1>2 DEF Init, Abstract!RunInit, Returned

\* Every step of run is a step of the abstract run, or none that its caller sees.
LEMMA AbstractStep == RunInv /\ [Next]_vars => [Abstract!RunNext]_Abstract!runVars
<1> SUFFICES ASSUME RunInv, [Next]_vars PROVE [Abstract!RunNext]_Abstract!runVars
  OBVIOUS
<1>0. RunInv'
  BY InvariantKept
<1>1. ASSUME NEW s \in StepIds, Begin(s) PROVE Abstract!Launch(s)
  BY <1>1, StepBegins DEF Over, Abstract!Launch, Returned, Begin
<1>2. ASSUME NEW s \in StepIds, End(s) PROVE Abstract!End(s)
  BY <1>2, StepEnds DEF Over, Abstract!End, Returned, End
<1>3. ASSUME NEW kind \in {"ok", "partial", "escalation", "error"}, Return(kind), pc # "returned", step' = step
      PROVE  Abstract!Return(kind)
  <2>1. Begun' = Begun /\ Over' = Over
    BY <1>3 DEF Begun, Over, Done
  <2>2. pc' = "returned"
    BY <1>3 DEF Return
  <2>3. (Begun = Over)' /\ (reported = Begun)'
    BY <1>0, <2>2, QuietOnceReturned DEF Over
  <2>4. events'[Len(events')][2] = kind
    BY <1>3 DEF Return, RunInv, TypeOK
  <2>q. QED BY <1>0, <1>3, <2>1, <2>2, <2>3, <2>4 DEF Over, Abstract!Return, Returned
<1>4. ASSUME Begun' = Begun, Over' = Over,
             \/ pc # "returned" /\ pc' # "returned"
             \/ UNCHANGED <<pc, reported, events>>
      PROVE  UNCHANGED Abstract!runVars
  BY <1>4 DEF Over, Abstract!runVars, Returned
<1>5. CASE AfterSupervisor \/ AfterParser \/ AfterPlanner \/ Collect \/ AfterSynthesizer
  <2>1. /\ pc # "returned" /\ step' = step
        /\ pc' # "returned" \/ \E kind \in {"ok", "partial", "escalation", "error"} : Return(kind)
    BY <1>5 DEF AfterSupervisor, AfterParser, AfterPlanner, Collect, AfterSynthesizer, Continue
  <2>q. QED BY <1>3, <1>4, <1>5, <2>1, OtherSteps DEF Advance, Abstract!RunNext, Abstract!ResultKinds
<1>6. CASE LaunchSequential \/ LaunchParallel
  <2>1. pc # "returned" /\ pc' # "returned"
    BY <1>6 DEF LaunchSequential, LaunchParallel, Continue
  <2>q. QED BY <1>4, <1>6, <2>1, OtherSteps DEF Advance
<1>7. CASE Start \/ NextBatch \/ AfterSequential \/ AfterParallel \/ Expire \/ Cancel \/ Evict \/ UNCHANGED vars
  <2>1. \/ pc # "returned" /\ pc' # "returned"
        \/ UNCHANGED <<pc, reported, events>>
    BY <1>7 DEF Start, NextBatch, AfterSequential, AfterParallel, Expire, Cancel, Evict, Environment,
       Continue, vars
  <2>q. QED BY <1>4, <1>7, <2>1, OtherSteps DEF Advance
<1>q. QED
  BY <1>1, <1>2, <1>5, <1>6, <1>7 DEF Next, Advance, Abstract!RunNext

\* run implements the abstract run: it resolves once, when all that began has
\* ended, with all of it in the result, and nothing of it moves afterwards
\* (run and finishRun).  That it does resolve is for TLC.
THEOREM RunImplementsAbstractRun == Spec => Abstract!RunSpec
<1>q. QED BY AbstractInitially, AbstractStep, RunInvariant, PTL DEF Spec, Abstract!RunSpec

-----------------------------------------------------------------------------
(* The event stream.                                                       *)

\* Where an event, or a last event, stands in a stream.
PositionsIn(es, e) == {i \in DOMAIN es : es[i] = e}
LastsIn(es)        == {i \in DOMAIN es : es[i][1] = "run_completed"}

\* The one event for every s in S.
OncePerStep(es, name, S) ==
  /\ \A s \in StepIds \intersect S : \E i \in DOMAIN es : i > 1 /\ PositionsIn(es, <<name, s>>) = {i}
  /\ \A s \in StepIds \ S : PositionsIn(es, <<name, s>>) = {}

InOrder(es) ==
  \A s \in StepIds : \A i \in PositionsIn(es, <<"step_started", s>>),
                         j \in PositionsIn(es, <<"step_completed", s>>) : i < j

WellFormed(es, begun, over) ==
  /\ es \in Seq(Events) /\ es # <<>>
  /\ OncePerStep(es, "step_started", begun)
  /\ OncePerStep(es, "step_completed", over)
  /\ InOrder(es)

EventsInv ==
  /\ RunInv
  /\ pc = "start" => events = <<>> /\ Begun = {} /\ Over = {}
  /\ pc # "start" => WellFormed(events, Begun, Over)
  /\ LastsIn(events) = IF pc = "returned" THEN {Len(events)} ELSE {}

LEMMA Appending ==
  ASSUME NEW es \in Seq(Events), NEW e \in Events
  PROVE  /\ Append(es, e) \in Seq(Events) /\ Append(es, e) # <<>>
         /\ DOMAIN es \subseteq Nat /\ (\A i \in DOMAIN es : i < Len(es) + 1)
         /\ Len(es) + 1 \notin DOMAIN es
         /\ DOMAIN Append(es, e) = DOMAIN es \union {Len(es) + 1} /\ Len(Append(es, e)) = Len(es) + 1
         /\ \A f : PositionsIn(Append(es, e), f)
                   = PositionsIn(es, f) \union IF f = e THEN {Len(es) + 1} ELSE {}
         /\ LastsIn(Append(es, e))
              = LastsIn(es) \union IF e[1] = "run_completed" THEN {Len(es) + 1} ELSE {}
<1>1. /\ DOMAIN es \subseteq Nat /\ (\A i \in DOMAIN es : i < Len(es) + 1)
      /\ Append(es, e) \in Seq(Events)
      /\ Len(es) + 1 \notin DOMAIN es
      /\ DOMAIN Append(es, e) = DOMAIN es \union {Len(es) + 1} /\ Len(Append(es, e)) = Len(es) + 1
  OBVIOUS
<1>2. Append(es, e)[Len(es) + 1] = e /\ \A i \in DOMAIN es : Append(es, e)[i] = es[i]
  OBVIOUS
<1>3. Append(es, e) # <<>>
  BY <1>1
<1>q. QED BY <1>1, <1>2, <1>3 DEF PositionsIn, LastsIn

\* Events of steps, after one more of them or any other event.
LEMMA OnceMore ==
  ASSUME NEW es \in Seq(Events), es # <<>>, NEW name, NEW S, OncePerStep(es, name, S),
         NEW s \in StepIds \ S, <<name, s>> \in Events
  PROVE  OncePerStep(Append(es, <<name, s>>), name, S \union {s})
<1>1. PICK e \in Events : e = <<name, s>>
  OBVIOUS
<1>2. /\ DOMAIN Append(es, e) = DOMAIN es \union {Len(es) + 1}
      /\ \A f : PositionsIn(Append(es, e), f)
                = PositionsIn(es, f) \union IF f = e THEN {Len(es) + 1} ELSE {}
  BY Appending
<1>3. Len(es) + 1 > 1
  OBVIOUS
<1>4. PositionsIn(Append(es, e), <<name, s>>) = {Len(es) + 1}
  BY <1>1, <1>2 DEF OncePerStep
<1>5. \A t \in StepIds : t # s => PositionsIn(Append(es, e), <<name, t>>) = PositionsIn(es, <<name, t>>)
  BY <1>1, <1>2
<1>q. QED BY <1>1, <1>2, <1>3, <1>4, <1>5, SMTT(60) DEF OncePerStep

LEMMA OnceStill ==
  ASSUME NEW es \in Seq(Events), NEW name, NEW S, OncePerStep(es, name, S),
         NEW e \in Events, \A t \in StepIds : <<name, t>> # e
  PROVE  OncePerStep(Append(es, e), name, S)
<1>1. /\ DOMAIN Append(es, e) = DOMAIN es \union {Len(es) + 1}
      /\ \A f : PositionsIn(Append(es, e), f)
                = PositionsIn(es, f) \union IF f = e THEN {Len(es) + 1} ELSE {}
  BY Appending
<1>2. \A t \in StepIds : PositionsIn(Append(es, e), <<name, t>>) = PositionsIn(es, <<name, t>>)
  BY <1>1
<1>q. QED BY <1>1, <1>2 DEF OncePerStep

LEMMA StartedAppended ==
  ASSUME NEW es, NEW B, NEW O, WellFormed(es, B, O), NEW s \in StepIds, s \notin B, s \notin O
  PROVE  WellFormed(Append(es, <<"step_started", s>>), B \union {s}, O)
<1>1. es \in Seq(Events) /\ es # <<>> /\ <<"step_started", s>> \in Events
  BY EventTypes DEF WellFormed
<1>2. PICK e \in Events : e = <<"step_started", s>>
  BY <1>1
<1>3. \A t \in StepIds : <<"step_completed", t>> # e
  BY <1>2
<1>4. OncePerStep(Append(es, e), "step_started", B \union {s})
  BY <1>1, <1>2, OnceMore DEF WellFormed
<1>5. OncePerStep(Append(es, e), "step_completed", O)
  BY <1>1, <1>2, <1>3, OnceStill DEF WellFormed
<1>6. InOrder(Append(es, e))
  <2> SUFFICES ASSUME NEW t \in StepIds, NEW i \in PositionsIn(Append(es, e), <<"step_started", t>>),
                      NEW j \in PositionsIn(Append(es, e), <<"step_completed", t>>)
               PROVE  i < j
    BY DEF InOrder
  <2>1. j \in PositionsIn(es, <<"step_completed", t>>)
    BY <1>1, <1>3, Appending
  <2>2. t # s
    BY <2>1 DEF WellFormed, OncePerStep
  <2>3. i \in PositionsIn(es, <<"step_started", t>>)
    BY <1>1, <1>2, <2>2, Appending
  <2>q. QED BY <2>1, <2>3 DEF WellFormed, InOrder
<1>q. QED BY <1>1, <1>2, <1>4, <1>5, <1>6, Appending DEF WellFormed

LEMMA CompletedAppended ==
  ASSUME NEW es, NEW B, NEW O, WellFormed(es, B, O), NEW s \in StepIds, s \in B, s \notin O
  PROVE  WellFormed(Append(es, <<"step_completed", s>>), B, O \union {s})
<1>1. es \in Seq(Events) /\ es # <<>> /\ <<"step_completed", s>> \in Events
  BY EventTypes DEF WellFormed
<1>2. PICK e \in Events : e = <<"step_completed", s>>
  BY <1>1
<1>3. \A t \in StepIds : <<"step_started", t>> # e
  BY <1>2
<1>4. OncePerStep(Append(es, e), "step_completed", O \union {s})
  BY <1>1, <1>2, OnceMore DEF WellFormed
<1>5. OncePerStep(Append(es, e), "step_started", B)
  BY <1>1, <1>2, <1>3, OnceStill DEF WellFormed
<1>6. InOrder(Append(es, e))
  <2> SUFFICES ASSUME NEW t \in StepIds, NEW i \in PositionsIn(Append(es, e), <<"step_started", t>>),
                      NEW j \in PositionsIn(Append(es, e), <<"step_completed", t>>)
               PROVE  i < j
    BY DEF InOrder
  <2>1. i \in PositionsIn(es, <<"step_started", t>>)
    BY <1>1, <1>3, Appending
  <2>2. i \in DOMAIN es /\ i < Len(es) + 1
    BY <1>1, <2>1, Appending DEF PositionsIn
  <2>3. j = Len(es) + 1 \/ j \in PositionsIn(es, <<"step_completed", t>>)
    BY <1>1, Appending
  <2>q. QED BY <2>1, <2>2, <2>3 DEF WellFormed, InOrder
<1>q. QED BY <1>1, <1>2, <1>4, <1>5, <1>6, Appending DEF WellFormed

LEMMA OtherAppended ==
  ASSUME NEW es, NEW B, NEW O, WellFormed(es, B, O), NEW e \in Events,
         \A t \in StepIds : <<"step_started", t>> # e /\ <<"step_completed", t>> # e
  PROVE  WellFormed(Append(es, e), B, O)
<1>1. es \in Seq(Events)
  BY DEF WellFormed
<1>2. OncePerStep(Append(es, e), "step_started", B) /\ OncePerStep(Append(es, e), "step_completed", O)
  BY <1>1, OnceStill DEF WellFormed
<1>3. \A t \in StepIds :
        /\ PositionsIn(Append(es, e), <<"step_started", t>>) = PositionsIn(es, <<"step_started", t>>)
        /\ PositionsIn(Append(es, e), <<"step_completed", t>>) = PositionsIn(es, <<"step_completed", t>>)
  <2> SUFFICES ASSUME NEW f, f # e PROVE PositionsIn(Append(es, e), f) = PositionsIn(es, f)
    OBVIOUS
  <2>1. PositionsIn(Append(es, e), f) = PositionsIn(es, f) \union {}
    BY <1>1, Appending, ZenonT(60)
  <2>q. QED BY <2>1
<1>4. InOrder(Append(es, e))
  BY <1>3 DEF WellFormed, InOrder
<1>q. QED BY <1>1, <1>2, <1>4, Appending DEF WellFormed

LEMMA EventsInitially == Init => EventsInv
<1> SUFFICES ASSUME Init PROVE EventsInv
  OBVIOUS
<1>1. RunInv
  BY InvariantInitially
<1>2. \A s \in StepIds : step[s] = "none"
  BY DEF Init
<1>3. Begun = {} /\ Over = {}
  BY <1>2 DEF Begun, Over, Done, Finished
<1>q. QED BY <1>1, <1>3 DEF Init, EventsInv, LastsIn

LEMMA EventsKept == EventsInv /\ [Next]_vars => EventsInv'
<1> SUFFICES ASSUME EventsInv, [Next]_vars PROVE EventsInv'
  OBVIOUS
<1>0. RunInv /\ RunInv' /\ events \in Seq(Events)
  BY InvariantKept DEF EventsInv, RunInv, TypeOK
<1>1. ASSUME NEW s \in StepIds, Begin(s) PROVE EventsInv'
  <2>1. /\ pc \notin {"start", "returned"} /\ pc' = pc /\ s \notin Begun /\ s \notin Over
        /\ Begun' = Begun \union {s} /\ Over' = Over
    BY <1>0, <1>1, StepBegins DEF Begin, Over, Begun, Done, Finished
  <2>2. PICK e \in Events : e = <<"step_started", s>>
    BY EventTypes
  <2>3. events' = Append(events, e)
    BY <1>1, <2>2 DEF Begin
  <2>4. WellFormed(events', Begun', Over')
    BY <2>1, <2>2, <2>3, StartedAppended DEF EventsInv
  <2>5. LastsIn(events') = {}
    BY <1>0, <2>1, <2>2, <2>3, Appending DEF EventsInv
  <2>q. QED BY <1>0, <2>1, <2>4, <2>5 DEF EventsInv
<1>2. ASSUME NEW s \in StepIds, End(s) PROVE EventsInv'
  <2>1. /\ pc \notin {"start", "returned"} /\ pc' = pc /\ s \in Begun /\ s \notin Over
        /\ Begun' = Begun /\ Over' = Over \union {s}
    BY <1>0, <1>2, StepEnds DEF End
  <2>2. PICK e \in Events : e = <<"step_completed", s>>
    BY EventTypes
  <2>3. PICK f \in Events : f = <<"escalation", s>>
    BY EventTypes
  <2>4. PICK es \in Seq(Events) : es = Append(events, e)
    BY <1>0, Appending
  <2>5. events' = es \/ events' = Append(es, f)
    <3>1. PICK o \in Finished :
            events' = Append(events, <<"step_completed", s>>)
                        \o IF o = "escalated" THEN <<<<"escalation", s>>>> ELSE <<>>
      BY <1>2 DEF End
    <3>2. events' = es \o IF o = "escalated" THEN <<f>> ELSE <<>>
      BY <2>2, <2>3, <2>4, <3>1
    <3>q. QED BY <2>4, <3>2
  <2>6. WellFormed(es, Begun', Over') /\ LastsIn(es) = {}
    <3>1. WellFormed(es, Begun', Over')
      BY <2>1, <2>2, <2>4, CompletedAppended DEF EventsInv
    <3>2. LastsIn(es) = {}
      BY <1>0, <2>1, <2>2, <2>4, Appending DEF EventsInv
    <3>q. QED BY <3>1, <3>2
  <2>7. WellFormed(Append(es, f), Begun', Over') /\ LastsIn(Append(es, f)) = {}
    <3>1. \A t \in StepIds : <<"step_started", t>> # f /\ <<"step_completed", t>> # f
      BY <2>3
    <3>2. WellFormed(Append(es, f), Begun', Over')
      BY <2>6, <3>1, OtherAppended
    <3>3. LastsIn(Append(es, f)) = {}
      BY <2>3, <2>4, <2>6, Appending, ZenonT(60)
    <3>q. QED BY <3>2, <3>3
  <2>q. QED BY <1>0, <2>1, <2>5, <2>6, <2>7 DEF EventsInv
<1>3. CASE Start
  <2>1. /\ pc = "start" /\ pc' = "supervisor" /\ Begun' = {} /\ Over' = {}
    BY <1>0, <1>3, OtherSteps DEF Start, Advance, EventsInv
  <2>2. PICK e \in Events : e = <<"run_started", Task>>
    BY EventTypes
  <2>3. events' = <<e>>
    BY <1>3, <2>2 DEF Start
  <2>4. \A name, s : name # "run_started" => PositionsIn(<<e>>, <<name, s>>) = {}
    BY <2>2 DEF PositionsIn
  <2>5. LastsIn(<<e>>) = {}
    BY <2>2 DEF LastsIn
  <2>q. QED BY <1>0, <2>1, <2>3, <2>4, <2>5 DEF EventsInv, WellFormed, OncePerStep, InOrder
<1>4. ASSUME NEW kind \in {"ok", "partial", "escalation", "error"}, Return(kind),
             pc \notin {"start", "returned"}, Begun' = Begun, Over' = Over
      PROVE  EventsInv'
  <2>1. PICK e \in Events : e = <<"run_completed", kind>>
    BY EventTypes
  <2>2. events' = Append(events, e) /\ pc' = "returned"
    BY <1>4, <2>1 DEF Return
  <2>3. \A t \in StepIds : <<"step_started", t>> # e /\ <<"step_completed", t>> # e
    BY <2>1
  <2>4. WellFormed(Append(events, e), Begun, Over)
    BY <1>4, <2>3, OtherAppended DEF EventsInv
  <2>5. LastsIn(events') = {Len(events')}
    BY <1>0, <1>4, <2>1, <2>2, Appending DEF EventsInv
  <2>q. QED BY <1>0, <1>4, <2>2, <2>4, <2>5 DEF EventsInv
<1>5. ASSUME events' = events, Begun' = Begun, Over' = Over,
             pc' = pc \/ (pc \notin {"start", "returned"} /\ pc' \notin {"start", "returned"})
      PROVE  EventsInv'
  BY <1>0, <1>5 DEF EventsInv
<1>6. CASE AfterSupervisor \/ AfterParser \/ AfterPlanner \/ Collect \/ AfterSynthesizer
  <2>1. /\ pc \notin {"start", "returned"}
        /\ \/ events' = events /\ pc' \notin {"start", "returned"}
           \/ \E kind \in {"ok", "partial", "escalation", "error"} : Return(kind)
    BY <1>6 DEF AfterSupervisor, AfterParser, AfterPlanner, Collect, AfterSynthesizer, Continue
  <2>q. QED BY <1>0, <1>4, <1>5, <1>6, <2>1, OtherSteps DEF Advance
<1>7. CASE NextBatch \/ LaunchSequential \/ AfterSequential \/ LaunchParallel \/ AfterParallel
           \/ Expire \/ Cancel \/ Evict \/ UNCHANGED vars
  <2>1. /\ events' = events
        /\ pc' = pc \/ (pc \notin {"start", "returned"} /\ pc' \notin {"start", "returned"})
    BY <1>7 DEF NextBatch, LaunchSequential, AfterSequential, LaunchParallel, AfterParallel, Continue,
       Expire, Cancel, Evict, Environment, vars
  <2>q. QED BY <1>0, <1>5, <1>7, <2>1, OtherSteps DEF Advance
<1>q. QED BY <1>1, <1>2, <1>3, <1>6, <1>7 DEF Next, Advance

\* run_started comes first, run_completed once and last; each step starts and
\* completes at most once and in that order (the emit calls of run,
\* runStepWithEvents and finishRun).
THEOREM EventStreamWellFormed == Spec => []EventsWellFormed
<1>1. EventsInv => EventsWellFormed
  <2> SUFFICES ASSUME EventsInv PROVE EventsWellFormed
    OBVIOUS
  <2>1. \A e : Positions(e) = PositionsIn(events, e)
    BY DEF Positions, PositionsIn
  <2>2. \A i : Cardinality({i}) = 1
    BY FS_Singleton
  <2>3. Cardinality({}) = 0
    BY FS_EmptySet
  <2>4. CASE pc = "start"
    <3>1. \A e : Positions(e) = {}
      BY <2>4 DEF EventsInv, Positions
    <3>2. \A s \in StepIds : s \notin Begun /\ ~Done(s)
      BY <2>4 DEF EventsInv, Over
    <3>q. QED BY <2>3, <2>4, <3>1, <3>2 DEF EventsInv, EventsWellFormed, LastsIn
  <2>5. CASE pc # "start"
    <3>1. WellFormed(events, Begun, Over)
      BY <2>5 DEF EventsInv
    <3>2. \A s \in StepIds : Done(s) <=> s \in Over
      BY DEF Over
    <3>3. \A s \in StepIds : Cardinality(Positions(<<"step_started", s>>)) = IF s \in Begun THEN 1 ELSE 0
      BY <2>1, <2>2, <2>3, <3>1 DEF WellFormed, OncePerStep
    <3>4. \A s \in StepIds : Cardinality(Positions(<<"step_completed", s>>)) = IF Done(s) THEN 1 ELSE 0
      BY <2>1, <2>2, <2>3, <3>1, <3>2 DEF WellFormed, OncePerStep
    <3>5. \A s \in StepIds : \A i \in Positions(<<"step_started", s>>), j \in Positions(<<"step_completed", s>>) :
            1 < i /\ i < j
      BY <2>1, <3>1 DEF WellFormed, OncePerStep, InOrder
    <3>q. QED BY <3>3, <3>4, <3>5 DEF EventsInv, EventsWellFormed, LastsIn
  <2>q. QED BY <2>4, <2>5
<1>q. QED BY <1>1, EventsInitially, EventsKept, PTL DEF Spec
-----------------------------------------------------------------------------
(* A run makes finitely many moves, and what it awaits is under way.       *)

\* Between two turns of the loop nothing of the last batch is left, and what the
\* executor awaits at the end of a batch has been handed to the limiter.
LoopInv ==
  /\ pc \in {"start", "supervisor", "parser", "planner", "batch", "parallel"} => sequential = {}
  /\ pc \in {"start", "supervisor", "parser", "planner", "batch"} => parallel \subseteq completed
  /\ pc = "parallel" => \A s \in parallel : step[s] # "none"

LEMMA LoopInitially == Init => LoopInv
BY DEF Init, LoopInv

LEMMA LoopKept == RunInv /\ LoopInv /\ [Next]_vars => LoopInv'
<1> SUFFICES ASSUME RunInv, LoopInv, [Next]_vars PROVE LoopInv'
  OBVIOUS
<1>1. /\ input \in Inputs /\ parallel \subseteq PlanIds /\ PlanIds \subseteq StepIds
      /\ step \in [StepIds -> {"none", "queued", "running", "expired"} \union Finished]
  BY PlanFacts DEF RunInv, TypeOK
<1>2. ASSUME NEW s \in StepIds, Begin(s) \/ End(s) PROVE LoopInv'
  <2>1. PICK v \in {"running", "expired"} \union Finished : step' = [step EXCEPT ![s] = v]
    BY <1>2 DEF Begin, End
  <2>2. UNCHANGED <<pc, sequential, parallel, completed>> /\ v # "none"
    BY <1>2 DEF Begin, End, executor, Finished
  <2>3. \A x \in parallel : step[x] # "none" => step'[x] # "none"
    BY <1>1, <2>1, <2>2
  <2>q. QED BY <2>2, <2>3 DEF LoopInv
<1>3. CASE Start \/ AfterSupervisor \/ AfterParser \/ AfterPlanner \/ Collect \/ AfterSynthesizer
  <2>1. UNCHANGED <<step, executor>>
    BY <1>3 DEF Start, AfterSupervisor, AfterParser, AfterPlanner, Collect, AfterSynthesizer
  <2>2. \/ pc \in {"start", "supervisor", "parser", "planner"} /\ pc' # "parallel"
        \/ pc' \in {"synthesizer", "returned"}
    BY <1>3 DEF Start, AfterSupervisor, AfterParser, AfterPlanner, Collect, AfterSynthesizer, Return, Continue
  <2>q. QED BY <2>1, <2>2 DEF LoopInv, executor
<1>4. CASE Expire \/ Cancel \/ Evict \/ UNCHANGED vars
  BY <1>4 DEF Expire, Cancel, Evict, Environment, vars, executor, LoopInv
<1>5. CASE NextBatch
  BY <1>5 DEF NextBatch, Continue, LoopInv
<1>6. CASE LaunchSequential \/ AfterSequential
  BY <1>6 DEF LaunchSequential, AfterSequential, Continue, LoopInv
<1>7. CASE LaunchParallel
  <2>1. /\ sequential' = sequential /\ parallel' = parallel /\ sequential = {}
        /\ pc' = (IF parallel = {} THEN "batch" ELSE "parallel")
        /\ \A s \in parallel : step'[s] = "queued"
    BY <1>1, <1>7 DEF LaunchParallel, Continue, executor
  <2>q. QED BY <2>1 DEF LoopInv
<1>8. CASE AfterParallel
  BY <1>8 DEF AfterParallel, Continue, LoopInv
<1>q. QED BY <1>2, <1>3, <1>4, <1>5, <1>6, <1>7, <1>8 DEF Next, Advance

\* A later state of a step.
Later(v, w) == \/ v = "none"
               \/ v = "queued" /\ w # "none"
               \/ v \in {"running", "expired"} /\ w \in Finished
Unlaunched == {s \in OwnSteps : step[s] = "none"}
Unended == {s \in OwnSteps : ~Done(s)}

LEMMA StepsProgress ==
  ASSUME RunInv, OwnSteps' = OwnSteps,
         \A s \in OwnSteps : step'[s] = step[s] \/ Later(step[s], step'[s]),
         \E s \in OwnSteps : step'[s] # step[s]
  PROVE  /\ Unlaunched' \subseteq Unlaunched /\ OwnSteps' \ Begun' \subseteq OwnSteps \ Begun
         /\ Unended' \subseteq Unended
         /\ \/ Unlaunched' # Unlaunched \/ OwnSteps' \ Begun' # OwnSteps \ Begun
            \/ Unended' # Unended
<1>1. OwnSteps \subseteq StepIds
  BY PlanFacts DEF OwnSteps, RunInv, TypeOK
<1>2. \A s \in OwnSteps : /\ s \in Unlaunched <=> step[s] = "none"
                          /\ s \in Unlaunched' <=> step'[s] = "none"
                          /\ s \in OwnSteps \ Begun <=> step[s] \in {"none", "queued"}
                          /\ s \in OwnSteps' \ Begun' <=> step'[s] \in {"none", "queued"}
                          /\ s \in Unended <=> step[s] \notin Finished
                          /\ s \in Unended' <=> step'[s] \notin Finished
  BY <1>1 DEF Unlaunched, Begun, Unended, Done
<1>3. /\ Unlaunched' \subseteq OwnSteps /\ Unended' \subseteq OwnSteps
      /\ OwnSteps' \ Begun' \subseteq OwnSteps
  BY DEF Unlaunched, Unended
<1>4. ASSUME NEW s \in OwnSteps
      PROVE  /\ s \in Unlaunched' => s \in Unlaunched
             /\ s \in OwnSteps' \ Begun' => s \in OwnSteps \ Begun
             /\ s \in Unended' => s \in Unended
  <2>1. CASE step'[s] = step[s]
    BY <1>2, <2>1
  <2>2. CASE Later(step[s], step'[s])
    BY <1>2, <2>2 DEF Later, Finished
  <2>q. QED BY <2>1, <2>2
<1>5. PICK s \in OwnSteps : step'[s] # step[s] /\ Later(step[s], step'[s])
  OBVIOUS
<1>6. \/ ~(s \in Unlaunched' <=> s \in Unlaunched)
      \/ ~(s \in OwnSteps' \ Begun' <=> s \in OwnSteps \ Begun)
      \/ ~(s \in Unended' <=> s \in Unended)
  BY <1>2, <1>5 DEF Later, Finished
<1>7. /\ Unlaunched' \subseteq Unlaunched /\ OwnSteps' \ Begun' \subseteq OwnSteps \ Begun
      /\ Unended' \subseteq Unended
  BY <1>3, <1>4
<1>q. QED BY <1>6, <1>7

\* What a move leaves of the stages.
LEMMA StagesPass ==
  /\ \A p, q \in DOMAIN Stage : Stage[p] < Stage[q] =>
       Stage[q]..9 \subseteq Stage[p]..9 /\ Stage[q]..9 # Stage[p]..9
  /\ Stage["start"] < Stage["supervisor"] /\ Stage["supervisor"] < Stage["parser"]
  /\ Stage["parser"] < Stage["planner"] /\ Stage["planner"] < Stage["batch"]
  /\ Stage["sequential"] < Stage["parallel"] /\ Stage["parallel"] < Stage["batch"]
  /\ Stage["batch"] < Stage["collect"] /\ Stage["collect"] < Stage["synthesizer"]
  /\ Stage["synthesizer"] < Stage["returned"]
  /\ Stage["supervisor"] < Stage["returned"] /\ Stage["parser"] < Stage["returned"]
  /\ Stage["planner"] < Stage["returned"] /\ Stage["collect"] < Stage["returned"]
  /\ Stage["parser"] < Stage["batch"] /\ Stage["sequential"] < Stage["batch"]
  /\ Stage["sequential"] < Stage["collect"] /\ Stage["parallel"] < Stage["collect"]
<1>1. \A p \in DOMAIN Stage : Stage[p] \in 1..10
  BY DEF Stage
<1>2. ASSUME NEW m \in 1..10, NEW n \in 1..10, m < n PROVE n..9 \subseteq m..9 /\ n..9 # m..9
  <2>1. m \in m..9 /\ m \notin n..9
    BY <1>2
  <2>q. QED BY <1>2, <2>1
<1>3. ASSUME NEW p \in DOMAIN Stage, NEW q \in DOMAIN Stage, Stage[p] < Stage[q]
      PROVE  Stage[q]..9 \subseteq Stage[p]..9 /\ Stage[q]..9 # Stage[p]..9
  BY <1>1, <1>2, <1>3
<1>q. QED BY <1>3 DEF Stage

\* Five sets that shrink, one of them at least.
LEMMA FiveShrink ==
  ASSUME NEW A, NEW B, NEW C, NEW D, NEW E, NEW A1, NEW B1, NEW C1, NEW D1, NEW E1,
         A1 \subseteq A, B1 \subseteq B, C1 \subseteq C, D1 \subseteq D, E1 \subseteq E,
         A1 # A \/ B1 # B \/ C1 # C \/ D1 # D \/ E1 # E
  PROVE  /\ \A k \in 1..5 : <<A1, B1, C1, D1, E1>>[k] \subseteq <<A, B, C, D, E>>[k]
         /\ <<A1, B1, C1, D1, E1>> # <<A, B, C, D, E>>
<1>1. \A k \in 1..5 : k = 1 \/ k = 2 \/ k = 3 \/ k = 4 \/ k = 5
  OBVIOUS
<1>q. QED BY <1>1

Shrinks == /\ \A k \in 1..5 : WorkLeft'[k] \subseteq WorkLeft[k]
           /\ WorkLeft' # WorkLeft

\* A move to a later stage.
LEMMA StageCounts ==
  ASSUME input' = input, NEW p \in DOMAIN Stage, NEW q \in DOMAIN Stage,
         pc = p, pc' = q, Stage[p] < Stage[q], UNCHANGED <<step, completed>>
  PROVE  Shrinks
<1> DEFINE A == Stage[pc]..9  B == PlanIds \ completed  C == Unlaunched  D == OwnSteps \ Begun
           E == Unended
<1>1. WorkLeft = <<A, B, C, D, E>> /\ WorkLeft' = <<A', B', C', D', E'>>
  BY DEF WorkLeft, Unlaunched, Unended
<1>2. B' = B /\ C' = C /\ D' = D /\ E' = E
  BY SamePlan DEF OwnSteps, Unlaunched, Unended, Begun, Done
<1>3. A' \subseteq A /\ A' # A
  BY StagesPass
<1> HIDE DEF A, B, C, D, E
<1>q. QED BY <1>1, <1>2, <1>3, FiveShrink DEF Shrinks

\* A move of steps, at no earlier stage.
LEMMA StepsCount ==
  ASSUME RunInv, input' = input, completed' = completed,
         pc' = pc \/ (pc \in DOMAIN Stage /\ pc' \in DOMAIN Stage /\ Stage[pc] < Stage[pc']),
         \A s \in OwnSteps : step'[s] = step[s] \/ Later(step[s], step'[s]),
         \E s \in OwnSteps : step'[s] # step[s]
  PROVE  Shrinks
<1> DEFINE A == Stage[pc]..9  B == PlanIds \ completed  C == Unlaunched  D == OwnSteps \ Begun
           E == Unended
<1>1. WorkLeft = <<A, B, C, D, E>> /\ WorkLeft' = <<A', B', C', D', E'>>
  BY DEF WorkLeft, Unlaunched, Unended
<1>2. B' = B /\ A' \subseteq A /\ OwnSteps' = OwnSteps
  BY SamePlan, StagesPass DEF OwnSteps
<1>3. C' \subseteq C /\ D' \subseteq D /\ E' \subseteq E /\ (C' # C \/ D' # D \/ E' # E)
  BY <1>2, StepsProgress
<1> HIDE DEF A, B, C, D, E
<1>q. QED BY <1>1, <1>2, <1>3, FiveShrink DEF Shrinks

LEMMA CompletionCounts ==
  ASSUME input' = input, step' = step, completed \subseteq completed',
         pc' = pc \/ (pc \in DOMAIN Stage /\ pc' \in DOMAIN Stage /\ Stage[pc] < Stage[pc']),
         \E s \in PlanIds : s \in completed' \ completed
  PROVE  Shrinks
<1> DEFINE A == Stage[pc]..9  B == PlanIds \ completed  C == Unlaunched  D == OwnSteps \ Begun
           E == Unended
<1>1. WorkLeft = <<A, B, C, D, E>> /\ WorkLeft' = <<A', B', C', D', E'>>
  BY DEF WorkLeft, Unlaunched, Unended
<1>2. C' = C /\ D' = D /\ E' = E
  BY SamePlan DEF OwnSteps, Unlaunched, Unended, Begun, Done
<1>3. B' \subseteq B /\ B' # B
  BY SamePlan
<1>4. A' \subseteq A
  BY StagesPass
<1> HIDE DEF A, B, C, D, E
<1>q. QED BY <1>1, <1>2, <1>3, <1>4, FiveShrink DEF Shrinks

\* The next turn of the loop takes steps that were in no batch before.
LEMMA BatchCounts ==
  ASSUME RunInv, LoopInv, NextBatch, pc' # "collect"
  PROVE  Unplanned' \subseteq Unplanned /\ Unplanned' # Unplanned
<1> DEFINE batch == ReadySteps(Plan, completed)
<1>1. /\ input' = input /\ completed' = completed /\ Split(batch) /\ batch # {}
      /\ sequential = {} /\ parallel \subseteq completed
  BY DEF NextBatch, Continue, LoopInv
<1>2. /\ Plan' = Plan /\ PlanIds' = PlanIds
      /\ Unplanned = PlanIds \ completed
      /\ Unplanned' \subseteq PlanIds \ completed
  BY <1>1, SamePlan DEF Unplanned
<1>3. PICK i \in batch : i \in DOMAIN Plan /\ Plan[i].id \notin completed /\ Plan[i].id \in PlanIds
  <2>1. PICK i \in batch : TRUE
    BY <1>1
  <2>2. i \in DOMAIN Plan /\ Plan[i].id \notin completed
    BY <2>1 DEF ReadySteps
  <2>q. QED BY <2>2, PlanFacts DEF RunInv, TypeOK
<1>4. Plan[i].id \in {Plan[j].id : j \in sequential'} \union parallel'
  <2>1. Plan[i].parallel \in BOOLEAN
    BY <1>3, PlanFacts DEF RunInv, TypeOK
  <2>2. CASE Plan[i].parallel
    BY <1>1, <1>3, <2>2 DEF Split
  <2>3. CASE ~Plan[i].parallel
    BY <1>1, <1>3, <2>3 DEF Split
  <2>q. QED BY <2>1, <2>2, <2>3
<1>5. Plan[i].id \notin Unplanned'
  BY <1>2, <1>4 DEF Unplanned
<1>q. QED BY <1>2, <1>3, <1>5

MoveCounts ==
  \/ UNCHANGED <<pc, step, executor>>
  \/ Unplanned' \subseteq Unplanned /\ Unplanned' # Unplanned
  \/ Unplanned' = Unplanned /\ Shrinks

LEMMA SameUnplanned ==
  ASSUME input' = input, UNCHANGED executor
  PROVE  Unplanned' = Unplanned
BY SamePlan DEF Unplanned, executor

LEMMA MovesCount == ASSUME RunInv, LoopInv, Next PROVE MoveCounts
<1>0. /\ input \in Inputs /\ PlanIds \subseteq StepIds /\ parallel \subseteq PlanIds
      /\ OwnSteps \subseteq StepIds
      /\ step \in [StepIds -> {"none", "queued", "running", "expired"} \union Finished]
  BY PlanFacts DEF RunInv, TypeOK, OwnSteps
<1>1. ASSUME NEW s \in StepIds, Begin(s) \/ End(s) PROVE MoveCounts
  <2>1. /\ input' = input /\ pc' = pc /\ UNCHANGED executor
    BY <1>1 DEF Begin, End
  <2>2. PICK v \in {"running", "expired"} \union Finished : step' = [step EXCEPT ![s] = v]
    BY <1>1 DEF Begin, End
  <2>3. step[s] # "none" \/ s \in Agents
    BY <1>1 DEF Begin, End
  <2>4. s \in OwnSteps
    BY <2>3 DEF RunInv, OthersIdle, OwnSteps
  <2>5. step'[s] = v /\ \A x \in OwnSteps : x # s => step'[x] = step[x]
    BY <1>0, <2>2
  <2>6. Later(step[s], step'[s]) /\ step'[s] # step[s]
    <3>1. CASE Begin(s)
      <4>1. step[s] \in {"none", "queued"}
        BY <3>1 DEF Begin
      <4>q. QED BY <2>5, <4>1 DEF Later, Finished
    <3>2. CASE End(s)
      <4>1. step[s] \in {"running", "expired"} /\ \E o \in Finished : step' = [step EXCEPT ![s] = o]
        BY <3>2 DEF End
      <4>2. step'[s] \in Finished
        BY <1>0, <4>1
      <4>q. QED BY <4>1, <4>2 DEF Later, Finished
    <3>q. QED BY <1>1, <3>1, <3>2
  <2>7. Shrinks
    BY <2>1, <2>4, <2>5, <2>6, StepsCount DEF executor
  <2>q. QED BY <2>1, <2>7, SameUnplanned DEF MoveCounts
<1>2. ASSUME NEW p \in DOMAIN Stage, NEW q \in DOMAIN Stage, pc = p, pc' = q, Stage[p] < Stage[q],
             UNCHANGED <<input, step, executor>>
      PROVE  MoveCounts
  BY <1>2, StageCounts, SameUnplanned DEF MoveCounts, executor
<1>3. CASE Start
  BY <1>2, <1>3, StagesPass DEF Start, Stage
<1>4. CASE AfterSupervisor
  <2>1. pc = "supervisor" /\ pc' \in {"parser", "returned"} /\ UNCHANGED <<input, step, executor>>
    BY <1>4 DEF AfterSupervisor, Return, Continue
  <2>2. "supervisor" \in DOMAIN Stage /\ "parser" \in DOMAIN Stage /\ "returned" \in DOMAIN Stage
    BY DEF Stage
  <2>q. QED BY <1>2, <2>1, <2>2, StagesPass
<1>5. CASE AfterParser
  <2>1. pc = "parser" /\ pc' \in {"planner", "batch", "returned"} /\ UNCHANGED <<input, step, executor>>
    BY <1>5 DEF AfterParser, Return, Continue
  <2>2. {"parser", "planner", "batch", "returned"} \subseteq DOMAIN Stage
    BY DEF Stage
  <2>q. QED BY <1>2, <2>1, <2>2, StagesPass
<1>6. CASE AfterPlanner
  <2>1. pc = "planner" /\ pc' \in {"batch", "returned"} /\ UNCHANGED <<input, step, executor>>
    BY <1>6 DEF AfterPlanner, Return, Continue
  <2>2. {"planner", "batch", "returned"} \subseteq DOMAIN Stage
    BY DEF Stage
  <2>q. QED BY <1>2, <2>1, <2>2, StagesPass
<1>7. CASE NextBatch
  <2>1. CASE pc' = "collect"
    <3>1. pc = "batch" /\ UNCHANGED <<input, step, executor>>
      BY <1>7, <2>1 DEF NextBatch, Continue
    <3>2. {"batch", "collect"} \subseteq DOMAIN Stage
      BY DEF Stage
    <3>q. QED BY <1>2, <2>1, <3>1, <3>2, StagesPass
  <2>q. QED BY <1>7, <2>1, BatchCounts DEF MoveCounts
<1>8. CASE LaunchSequential
  <2>1. /\ input' = input /\ pc' = pc /\ UNCHANGED executor /\ sequential # {}
        /\ step[Turn] = "none" /\ step' = [step EXCEPT ![Turn] = "queued"]
    BY <1>8 DEF LaunchSequential
  <2>2. PICK t \in PlanIds : t = Turn
    BY <2>1, TurnFacts DEF RunInv
  <2>3. step[t] = "none" /\ step'[t] = "queued" /\ t \in OwnSteps
        /\ \A x \in OwnSteps : x # t => step'[x] = step[x]
    BY <1>0, <2>1, <2>2 DEF OwnSteps
  <2>4. Shrinks
    BY <2>1, <2>3, StepsCount DEF Later, executor
  <2>q. QED BY <2>1, <2>4, SameUnplanned DEF MoveCounts
<1>9. CASE AfterSequential
  <2>1. /\ input' = input /\ step' = step /\ parallel' = parallel /\ sequential # {} /\ pc = "sequential"
        /\ completed' = completed \union {Turn} /\ sequential' = sequential \ {First}
        /\ pc' \in {"sequential", "collect"}
    BY <1>9 DEF AfterSequential, Continue
  <2>2. First \in sequential /\ Turn = Plan[First].id /\ Turn \in PlanIds /\ Turn \notin completed
    BY <2>1, TurnFacts DEF RunInv, SequentialReady
  <2>3. Unplanned' = Unplanned
    <3>1. Plan' = Plan /\ PlanIds' = PlanIds
      BY <2>1, SamePlan
    <3>2. completed' \union {Plan[i].id : i \in sequential'} = completed \union {Plan[i].id : i \in sequential}
      BY <2>1, <2>2
    <3>q. QED BY <2>1, <3>1, <3>2 DEF Unplanned
  <2>4. {"sequential", "collect"} \subseteq DOMAIN Stage
    BY DEF Stage
  <2>5. Shrinks
    BY <2>1, <2>2, <2>4, StagesPass, CompletionCounts
  <2>q. QED BY <2>3, <2>5 DEF MoveCounts
<1>10. CASE LaunchParallel
  <2>1. /\ input' = input /\ UNCHANGED executor /\ sequential = {} /\ pc = "sequential"
        /\ pc' = (IF parallel = {} THEN "batch" ELSE "parallel")
        /\ step' = [s \in StepIds |-> IF s \in parallel THEN "queued" ELSE step[s]]
    BY <1>10 DEF LaunchParallel, Continue
  <2>2. \A s \in parallel : s \in OwnSteps /\ step[s] = "none"
    BY <1>0, <2>1 DEF OwnSteps, RunInv, ParallelReady, InBatch
  <2>3. \A s \in OwnSteps : step'[s] = step[s] \/ Later(step[s], step'[s])
    BY <1>0, <2>1, <2>2 DEF Later
  <2>4. {"sequential", "batch", "parallel"} \subseteq DOMAIN Stage
    BY DEF Stage
  <2>5. CASE parallel = {}
    <3>1. step' = step
      BY <1>0, <2>1, <2>5
    <3>q. QED BY <1>2, <2>1, <2>4, <2>5, <3>1, StagesPass
  <2>6. CASE parallel # {}
    <3>1. \E s \in OwnSteps : step'[s] # step[s]
      <4>1. PICK s \in parallel : TRUE
        BY <2>6
      <4>2. s \in StepIds /\ step'[s] = "queued" /\ step[s] = "none"
        BY <1>0, <2>1, <2>2, <4>1
      <4>q. QED BY <2>2, <4>1, <4>2
    <3>2. Shrinks
      BY <2>1, <2>3, <2>4, <2>6, <3>1, StagesPass, StepsCount DEF executor
    <3>q. QED BY <2>1, <3>2, SameUnplanned DEF MoveCounts
  <2>q. QED BY <2>5, <2>6
<1>11. CASE AfterParallel
  <2>1. /\ input' = input /\ step' = step /\ parallel' = parallel /\ sequential' = sequential
        /\ pc = "parallel" /\ completed' = completed \union parallel
        /\ pc' \in {"batch", "collect"}
    BY <1>11 DEF AfterParallel, Continue
  <2>2. Unplanned' = Unplanned
    BY <2>1, SamePlan DEF Unplanned
  <2>3. {"parallel", "batch", "collect"} \subseteq DOMAIN Stage
    BY DEF Stage
  <2>4. Shrinks
    <3>1. CASE parallel = {}
      BY <2>1, <2>3, <3>1, StagesPass, StageCounts
    <3>2. CASE parallel # {}
      <4>1. \E s \in PlanIds : s \in completed' \ completed
        BY <1>0, <2>1, <3>2 DEF RunInv, ParallelReady
      <4>q. QED BY <2>1, <2>3, <4>1, StagesPass, CompletionCounts
    <3>q. QED BY <3>1, <3>2
  <2>q. QED BY <2>2, <2>4 DEF MoveCounts
<1>12. CASE Collect
  <2>1. pc = "collect" /\ pc' \in {"synthesizer", "returned"} /\ UNCHANGED <<input, step, executor>>
    BY <1>12 DEF Collect, Return, Continue
  <2>2. {"collect", "synthesizer", "returned"} \subseteq DOMAIN Stage
    BY DEF Stage
  <2>q. QED BY <1>2, <2>1, <2>2, StagesPass
<1>13. CASE AfterSynthesizer
  <2>1. pc = "synthesizer" /\ pc' = "returned" /\ UNCHANGED <<input, step, executor>>
    BY <1>13 DEF AfterSynthesizer, Return
  <2>2. {"synthesizer", "returned"} \subseteq DOMAIN Stage
    BY DEF Stage
  <2>q. QED BY <1>2, <2>1, <2>2, StagesPass
<1>14. CASE Expire \/ Cancel \/ Evict
  BY <1>14 DEF Expire, Cancel, Evict, Environment, MoveCounts, executor
<1>q. QED
  BY <1>1, <1>3, <1>4, <1>5, <1>6, <1>7, <1>8, <1>9, <1>10, <1>11, <1>12, <1>13, <1>14
  DEF Next, Advance

LEMMA LoopInvariant == Spec => [](RunInv /\ LoopInv)
BY InvariantInitially, LoopInitially, InvariantKept, LoopKept, PTL DEF Spec

\* Each move of a run gets something done and undoes nothing, but for the next turn
\* of the executor's loop, which takes steps that were in no batch before: whatever
\* the dependencies of the plan, the loop does not turn for ever.
THEOREM EveryRunEnds == Spec => EveryMoveCounts
<1>1. ASSUME RunInv, LoopInv, [Next]_vars PROVE [MoveCounts]_vars
  BY <1>1, MovesCount
<1>q. QED
  BY <1>1, LoopInvariant, PTL DEF Spec, EveryMoveCounts, MoveCounts, Shrinks

\* What the steps left amount to is finite, so that the moves are finitely many.
THEOREM WorkIsFinite ==
  Spec => [](IsFiniteSet(Unplanned) /\ \A k \in 1..5 : IsFiniteSet(WorkLeft[k]))
<1>1. ASSUME RunInv
      PROVE  IsFiniteSet(Unplanned) /\ \A k \in 1..5 : IsFiniteSet(WorkLeft[k])
  <2>1. IsFiniteSet(DOMAIN Plan)
    <3>1. CASE input.given
      BY <1>1, <3>1, InputsAssumption DEF Plan, RunInv, TypeOK
    <3>2. CASE ~input.given
      <4>1. DOMAIN Plan = {1}
        BY <3>2 DEF Plan, DefaultPlan
      <4>q. QED BY <4>1, FS_Singleton
    <3>q. QED BY <3>1, <3>2
  <2>2. IsFiniteSet(PlanIds)
    <3> DEFINE f == [i \in DOMAIN Plan |-> Plan[i].id]
    <3>1. f \in Surjection(DOMAIN Plan, PlanIds)
      BY DEF Surjection, PlanIds, IdsOf
    <3> HIDE DEF f
    <3>q. QED BY <2>1, <3>1, FS_Surjection
  <2>3. IsFiniteSet(OwnSteps)
    <3>1. IsFiniteSet({"supervisor"} \union {"parser"})
      BY FS_Singleton, FS_AddElement
    <3>2. IsFiniteSet({"supervisor", "parser"} \union {"planner"})
      BY <3>1, FS_AddElement
    <3>3. IsFiniteSet({"supervisor", "parser", "planner"} \union {"synthesizer"})
      BY <3>2, FS_AddElement
    <3>4. IsFiniteSet(Agents)
      BY <3>3 DEF Agents
    <3>q. QED BY <2>2, <3>4, FS_Union DEF OwnSteps
  <2>4. /\ IsFiniteSet(Unplanned) /\ IsFiniteSet(PlanIds \ completed) /\ IsFiniteSet(Unlaunched)
        /\ IsFiniteSet(OwnSteps \ Begun) /\ IsFiniteSet(Unended)
    BY <2>2, <2>3, FS_Subset DEF Unplanned, Unlaunched, Unended
  <2>5. IsFiniteSet(Stage[pc]..9)
    <3>1. Stage[pc] \in Int
      BY <1>1 DEF RunInv, TypeOK, Agents, Stage
    <3>q. QED BY <3>1, FS_Interval
  <2> DEFINE A == Stage[pc]..9  B == PlanIds \ completed  D == OwnSteps \ Begun
  <2>6. WorkLeft = <<A, B, Unlaunched, D, Unended>>
    BY DEF WorkLeft, Unlaunched, Unended
  <2>7. \A k \in 1..5 : k = 1 \/ k = 2 \/ k = 3 \/ k = 4 \/ k = 5
    OBVIOUS
  <2>8. IsFiniteSet(A) /\ IsFiniteSet(B) /\ IsFiniteSet(D)
    BY <2>4, <2>5
  <2> HIDE DEF A, B, D
  <2>q. QED BY <2>4, <2>6, <2>7, <2>8
<1>q. QED BY <1>1, RunInvariant, PTL

\* What the executor awaits at the end of a batch is over, under way or in the
\* limiter's queue: it never awaits a step that nobody has launched.  At every other
\* place a run that has not returned awaits at most one step, which is over, under
\* way, or to be launched by its own next move; so it is never stuck.
THEOREM AwaitedStepsAreLaunched ==
  Spec => [](pc = "parallel" => \A s \in parallel : s \in InFlight \/ Done(s))
<1>1. ASSUME RunInv, LoopInv
      PROVE  pc = "parallel" => \A s \in parallel : s \in InFlight \/ Done(s)
  <2>1. parallel \subseteq StepIds
    BY <1>1, PlanFacts DEF RunInv, TypeOK
  <2>2. \A s \in StepIds : step[s] = "none" \/ s \in InFlight \/ Done(s)
    BY <1>1 DEF RunInv, TypeOK, InFlight, Done
  <2>q. QED BY <1>1, <2>1, <2>2 DEF LoopInv
<1>q. QED BY <1>1, LoopInvariant, PTL
=============================================================================
