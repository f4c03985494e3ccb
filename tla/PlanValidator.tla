---------------------------- MODULE PlanValidator ----------------------------
(***************************************************************************)
(* src/liku/orchestrator/planValidator.ts: validatePlan applies its checks *)
(* in order and reports the first that fails.  The module runs a validated *)
(* plan through the batches of the executor (the while loop of             *)
(* executeStepsWithEvents), to relate what the validator accepts with what *)
(* the executor does.  The cycle search is the recursive depth-first search*)
(* of the code, with its stack of calls as a variable: validatePlan does   *)
(* not yield, so nobody sees the states in between.  It is compared with   *)
(* the definition of acyclicity in Plans.                                  *)
(* Each step passes checkForEscalation before it runs (runStep): it ends   *)
(* escalated, or in success, and the executor goes on in either case.      *)
(***************************************************************************)
EXTENDS Plans, Skills

CONSTANTS
  PlanInputs,    \* plans to validate; a step also has the residence of its agent
                 \* and the skill files found from there (see Skills)
  Constraints    \* constraints to validate them against

\* The ids of a plan are unique (stepMap would keep the last step of an id), an id
\* is the id of a step, a path has at least one segment, and a skill file is what
\* the parser makes of it.
ASSUME PlanAssumption ==
  /\ \A p \in PlanInputs :
       /\ Len(p.steps) \in Nat /\ DOMAIN p.steps = 1..Len(p.steps)
       /\ \A i, j \in DOMAIN p.steps : p.steps[i].id = p.steps[j].id => i = j
       /\ \A i \in DOMAIN p.steps : /\ p.steps[i].residence \in Seq(STRING) \ {<<>>}
                                     /\ p.steps[i].files \in Seq(Seq(SkillElements))
  /\ \A c \in Constraints : c.maxSteps \in Nat /\ c.maxParallelism \in Nat

\* [maxSteps, maxParallelism, allowed, allowEscalation], `allowed' being the
\* capabilities the context may use; DEFAULT_PLAN_CONSTRAINTS are a specialist's.
constraintsFromPrivilege(privilege) ==
  [maxSteps |-> CASE privilege = "root" -> 50 [] privilege = "specialist" -> 20 [] OTHER -> 5,
   maxParallelism |-> IF privilege = "root" THEN 10 ELSE 5,
   allowed |-> PRIVILEGE_CAPABILITIES[privilege],
   allowEscalation |-> privilege # "user"]

Steps(plan) == {plan.steps[i] : i \in DOMAIN plan.steps}
Ids(plan)   == IdsOf(plan.steps)

-----------------------------------------------------------------------------
(* The checks.                                                             *)

\* Mutated form of checkParallelism: one step too many is accepted.
checkParallelismLoose(plan, max) ==
  \A s \in Steps(plan) :
    Cardinality({t \in Steps(plan) : t.dependsOn = s.dependsOn /\ t.parallel}) <= max + 1

\* Groups of steps with the same dependencies, not batches of the executor.
checkParallelism(plan, max) ==
  \A s \in Steps(plan) :
    Cardinality({t \in Steps(plan) : t.dependsOn = s.dependsOn /\ t.parallel}) <= max

\* Mutated form of checkMissingDependencies: one known dependency is enough.
checkMissingAny(plan) ==
  \A s \in Steps(plan) : s.dependsOn = {} \/ s.dependsOn \intersect Ids(plan) # {}

checkMissingDependencies(plan) == \A s \in Steps(plan) : s.dependsOn \subseteq Ids(plan)

\* Mutated form of validateStep: only the path is looked at.
validateStepPath(s, limits) ==
  IF Len(s.residence) < 2 \/ s.residence[1] # "Liku" THEN "invalid_residence" ELSE "valid"

\* validateStep: the residence has capabilities that the context may not use; only
\* the powerful ones count.
validateStep(s, limits) ==
  LET forbidden == PRIVILEGE_CAPABILITIES[getResidencePrivilege(s.residence)] \ limits.allowed
  IN IF Len(s.residence) < 2 \/ s.residence[1] # "Liku" THEN "invalid_residence"
     ELSE IF forbidden \intersect {"escalate", "network_access"} # {} THEN "unauthorized_capability"
     ELSE "valid"

\* The verdict on the first step that is not valid, if there is one.
checkSteps(plan, limits) ==
  LET bad == {i \in DOMAIN plan.steps : validateStep(plan.steps[i], limits) # "valid"}
  IN IF bad = {} THEN "valid" ELSE validateStep(plan.steps[Min(bad)], limits)

\* validatePlan up to the cycle search, and from its end on.
checkBefore(plan, limits) ==
  IF Len(plan.steps) > limits.maxSteps THEN "too_many_steps"
  ELSE IF ~checkParallelism(plan, limits.maxParallelism) THEN "too_much_parallelism"
  ELSE "searching"

checkAfter(plan, limits) ==
  IF ~checkMissingDependencies(plan) THEN "missing_dependency"
  ELSE IF checkSteps(plan, limits) # "valid" THEN checkSteps(plan, limits)
  ELSE IF plan.escalation /\ ~limits.allowEscalation THEN "unauthorized_escalation"
  ELSE "valid"

-----------------------------------------------------------------------------
VARIABLES
  plan,     \* the plan
  cfg,      \* the constraints it is validated against
  verdict,  \* "none" until it is validated, "searching" for a cycle, then the result
  looked,   \* how many steps the loop of checkCircularDependencies has got through
  calls,    \* the calls of dfs that have not returned, outermost first
  visited,  \* steps whose call has returned
  stepResult   \* of each step: "none" until it has run

searchVars == <<looked, calls, visited>>
planVars == <<plan, cfg, verdict, searchVars, stepResult>>

PlanInit ==
  /\ plan \in PlanInputs
  /\ cfg \in Constraints
  /\ verdict = "none"
  /\ looked = 0 /\ calls = <<>> /\ visited = {}
  /\ stepResult = [id \in Ids(plan) |-> "none"]

BeginValidation ==
  /\ verdict = "none"
  /\ verdict' = checkBefore(plan, cfg)
  /\ UNCHANGED <<plan, cfg, searchVars, stepResult>>

-----------------------------------------------------------------------------
(* The cycle search.                                                       *)

\* A dependency without a step is passed over.
Dependencies(id) == StepOf(plan.steps, id).dependsOn \intersect Ids(plan)

\* A call of dfs, with the dependencies its loop has not come to.
DfsCall(id) == [id |-> id, todo |-> Dependencies(id)]

\* The members of `visiting' are the steps of the calls under way.
visiting == {calls[i].id : i \in DOMAIN calls}
Innermost == calls[Len(calls)]

\* The loop over the steps; a call for a visited one returns at once.
SearchNext ==
  /\ verdict = "searching" /\ calls = <<>> /\ looked < Len(plan.steps)
  /\ looked' = looked + 1
  /\ LET id == plan.steps[looked + 1].id
     IN calls' = IF id \in visited THEN <<>> ELSE <<DfsCall(id)>>
  /\ UNCHANGED <<plan, cfg, verdict, visited, stepResult>>

\* Mutated form of LookAt: one set for what is visited and what is being visited.
LookAtOneSet(dep) ==
  LET left == [calls EXCEPT ![Len(calls)].todo = @ \ {dep}]
  IN /\ calls' = IF dep \in visited \union visiting THEN left ELSE Append(left, DfsCall(dep))
     /\ UNCHANGED verdict

\* Mutated form of LookAt: a step that is being visited is visited again.
LookAtUnmarked(dep) ==
  LET left == [calls EXCEPT ![Len(calls)].todo = @ \ {dep}]
  IN /\ calls' = IF dep \in visited THEN left ELSE Append(left, DfsCall(dep))
     /\ UNCHANGED verdict

\* The next dependency of the innermost call: it closes a cycle, is done with, or
\* has a call of its own.  (In which order a loop comes to them is left open.)
LookAt(dep) ==
  LET left == [calls EXCEPT ![Len(calls)].todo = @ \ {dep}]
  IN IF dep \in visiting THEN verdict' = "circular_dependency" /\ calls' = <<>>
     ELSE /\ calls' = IF dep \in visited THEN left ELSE Append(left, DfsCall(dep))
          /\ UNCHANGED verdict

SearchDeeper ==
  /\ verdict = "searching" /\ calls # <<>>
  /\ \E dep \in Innermost.todo : LookAt(dep)
  /\ UNCHANGED <<plan, cfg, looked, visited, stepResult>>

\* The innermost call is through, and found no cycle.
SearchReturns ==
  /\ verdict = "searching" /\ calls # <<>> /\ Innermost.todo = {}
  /\ visited' = visited \union {Innermost.id}
  /\ calls' = SubSeq(calls, 1, Len(calls) - 1)
  /\ UNCHANGED <<plan, cfg, verdict, looked, stepResult>>

EndValidation ==
  /\ verdict = "searching" /\ calls = <<>> /\ looked = Len(plan.steps)
  /\ verdict' = checkAfter(plan, cfg)
  /\ UNCHANGED <<plan, cfg, searchVars, stepResult>>

Validate == BeginValidation \/ SearchNext \/ SearchDeeper \/ SearchReturns \/ EndValidation

-----------------------------------------------------------------------------
(* The executor.                                                           *)

\* A step that ran or was escalated counts as completed.
Completed == {id \in Ids(plan) : stepResult[id] # "none"}
Ready == {s \in Steps(plan) : s.id \notin Completed /\ s.dependsOn \subseteq Completed}

\* runStep up to checkForEscalation, its agent and its LLM call succeeding.
Outcome(s) ==
  IF checkForEscalation(loadInheritedSkills(s.files), getResidencePrivilege(s.residence)) = 0
  THEN "success" ELSE "escalated"

\* One turn of the executor's loop; an escalation does not stop it.
RunBatch ==
  /\ verdict = "valid"
  /\ Ready # {}
  /\ stepResult' = [id \in Ids(plan) |->
                   IF \E s \in Ready : s.id = id THEN Outcome(StepOf(plan.steps, id))
                   ELSE stepResult[id]]
  /\ UNCHANGED <<plan, cfg, verdict, searchVars>>

PlanNext == Validate \/ RunBatch
PlanSpec == PlanInit /\ [][PlanNext]_planVars

-----------------------------------------------------------------------------
\* The search answers "circular" exactly for the plans whose dependency graph has
\* a cycle: also with dependencies on the step itself or on no step, with several
\* components, and with steps shared by several paths.
SearchFindsCycles ==
  /\ verdict = "circular_dependency" => ~Acyclic(plan.steps)
  /\ verdict \notin {"none", "searching", "circular_dependency", "too_many_steps",
                      "too_much_parallelism"} => Acyclic(plan.steps)

\* What the counts of the validator are worth to the executor: a batch of an
\* accepted plan runs more than maxParallelism parallel steps at once only if they
\* became ready through different dependencies.
OnlyMixedBatchesExceed ==
  LET batch == {s \in Ready : s.parallel}
  IN (verdict = "valid" /\ Cardinality(batch) > cfg.maxParallelism) =>
       \E s, t \in batch : s.dependsOn # t.dependsOn

\* PlanConstraints: maxParallelism is the "Maximum parallel steps in any batch".
BatchesWithinMaxParallelism ==
  verdict = "valid" => Cardinality({s \in Ready : s.parallel}) <= cfg.maxParallelism

\* A valid plan is never left half executed: the executor runs every step, so
\* its silent `break' on an empty batch is never taken.
ValidPlanRunsEveryStep ==
  verdict = "valid" /\ Ready = {} => Completed = Ids(plan)

\* What the loops have not come to: steps of the outer loop of the search, steps to
\* be visited, dependencies to be looked at, and steps to be run.
LoopWork ==
  LET open(id, dep) == /\ id \notin visited /\ dep \in Dependencies(id)
                       /\ \A i \in DOMAIN calls : calls[i].id = id => dep \in calls[i].todo
  IN <<(looked + 1)..Len(plan.steps), Ids(plan) \ visited,
       {edge \in Ids(plan) \X Ids(plan) : open(edge[1], edge[2])}, Ids(plan) \ Completed>>

\* The recursion of dfs and the while loop of the executor end: each of their turns
\* does away with something that was left and brings nothing back, so no step is
\* visited twice and no dependency looked at twice, on whichever paths they are met.
EveryTurnCounts ==
  [][\/ UNCHANGED planVars   \* nothing of this part moves
     \/ verdict' # verdict
     \/ /\ \A k \in 1..4 : LoopWork'[k] \subseteq LoopWork[k]
        /\ LoopWork' # LoopWork]_planVars

\* A step escalates exactly if one of the skills it ends up with is out of its
\* reach: of each id the definition of the nearest file counts, in a file the
\* last one; it is out of reach if it asks for a higher privilege, or for a
\* capability to be escalated that the residence lacks.  Nothing a parent
\* directory says of an id can add an escalation to that, or hide one.
Definitions(s, id) ==
  LET having == {f \in DOMAIN s.files : \E i \in DOMAIN s.files[f] : s.files[f][i].id = id}
      nearest == s.files[Min(having)]
  IN IF having = {} THEN {}
     ELSE {nearest[Max({i \in DOMAIN nearest : nearest[i].id = id})]}

OutOfReach(skill, privilege) ==
  \/ privilege = "user" /\ skill.privilege = "specialist"
  \/ privilege # "root" /\ skill.privilege = "root"
  \/ skill.escalate /\ skill.requires \in Capabilities \ PRIVILEGE_CAPABILITIES[privilege]

SkillIds(s) == {e.id : e \in UNION {Range(f) : f \in Range(s.files)}} \ {0}

StepEscalatesForItsSkills ==
  \A s \in Steps(plan) : stepResult[s.id] # "none" =>
    (stepResult[s.id] = "escalated" <=>
       \E id \in SkillIds(s) : \E skill \in Definitions(s, id) :
         OutOfReach(skill, getResidencePrivilege(s.residence)))

\* No plan gets at the skills of root from below: a step that ends up with a skill
\* for root, and runs, was accepted for a context with root's powers.  The executor
\* asks only the residence, which the planner chose, so the validator must.
RootSkillsNeedRootContext ==
  \A s \in Steps(plan) :
    (stepResult[s.id] = "success"
       /\ \E id \in SkillIds(s) : \E skill \in Definitions(s, id) : skill.privilege = "root")
    => {"escalate", "network_access"} \subseteq cfg.allowed
=============================================================================
