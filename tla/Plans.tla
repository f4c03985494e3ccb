------------------------------- MODULE Plans -------------------------------
(***************************************************************************)
(* Plans as the planner hands them over (PlanStep and PlannerOutput of     *)
(* src/liku/orchestrator/types.ts): a sequence of steps, each with a       *)
(* unique id, the ids it depends on, and whether it may run in parallel    *)
(* with its siblings.  A dependency may name an id that no step has.       *)
(***************************************************************************)
EXTENDS Naturals, Sequences, FiniteSets

IdsOf(plan) == {plan[i].id : i \in DOMAIN plan}

\* The step with that id; ids are unique in a plan.
StepOf(plan, id) == plan[CHOOSE i \in DOMAIN plan : plan[i].id = id]

\* Mutated form of ReadySteps: one completed dependency is enough.
ReadyStepsAny(plan, completed) ==
  {i \in DOMAIN plan : /\ plan[i].id \notin completed
                       /\ plan[i].dependsOn = {} \/ plan[i].dependsOn \intersect completed # {}}

\* readySteps of the executor, as positions in the plan: not completed, every
\* dependency completed.
ReadySteps(plan, completed) ==
  {i \in DOMAIN plan : plan[i].id \notin completed /\ plan[i].dependsOn \subseteq completed}

\* Every dependency names a step of the plan.
NoMissingDependency(plan) == \A i \in DOMAIN plan : plan[i].dependsOn \subseteq IdsOf(plan)

\* No set of steps in which each one depends on another one of the set (or on
\* itself): the definition of an acyclic dependency graph, for finite plans.
Acyclic(plan) ==
  \A S \in (SUBSET IdsOf(plan)) \ {{}} :
    \E id \in S : StepOf(plan, id).dependsOn \intersect S = {}

\* What the plan validator is there to establish before execution.
Executable(plan) == NoMissingDependency(plan) /\ Acyclic(plan)

\* All plans over the sequence of ids `ids', with dependencies drawn from Deps.
PlansOver(ids, Deps) ==
  {[i \in DOMAIN ids |-> [id |-> ids[i], dependsOn |-> d[i], parallel |-> p[i]]] :
     d \in [DOMAIN ids -> SUBSET Deps], p \in [DOMAIN ids -> BOOLEAN]}
=============================================================================
