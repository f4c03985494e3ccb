--------------------------- MODULE MCPlanValidator ---------------------------
(* Small instances of PlanValidator: every dependency graph of three steps,   *)
(* with a dependency that does not exist, fewer shapes of the other           *)
(* attributes, and single steps at any mixture of skill files.                *)
EXTENDS PlanValidator

Specialist == <<"Liku", "specialist", "other">>
AtRoot     == <<"Liku", "root">>
Elsewhere  == <<"Liku", "other">>
Outside    == <<"other", "specialist">>

Placed(s, residence, files) ==
  [id |-> s.id, dependsOn |-> s.dependsOn, parallel |-> s.parallel,
   residence |-> residence, files |-> files]

\* The first step at the residence, the others at a specialist; no skills.
PlanOf(p, residence, esc) ==
  [steps |-> [i \in DOMAIN p |-> Placed(p[i], IF i = 1 THEN residence ELSE Specialist, <<>>)],
   escalation |-> esc]

Deps == {"a", "b", "c", "ghost"}
Graphs3 == {[i \in 1..3 |-> [id |-> <<"a", "b", "c">>[i], dependsOn |-> d[i],
                             parallel |-> i # 1]] : d \in [1..3 -> SUBSET Deps]}

\* Two independent chains whose second steps are parallel.
TwoChains ==
  <<[id |-> "a", dependsOn |-> {}, parallel |-> FALSE],
    [id |-> "b", dependsOn |-> {}, parallel |-> FALSE],
    [id |-> "c", dependsOn |-> {"a"}, parallel |-> TRUE],
    [id |-> "d", dependsOn |-> {"b"}, parallel |-> TRUE]>>

\* Skill files: two ids, one of them defined twice, in one file or in two.
Elements(ids) ==
  {Element(id, p, r, e) : id \in ids, p \in {"other", "specialist", "root"},
                          r \in {"other", "write_repo", "escalate"}, e \in BOOLEAN}
SkillFiles == {<<<<near>>, <<far>>>> : near \in Elements({0, 1, 2}), far \in Elements({1})}
                \union {<<<<first, last>>>> : first \in Elements({1}), last \in Elements({1})}

SingleStep(residence, files) ==
  [steps |-> <<Placed([id |-> "a", dependsOn |-> {}, parallel |-> FALSE], residence, files)>>,
   escalation |-> FALSE]

NoSkills == SingleStep(Specialist, <<>>)

MCPlans ==
  {NoSkills, SingleStep(Specialist, SeededFiles), PlanOf(TwoChains, Specialist, FALSE)}
    \union {PlanOf(p, Specialist, FALSE) : p \in Graphs3}
    \union {PlanOf(p, residence, esc) :
              p \in PlansOver(<<"a", "b">>, {"a", "b"}),
              residence \in {AtRoot, Elsewhere, Outside, <<"Liku">>, <<"Liku", "other", "Liku">>}, esc \in BOOLEAN}
    \union {SingleStep(r, f) : r \in {AtRoot, Specialist, Elsewhere}, f \in SkillFiles}

MCConstraints ==
  {[constraintsFromPrivilege("specialist") EXCEPT !.maxSteps = 4, !.maxParallelism = 1],
   [constraintsFromPrivilege("root") EXCEPT !.maxSteps = 2, !.maxParallelism = 2,
                                            !.allowEscalation = FALSE],
   [constraintsFromPrivilege("user") EXCEPT !.maxSteps = 3, !.maxParallelism = 2]}

\* The two chains, where one parallel step at a time is allowed.
MCTwoChains == {PlanOf(TwoChains, Specialist, FALSE)}
MCOneAtATime == {[constraintsFromPrivilege("specialist") EXCEPT !.maxParallelism = 1]}
=============================================================================
