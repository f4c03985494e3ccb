--------------------------- MODULE MCOrchestrator ---------------------------
(* Small instances of Orchestrator: the default plan, plans of two steps     *)
(* whose dependencies are the first one (a self-loop, for it) or an id that  *)
(* does not exist, and plans of three steps chosen for their shape.          *)
EXTENDS OrchestratorProps

S(id, deps, par) == [id |-> id, dependsOn |-> deps, parallel |-> par]

PairPlans == PlansOver(<<"a", "b">>, {"a", "ghost"})

ShapedPlans ==
  { <<S("a", {}, TRUE), S("b", {}, FALSE), S("c", {}, TRUE)>>,       \* mixed batch
    <<S("c", {"a", "b"}, FALSE), S("a", {}, TRUE), S("b", {}, TRUE)>>,  \* join, out of order
    <<S("a", {}, FALSE), S("b", {"a"}, TRUE), S("c", {"a"}, TRUE)>>,    \* fork
    <<S("c", {"b"}, TRUE), S("b", {"a"}, TRUE), S("a", {}, TRUE)>>,     \* chain, reversed
    <<S("a", {}, FALSE), S("b", {"c"}, FALSE), S("c", {"b"}, FALSE)>>,  \* cycle behind a step
    <<S("a", {}, TRUE), S("b", {"a", "ghost"}, TRUE), S("c", {"a"}, FALSE)>> }

MCInputs ==
  [plan : PairPlans \union ShapedPlans, given : {TRUE}, abortOnError : BOOLEAN]
    \union [plan : {DefaultPlan}, given : {FALSE}, abortOnError : BOOLEAN]

DefaultInputs == [plan : {DefaultPlan}, given : {FALSE}, abortOnError : {TRUE}]
=============================================================================
