---------------------------- MODULE MCHttpServer ----------------------------
(* The HTTP server and, beside it, the plan validator: a behaviour is one of a *)
(* single part, and the other stands still.                                    *)
EXTENDS HttpServer, MCPlanValidator

CONSTANT Parts

VARIABLE part  \* the part this behaviour is about

\* The variables of the server are `vars'.
allVars == <<part, vars, planVars>>

MCInit ==
  /\ part \in Parts
  /\ Init
  /\ PlanInit
  /\ part # "validator" => plan = NoSkills /\ cfg.maxSteps = 4

MCNext ==
  /\ UNCHANGED part
  /\ \/ part = "server" /\ Next /\ UNCHANGED planVars
     \/ part = "validator" /\ PlanNext /\ UNCHANGED vars

\* A server without requests asks nothing of fairness.
MCSpec == MCInit /\ [][MCNext]_allVars /\ HttpFairness
=============================================================================
