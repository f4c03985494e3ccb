------------------------------- MODULE MCParts -------------------------------
(* The parts that share no state, side by side: a behaviour is one of a      *)
(* single part, and the others stand still.                                  *)
EXTENDS ConcurrencyLimiter, TaskLifecycle, CliRun, TenantConcurrency,
        AuditReader, AgentContracts

CONSTANT Parts

VARIABLE part  \* the part this behaviour is about

\* The variables of the limiter are `vars'.
allVars == <<part, vars, lifecycleVars, cliVars, guardVars, readerVars, repairVars>>

On(p) == part = p

\* A part that stands still has one initial state.
Still(p, state) == IF On(p) THEN TRUE ELSE state

MCInit ==
  /\ part \in Parts
  /\ Still("audit", wanted = {"success"} /\ order = "asc") /\ ReaderInit
  /\ Still("contracts", agentRole = "planner" /\ diligent = FALSE) /\ RepairInit
  /\ Init /\ LifecycleInit /\ CliInit /\ GuardInit

MCNext ==
  /\ UNCHANGED part
  /\ \/ On("limiter") /\ Next
        /\ UNCHANGED <<lifecycleVars, cliVars, guardVars, readerVars, repairVars>>
     \/ On("registry") /\ LifecycleNext
        /\ UNCHANGED <<vars, cliVars, guardVars, readerVars, repairVars>>
     \/ On("cli") /\ CliNext
        /\ UNCHANGED <<vars, lifecycleVars, guardVars, readerVars, repairVars>>
     \/ On("tenant") /\ GuardNext
        /\ UNCHANGED <<vars, lifecycleVars, cliVars, readerVars, repairVars>>
     \/ On("audit") /\ ReaderNext
        /\ UNCHANGED <<vars, lifecycleVars, cliVars, guardVars, repairVars>>
     \/ On("contracts") /\ Attempt
        /\ UNCHANGED <<vars, lifecycleVars, cliVars, guardVars, readerVars>>

\* A limiter without a job asks nothing of fairness.
PartSpec ==
  /\ MCInit /\ [][MCNext]_allVars
  /\ LimiterFairness
  /\ On("cli") => CliFairness
=============================================================================
