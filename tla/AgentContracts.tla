--------------------------- MODULE AgentContracts ---------------------------
(***************************************************************************)
(* src/liku/orchestrator/contracts.ts: what each role must hand over, and  *)
(* what follows a violation.  No code calls it: Attempt is the loop around *)
(* one agent that its header comment describes.  Outputs on which parse    *)
(* itself throws are left out.                                             *)
(*                                                                         *)
(* An output is of a shape, has the bundleOnly flag or not, and carries    *)
(* some of the fields that the contracts ask for with the right type.      *)
(***************************************************************************)
EXTENDS Naturals, Sequences

CONSTANT AgentRoles  \* subset of the roles, "verifier" and "specialist" included

\* The fields a contract asks for, in the order in which it looks at them; those it
\* looks at together are one set.  "stepIds" is id and agentResidence of all steps.
Asked(role) ==
  CASE role = "supervisor" -> <<{"analysis", "routing"}>>
    [] role = "parser"     -> <<{"normalizedTask"}>>
    [] role = "planner"    -> <<{"goalSummary"}, {"steps"}, {"stepIds"}>>
    [] OTHER               -> <<>>

Fields == {"analysis", "routing", "normalizedTask", "goalSummary", "steps", "stepIds"}

\* Arrays are objects; an object without steps has no ids of steps to be wrong.
Outputs ==
  [shape : {"nothing", "text"}, bundleOnly : {FALSE}, fields : {{}}]
    \union {o \in [shape : {"object"}, bundleOnly : BOOLEAN, fields : SUBSET Fields] :
              "stepIds" \in o.fields => "steps" \in o.fields}

getContract(role) == role \in {"supervisor", "parser", "planner", "synthesizer"}

\* Mutated form of NamedFields: the feedback names only the first field.
NamedFirst(role) ==
  CASE role = "supervisor" -> {"analysis"} [] role = "parser" -> {"normalizedTask"}
    [] role = "planner" -> {"goalSummary"} [] OTHER -> {}

\* What the feedback on an output that is no object names.
NamedFields(role) ==
  CASE role = "supervisor" -> {"analysis", "routing"} [] role = "parser" -> {"normalizedTask"}
    [] role = "planner" -> {"goalSummary", "steps"} [] OTHER -> {}

Accept == [valid |-> TRUE, feedback |-> {}]
Violation(fields) == [valid |-> FALSE, feedback |-> fields]

\* parse of each contract, and validateAgentOutput: whether the output is valid,
\* or else the fields that the feedback names.
validateAgentOutput(role, output) ==
  LET missing == {i \in DOMAIN Asked(role) : ~(Asked(role)[i] \subseteq output.fields)}
      first == CHOOSE i \in missing : \A j \in missing : i <= j
  IN IF ~getContract(role) \/ (role = "synthesizer" /\ output.shape = "text") THEN Accept
     ELSE IF output.shape # "object" THEN Violation(NamedFields(role))
     ELSE IF output.bundleOnly \/ missing = {} THEN Accept
     ELSE Violation(Asked(role)[first])

\* onViolation of each contract, maxRetries being 1, and getViolationAction.
getViolationAction(role, retryCount) ==
  CASE ~getContract(role) -> "error"
    [] getContract(role) /\ retryCount < 1 -> "retry"
    [] role = "synthesizer" /\ retryCount >= 1 -> "error"
    [] OTHER -> "escalate_verifier"

----------------------------------------------------------------------------
VARIABLES
  agentRole,
  diligent,  \* whether the agent repairs exactly what feedback names
  output,    \* its last output
  feedback,  \* fields named by the last feedback
  retries,
  repair     \* "asked", "accepted", "escalate_verifier" or "error"

repairVars == <<agentRole, diligent, output, feedback, retries, repair>>

RepairInit ==
  /\ agentRole \in AgentRoles /\ diligent \in BOOLEAN
  /\ output = [shape |-> "nothing", bundleOnly |-> FALSE, fields |-> {}]
  /\ feedback = {} /\ retries = 0 /\ repair = "asked"

\* The output is validated, and a violation leads to the action of its role.
Judge(o) ==
  LET verdict == validateAgentOutput(agentRole, o)
      again == ~verdict.valid /\ getViolationAction(agentRole, retries) = "retry"
  IN /\ output' = o /\ feedback' = verdict.feedback
     /\ retries' = IF again THEN retries + 1 ELSE retries
     /\ repair' = IF verdict.valid THEN "accepted" ELSE IF again THEN "asked"
                  ELSE getViolationAction(agentRole, retries)
     /\ UNCHANGED <<agentRole, diligent>>

\* The agent answers: first anything, later what it was told to correct, or if it
\* is not diligent anything again.
Attempt ==
  /\ repair = "asked"
  /\ \E o \in Outputs :
       /\ diligent /\ retries > 0 =>
            o = [output EXCEPT !.shape = "object", !.fields = @ \union feedback]
       /\ Judge(o)

RepairSpec == RepairInit /\ [][Attempt]_repairVars

----------------------------------------------------------------------------
\* What is accepted has everything the contract asks for, whichever check looked
\* first; nothing is given up before its second violation; and one retry is enough
\* for an agent that corrects what it is told, unless it is a planner, whose
\* contract names one fault at a time.
OneRetryRepairs ==
  /\ repair = "accepted" /\ output.shape = "object" /\ ~output.bundleOnly
       => \A i \in DOMAIN Asked(agentRole) : Asked(agentRole)[i] \subseteq output.fields
  /\ repair \in {"escalate_verifier", "error"} =>
       /\ retries = 1 /\ ~validateAgentOutput(agentRole, output).valid
       /\ diligent => agentRole = "planner"
=============================================================================
