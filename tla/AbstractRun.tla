----------------------------- MODULE AbstractRun -----------------------------
(***************************************************************************)
(* What a caller of Orchestrator.run may rely on (src/liku/orchestrator/   *)
(* orchestrator.ts): steps begin and end, and when the promise resolves,   *)
(* once, every step that began has ended and is in the result.  After that *)
(* nothing of the run moves any more.                                      *)
(***************************************************************************)
CONSTANT RunSteps  \* everything a run may execute, its own agents included

VARIABLES
  launched,  \* steps that have begun
  ended,     \* steps that have ended
  reported,  \* steps in the result
  result     \* kind of the result, "none" until the promise resolves

ResultKinds == {"ok", "partial", "escalation", "error"}

runVars == <<launched, ended, reported, result>>

RunInit == launched = {} /\ ended = {} /\ reported = {} /\ result = "none"

Launch(s) ==
  /\ result = "none" /\ s \in RunSteps \ launched
  /\ launched' = launched \union {s}
  /\ UNCHANGED <<ended, reported, result>>

End(s) ==
  /\ s \in launched \ ended
  /\ ended' = ended \union {s}
  /\ UNCHANGED <<launched, reported, result>>

Return(kind) ==
  /\ result = "none" /\ ended = launched
  /\ result' = kind /\ reported' = launched
  /\ UNCHANGED <<launched, ended>>

RunNext ==
  \/ \E s \in RunSteps : Launch(s) \/ End(s)
  \/ \E kind \in ResultKinds : Return(kind)

RunSpec == RunInit /\ [][RunNext]_runVars

\* What run implements as long as the calls of its steps end.
RunPromise == RunSpec /\ <>(result # "none")
=============================================================================
