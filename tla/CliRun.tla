------------------------------- MODULE CliRun -------------------------------
(***************************************************************************)
(* `liku run' (src/cli.ts): one process, one run of the orchestrator, the  *)
(* LLM calls its steps make (generate of src/liku/llm/openai.ts), and the  *)
(* signals of the user.  Of the orchestrator only AbstractRun is assumed.  *)
(*                                                                         *)
(* The first signal aborts: each call whose listener is registered is cut  *)
(* off.  A call that begins after the abort registers a listener on a      *)
(* signal that has already fired, and never hears of it.  The timer of a   *)
(* call is cleared when the headers arrive.                                *)
(***************************************************************************)
EXTENDS Naturals

CONSTANTS
  CliSteps,    \* steps of the run
  MaxSignals   \* bound on signals

ASSUME CliAssumption == MaxSignals \in Nat

VARIABLES
  process,   \* "init" (engine.init), "running", "exited"
  exitCode,  \* 99 until the process exits
  signals,   \* SIGINT and SIGTERM handled so far; cancelled once there was one
  generate,  \* how far the LLM call of each step is
  deaf,      \* calls that began after the abort (history)
  launched, ended, reported, result  \* the run

cliVars == <<process, exitCode, signals, generate, deaf, launched, ended, reported, result>>

runOfCli == <<launched, ended, reported, result>>

Run == INSTANCE AbstractRun WITH RunSteps <- CliSteps

cancelled == signals > 0
Running   == process = "running"

CliInit ==
  /\ process = "init" /\ exitCode = 99 /\ signals = 0
  /\ generate = [s \in CliSteps |-> "idle"] /\ deaf = {}
  /\ Run!RunInit

\* Mutated form of resultToExitCode: the cancellation is not looked at.
resultToExitCodeOfKind(kind, cancel) ==
  [ok |-> 0, partial |-> 10, escalation |-> 20, error |-> 30][kind]

resultToExitCode(kind, cancel) ==
  IF cancel THEN 40 ELSE [ok |-> 0, partial |-> 10, escalation |-> 20, error |-> 30][kind]

Exit(code) == process' = "exited" /\ exitCode' = code

InitDone ==
  /\ process = "init" /\ process' = "running"
  /\ UNCHANGED <<exitCode, signals, generate, deaf, runOfCli>>

\* engine.init throws: the catch clause does not look whether it was cancelled.
InitThrows ==
  /\ process = "init" /\ Exit(30)
  /\ UNCHANGED <<signals, generate, deaf, runOfCli>>

BeginStep(s) ==
  /\ Running /\ Run!Launch(s)
  /\ UNCHANGED <<process, exitCode, signals, generate, deaf>>

\* A step ends without an LLM call: late, agent error, escalation, bundle only.
EndWithoutCall(s) ==
  /\ Running /\ generate[s] = "idle" /\ Run!End(s)
  /\ UNCHANGED <<process, exitCode, signals, generate, deaf>>

\* generate up to its fetch: listener and timer are set.
Connect(s) ==
  /\ Running /\ generate[s] = "idle" /\ s \in launched \ ended
  /\ generate' = [generate EXCEPT ![s] = "connecting"]
  /\ deaf' = IF cancelled THEN deaf \union {s} ELSE deaf
  /\ UNCHANGED <<process, exitCode, signals, runOfCli>>

\* The headers arrive: the timer is cleared, and the body, which after an error
\* status only gives the message, is awaited.
Headers(s) ==
  /\ Running /\ generate[s] = "connecting"
  /\ generate' = [generate EXCEPT ![s] = "reading"]
  /\ UNCHANGED <<process, exitCode, signals, deaf, runOfCli>>

\* The timer fires: controller.abort.
TimerFires(s) ==
  /\ Running /\ generate[s] = "connecting"
  /\ generate' = [generate EXCEPT ![s] = "cutOff"]
  /\ UNCHANGED <<process, exitCode, signals, deaf, runOfCli>>

\* fetch rejects, or the body has been read or cannot be; generate returns or
\* throws, and the step is over.
CallEnds(s) ==
  /\ Running /\ generate[s] \in {"connecting", "reading", "cutOff"}
  /\ Run!End(s)
  /\ generate' = [generate EXCEPT ![s] = "done"]
  /\ UNCHANGED <<process, exitCode, signals, deaf>>

\* The run resolves: output and process.exit follow without an await.
RunEnds ==
  /\ Running
  /\ \E kind \in Run!ResultKinds \ {"partial"} :   \* abortOnError is set
       Run!Return(kind) /\ Exit(resultToExitCode(kind, cancelled))
  /\ UNCHANGED <<signals, generate, deaf>>

\* Mutated form of FirstSignal: the abort is forgotten.
FirstSignalOnly ==
  /\ process # "exited" /\ signals = 0 /\ MaxSignals > 0
  /\ signals' = 1
  /\ UNCHANGED <<process, exitCode, generate, deaf, runOfCli>>

\* handleSignal, first: abort, which every listening call hears at once.
FirstSignal ==
  /\ process # "exited" /\ signals = 0 /\ MaxSignals > 0
  /\ signals' = 1
  /\ generate' = [s \in CliSteps |->
                    IF generate[s] \in {"connecting", "reading"} THEN "cutOff" ELSE generate[s]]
  /\ UNCHANGED <<process, exitCode, deaf, runOfCli>>

\* handleSignal, second.
SecondSignal ==
  /\ process # "exited" /\ cancelled /\ signals < MaxSignals
  /\ signals' = signals + 1
  /\ Exit(40)
  /\ UNCHANGED <<generate, deaf, runOfCli>>

StepGoesOn(s) == EndWithoutCall(s) \/ Connect(s)
CallCutOff(s) == generate[s] = "cutOff" /\ CallEnds(s)

CliNext ==
  \/ InitDone \/ InitThrows \/ RunEnds \/ FirstSignal \/ SecondSignal
  \/ \E s \in CliSteps : BeginStep(s) \/ EndWithoutCall(s) \/ Connect(s)
                         \/ Headers(s) \/ TimerFires(s) \/ CallEnds(s)

CliSpec == CliInit /\ [][CliNext]_cliVars

\* Engine and orchestrator go on, timers fire, and an abort is delivered.  The
\* provider need not answer, and the user need not send a signal.
CliFairness ==
  /\ WF_cliVars(InitDone \/ InitThrows)
  /\ WF_cliVars(RunEnds \/ \E s \in CliSteps : BeginStep(s))
  /\ \A s \in CliSteps : WF_cliVars(StepGoesOn(s)) /\ WF_cliVars(TimerFires(s))
                         /\ WF_cliVars(CallCutOff(s))

----------------------------------------------------------------------------
\* What an exit code claims is so, however signals, calls and the end of the run
\* interleave: 40 that someone cancelled, 0 and 20 that nobody did and the run
\* resolved to "ok" or "escalation".  A cancelled run that resolves exits with 40,
\* and unless the user forced the exit no step was cut short by it.  Of 30 after a
\* signal nothing is claimed: see CancelledExitsCancelled.
ExitCodeIsTrue ==
  process = "exited" =>
    /\ exitCode = 40 => cancelled
    /\ cancelled /\ result # "none" => exitCode = 40
    /\ exitCode = 0 => ~cancelled /\ result = "ok"
    /\ exitCode = 20 => ~cancelled /\ result = "escalation"
    /\ signals < 2 => ended = launched /\ reported = launched

\* ExitCode.CANCELLED: "Cancelled by user (SIGINT/SIGTERM)".
CancelledExitsCancelled == process = "exited" /\ cancelled => exitCode = 40

\* One signal is enough: a run that is cancelled exits, even if the provider
\* never answers.  The exception is a call that began after the abort: it does
\* not hear of it, and once its headers are there nothing bounds it.
CancelledRunExits ==
  cancelled ~> process = "exited" \/ \E s \in deaf : generate[s] = "reading"
=============================================================================
