------------------------------ MODULE PartProofs ------------------------------
(***************************************************************************)
(* The parts that run beside the servers, each by itself: the exit code of *)
(* `liku run', the concurrency limit of a tenant, the retry loop of the    *)
(* agent contracts, what the cache of a vault client may answer, what the  *)
(* pages of the audit log hold, and what the plan validator accepts.       *)
(***************************************************************************)
EXTENDS CliRun, TenantConcurrency, AgentContracts, VaultClient, AuditReader,
        PlanValidator, FiniteSetTheorems, WellFoundedInduction, TLAPS

-----------------------------------------------------------------------------
(* CliRun: for any set of steps and any number of signals.                 *)

\* Until the process exits nothing is decided, and there was at most one signal;
\* before the run begins nothing of it has happened.
Undecided == exitCode = 99 /\ result = "none" /\ reported = {} /\ signals < 2

CliInv ==
  /\ process \in {"init", "running", "exited"}
  /\ signals \in Nat
  /\ process # "exited" => Undecided
  /\ process = "init" => launched = {} /\ ended = {}
  /\ ExitCodeIsTrue

LEMMA CliInitHolds == CliInit => CliInv
BY DEF CliInit, CliInv, Undecided, ExitCodeIsTrue, Run!RunInit

\* The run goes on, and the process neither exits nor hears a signal.
LEMMA RunMoves ==
  ASSUME CliInv, UNCHANGED <<exitCode, signals, reported, result>>, process # "exited",
         process' = "running"
  PROVE  CliInv'
BY DEF CliInv, Undecided, ExitCodeIsTrue

LEMMA CliStepHolds == CliInv /\ [CliNext]_cliVars => CliInv'
<1> SUFFICES ASSUME CliInv, [CliNext]_cliVars PROVE CliInv'
  OBVIOUS
<1>1. CASE InitDone
  BY <1>1, RunMoves DEF InitDone, runOfCli
<1>2. CASE InitThrows
  <2>1. /\ process' = "exited" /\ exitCode' = 30 /\ process = "init"
        /\ UNCHANGED <<signals, launched, ended, reported, result>>
    BY <1>2 DEF InitThrows, Exit, runOfCli
  <2>2. /\ result' = "none" /\ signals' \in Nat /\ ~(signals' > 1)
        /\ launched' = {} /\ ended' = {} /\ reported' = {}
    BY <2>1 DEF CliInv, Undecided
  <2>q. QED BY <2>1, <2>2 DEF CliInv, ExitCodeIsTrue
<1>3. CASE RunEnds
  <2>1. PICK kind \in {"ok", "escalation", "error"} :
          /\ ended = launched /\ result' = kind /\ reported' = launched
          /\ exitCode' = resultToExitCode(kind, cancelled) /\ process' = "exited"
          /\ UNCHANGED <<launched, ended, signals>> /\ process = "running"
    BY <1>3 DEF RunEnds, Exit, Run!Return, Run!ResultKinds, Running
  <2>2. signals \in Nat /\ signals < 2
    BY <2>1 DEF CliInv, Undecided
  <2>3. CASE cancelled
    <3>1. exitCode' = 40 /\ signals' > 0 /\ result' # "none"
      BY <2>1, <2>3 DEF resultToExitCode, cancelled
    <3>2. ExitCodeIsTrue'
      BY <2>1, <3>1 DEF ExitCodeIsTrue, cancelled
    <3>q. QED BY <2>1, <2>2, <3>2 DEF CliInv
  <2>4. CASE ~cancelled
    <3>1. /\ exitCode' = [ok |-> 0, partial |-> 10, escalation |-> 20, error |-> 30][kind]
          /\ ~(signals' > 0)
      BY <2>1, <2>4 DEF resultToExitCode, cancelled
    <3>2. \/ exitCode' = 0 /\ kind = "ok"
          \/ exitCode' = 20 /\ kind = "escalation"
          \/ exitCode' = 30
      BY <3>1
    <3>3. ExitCodeIsTrue'
      BY <2>1, <3>1, <3>2 DEF ExitCodeIsTrue, cancelled
    <3>q. QED BY <2>1, <2>2, <3>3 DEF CliInv
  <2>q. QED BY <2>3, <2>4
<1>4. CASE FirstSignal
  <2>1. /\ process # "exited" /\ signals' = 1
        /\ UNCHANGED <<process, exitCode, launched, ended, reported, result>>
    BY <1>4 DEF FirstSignal, runOfCli
  <2>q. QED BY <2>1 DEF CliInv, Undecided, ExitCodeIsTrue
<1>5. CASE SecondSignal
  <2>1. /\ process # "exited" /\ signals' = signals + 1 /\ signals > 0 /\ exitCode' = 40
        /\ process' = "exited" /\ result' = result /\ signals \in Nat
    BY <1>5 DEF SecondSignal, Exit, runOfCli, cancelled, CliInv
  <2>2. signals' > 1 /\ signals' > 0 /\ signals' \in Nat
    BY <2>1
  <2>3. ExitCodeIsTrue'
    BY <2>1, <2>2 DEF ExitCodeIsTrue, cancelled
  <2>q. QED BY <2>1, <2>2, <2>3 DEF CliInv
<1>6. ASSUME NEW s \in CliSteps,
             BeginStep(s) \/ EndWithoutCall(s) \/ Connect(s) \/ Headers(s) \/ TimerFires(s) \/ CallEnds(s)
      PROVE  CliInv'
  <2>1. Running /\ UNCHANGED <<process, exitCode, signals, reported, result>>
    BY <1>6 DEF BeginStep, EndWithoutCall, Connect, Headers, TimerFires, CallEnds,
                Run!Launch, Run!End, runOfCli
  <2>q. QED BY <2>1, RunMoves DEF Running
<1>7. CASE UNCHANGED cliVars
  BY <1>7 DEF cliVars, CliInv, Undecided, ExitCodeIsTrue, cancelled
<1>q. QED BY <1>1, <1>2, <1>3, <1>4, <1>5, <1>6, <1>7 DEF CliNext

\* The inductive invariant: nothing is decided before the process exits.
THEOREM CliInvariant == CliSpec => []CliInv
BY CliInitHolds, CliStepHolds, PTL DEF CliSpec

\* An exit code that names a success, an escalation or a cancellation is right, and a
\* cancelled run that resolves exits as cancelled (one that fails in init need not).
THEOREM ExitCodeTrue == CliSpec => []ExitCodeIsTrue
BY CliInvariant, PTL DEF CliInv

-----------------------------------------------------------------------------
(* TenantConcurrency: for any number of requests and any limits.           *)

Stages == {"new", "admitted", "refused", "running", "done"}

GuardTypeOK ==
  /\ window = [requests |-> window.requests, runningTasks |-> window.runningTasks]
  /\ window.runningTasks \in Nat
  /\ task \in [TaskRequests -> Stages]
  /\ crowd \in Nat
  /\ forgotten \in BOOLEAN

\* crowd is a bound on those that wait to be counted, and nobody waits under a
\* limit of zero.
CrowdIsBound == Uncounted <= crowd /\ (Uncounted > 0 => TaskLimit > 0)

GuardInv == GuardTypeOK /\ CrowdIsBound /\ ConcurrencyBounded

\* Moving one request between two stages changes what the two stages count by one.
LEMMA StageCounts ==
  ASSUME NEW f \in [TaskRequests -> Stages], NEW r \in TaskRequests, NEW to \in Stages,
         NEW stage \in Stages, f[r] # to
  PROVE  LET before == {q \in TaskRequests : f[q] = stage}
             after  == {q \in TaskRequests : [f EXCEPT ![r] = to][q] = stage}
         IN /\ Cardinality(before) \in Nat
            /\ Cardinality(after) = IF stage = to THEN Cardinality(before) + 1
                                    ELSE IF stage = f[r] THEN Cardinality(before) - 1
                                    ELSE Cardinality(before)
<1> DEFINE before == {q \in TaskRequests : f[q] = stage}
           after  == {q \in TaskRequests : [f EXCEPT ![r] = to][q] = stage}
<1>1. IsFiniteSet(before)
  BY ConcurrencyAssumption, FS_Subset
<1>2. Cardinality(before) \in Nat
  BY <1>1, FS_CardinalityType
<1>3. CASE stage = to
  <2>1. after = before \union {r} /\ r \notin before
    BY <1>3
  <2>q. QED BY <1>1, <1>2, <1>3, <2>1, FS_AddElement
<1>4. CASE stage # to /\ stage = f[r]
  <2>1. after = before \ {r} /\ r \in before
    BY <1>4
  <2>q. QED BY <1>1, <1>2, <1>4, <2>1, FS_RemoveElement, ZenonT(60)
<1>5. CASE stage # to /\ stage # f[r]
  <2>1. after = before
    BY <1>5
  <2>q. QED BY <1>2, <1>5, <2>1
<1>q. QED BY <1>3, <1>4, <1>5

\* The counts are natural numbers.
LEMMA CountsAreNat ==
  ASSUME GuardTypeOK
  PROVE  Counted \in Nat /\ Uncounted \in Nat
<1>1. IsFiniteSet(InStage("running")) /\ IsFiniteSet(InStage("admitted"))
  BY ConcurrencyAssumption, FS_Subset DEF InStage
<1>q. QED BY <1>1, FS_CardinalityType DEF Counted, Uncounted

\* A request that is in a stage is counted there.
LEMMA SomeoneThere ==
  ASSUME GuardTypeOK, NEW r \in TaskRequests
  PROVE  (task[r] = "running" => Counted > 0) /\ (task[r] = "admitted" => Uncounted > 0)
<1>1. ASSUME NEW stage, task[r] = stage PROVE Cardinality(InStage(stage)) > 0
  <2>1. IsFiniteSet(InStage(stage)) /\ r \in InStage(stage)
    BY <1>1, ConcurrencyAssumption, FS_Subset DEF InStage
  <2>2. Cardinality(InStage(stage)) \in Nat /\ Cardinality(InStage(stage)) # 0
    BY <2>1, FS_CardinalityType, FS_EmptySet
  <2>q. QED BY <2>2
<1>q. QED BY <1>1 DEF Counted, Uncounted

\* StageCounts for the two counts of the middleware.
LEMMA Moved ==
  ASSUME GuardTypeOK, NEW r \in TaskRequests, NEW to \in Stages, task[r] # to,
         task' = [task EXCEPT ![r] = to]
  PROVE  /\ Counted' = IF to = "running" THEN Counted + 1
                       ELSE IF task[r] = "running" THEN Counted - 1 ELSE Counted
         /\ Uncounted' = IF to = "admitted" THEN Uncounted + 1
                         ELSE IF task[r] = "admitted" THEN Uncounted - 1 ELSE Uncounted
         /\ task' \in [TaskRequests -> Stages]
<1>1. /\ Counted = Cardinality({q \in TaskRequests : task[q] = "running"})
      /\ Counted' = Cardinality({q \in TaskRequests : [task EXCEPT ![r] = to][q] = "running"})
      /\ Uncounted = Cardinality({q \in TaskRequests : task[q] = "admitted"})
      /\ Uncounted' = Cardinality({q \in TaskRequests : [task EXCEPT ![r] = to][q] = "admitted"})
  BY DEF Counted, Uncounted, InStage
<1>2. task \in [TaskRequests -> Stages] /\ "running" \in Stages /\ "admitted" \in Stages
  BY DEF GuardTypeOK, Stages
<1>3. Counted' = IF "running" = to THEN Counted + 1
                 ELSE IF "running" = task[r] THEN Counted - 1 ELSE Counted
  BY <1>1, <1>2, StageCounts
<1>4. Uncounted' = IF "admitted" = to THEN Uncounted + 1
                   ELSE IF "admitted" = task[r] THEN Uncounted - 1 ELSE Uncounted
  BY <1>1, <1>2, StageCounts
<1>q. QED BY <1>2, <1>3, <1>4

\* A window keeps its shape, and its count of running tasks in checkLimit.
LEMMA CheckLimitKeepsCount ==
  ASSUME GuardTypeOK
  PROVE  LET answer == CheckLimit(window, RequestLimit, TaskLimit, guardNow)
             w == answer.window
         IN /\ w = [requests |-> w.requests, runningTasks |-> window.runningTasks]
            /\ answer.verdict = "allowed" => window.runningTasks < TaskLimit
<1> DEFINE answer == CheckLimit(window, RequestLimit, TaskLimit, guardNow)
           c == Cleaned(window, guardNow)
<1>1. c = [requests |-> c.requests, runningTasks |-> window.runningTasks]
  BY DEF GuardTypeOK, Cleaned
<1>2. \/ answer.verdict = "rate_limit" /\ answer.window = c
      \/ answer.verdict = "concurrent_limit" /\ answer.window = c
      \/ /\ answer.verdict = "allowed" /\ ~(c.runningTasks >= TaskLimit)
         /\ answer.window = [c EXCEPT !.requests = Append(@, guardNow)]
  BY DEF CheckLimit
<1>3. c.runningTasks = window.runningTasks
  BY <1>1
<1>4. answer.verdict = "allowed" => window.runningTasks < TaskLimit
  BY <1>2, <1>3, ConcurrencyAssumption DEF GuardTypeOK
<1>5. answer.window = [requests |-> answer.window.requests, runningTasks |-> window.runningTasks]
  BY <1>1, <1>2
<1>q. QED BY <1>4, <1>5

-----------------------------------------------------------------------------
LEMMA GuardInitHolds == GuardInit => GuardInv
<1> SUFFICES ASSUME GuardInit PROVE GuardInv
  OBVIOUS
<1>1. InStage("running") = {} /\ InStage("admitted") = {}
  BY DEF GuardInit, InStage
<1>2. Counted = 0 /\ Uncounted = 0
  BY <1>1, FS_EmptySet DEF Counted, Uncounted
<1>3. /\ window.runningTasks = 0
      /\ window = [requests |-> window.requests, runningTasks |-> window.runningTasks]
  BY DEF GuardInit, NewWindow
<1>4. /\ task \in [TaskRequests -> Stages] /\ crowd = 0 /\ crowd \in Nat
      /\ forgotten \in BOOLEAN
  BY DEF GuardInit, Stages
<1>5. GuardTypeOK
  BY <1>3, <1>4 DEF GuardTypeOK
<1>6. CrowdIsBound /\ ConcurrencyBounded
  BY <1>2, <1>3, <1>4 DEF CrowdIsBound, ConcurrencyBounded
<1>q. QED BY <1>5, <1>6 DEF GuardInv

LEMMA GuardStepHolds == GuardInv /\ [GuardNext]_guardVars => GuardInv'
<1> SUFFICES ASSUME GuardInv, [GuardNext]_guardVars PROVE GuardInv'
  OBVIOUS
<1> USE ConcurrencyAssumption
<1>0. /\ Counted \in Nat /\ Uncounted \in Nat /\ window.runningTasks \in Nat /\ crowd \in Nat
      /\ GuardTypeOK /\ CrowdIsBound /\ ConcurrencyBounded
  BY CountsAreNat DEF GuardInv, GuardTypeOK
<1>1. ASSUME NEW r \in TaskRequests, CheckRequest(r) PROVE GuardInv'
  <2> DEFINE answer == CheckLimit(window, RequestLimit, TaskLimit, guardNow)
  <2>1. /\ task[r] = "new" /\ window' = answer.window /\ forgotten' = forgotten
        /\ window'.runningTasks = window.runningTasks
        /\ window' = [requests |-> window'.requests, runningTasks |-> window'.runningTasks]
    BY <1>0, <1>1, CheckLimitKeepsCount DEF CheckRequest
  <2>2. CASE answer.verdict = "allowed"
    <3>1. task' = [task EXCEPT ![r] = "admitted"] /\ "admitted" \in Stages
          /\ crowd' = IF Uncounted + 1 > crowd THEN Uncounted + 1 ELSE crowd
      BY <1>1, <2>2 DEF CheckRequest, Stages
    <3>2. Counted' = Counted /\ Uncounted' = Uncounted + 1 /\ task' \in [TaskRequests -> Stages]
      BY <1>0, <2>1, <3>1, Moved
    <3>3. window.runningTasks < TaskLimit
      BY <1>0, <2>2, CheckLimitKeepsCount
    <3>4. CrowdIsBound' /\ ConcurrencyBounded'
      BY <1>0, <2>1, <3>1, <3>2, <3>3 DEF CrowdIsBound, ConcurrencyBounded
    <3>q. QED BY <1>0, <2>1, <3>1, <3>2, <3>4 DEF GuardInv, GuardTypeOK
  <2>3. CASE answer.verdict # "allowed"
    <3>1. task' = [task EXCEPT ![r] = "refused"] /\ "refused" \in Stages /\ crowd' = crowd
      BY <1>1, <2>3 DEF CheckRequest, Stages
    <3>2. Counted' = Counted /\ Uncounted' = Uncounted /\ task' \in [TaskRequests -> Stages]
      BY <1>0, <2>1, <3>1, Moved
    <3>q. QED
      BY <1>0, <2>1, <3>1, <3>2 DEF GuardInv, GuardTypeOK, CrowdIsBound, ConcurrencyBounded
  <2>q. QED BY <2>2, <2>3
<1>2. ASSUME NEW r \in TaskRequests, DropRequest(r) PROVE GuardInv'
  <2>1. /\ task[r] = "admitted" /\ task' = [task EXCEPT ![r] = "refused"] /\ "refused" \in Stages
        /\ window' = window /\ crowd' = crowd /\ forgotten' = forgotten
    BY <1>2 DEF DropRequest, Stages
  <2>2. Counted' = Counted /\ Uncounted' = Uncounted - 1 /\ task' \in [TaskRequests -> Stages]
    BY <1>0, <2>1, Moved
  <2>3. Uncounted' \in Nat
    BY <1>0, <2>1, <2>2, SomeoneThere
  <2>q. QED
    BY <1>0, <2>1, <2>2, <2>3 DEF GuardInv, GuardTypeOK, CrowdIsBound, ConcurrencyBounded
<1>3. ASSUME NEW r \in TaskRequests, CountTask(r) PROVE GuardInv'
  <2>1. /\ task[r] = "admitted" /\ task' = [task EXCEPT ![r] = "running"] /\ "running" \in Stages
        /\ window' = [window EXCEPT !.runningTasks = @ + 1]
        /\ crowd' = crowd /\ forgotten' = forgotten
    BY <1>3 DEF CountTask, Stages
  <2>2. /\ Counted' = Counted + 1 /\ Uncounted' = Uncounted - 1
        /\ task' \in [TaskRequests -> Stages]
    BY <1>0, <2>1, Moved
  <2>3. Uncounted > 0 /\ TaskLimit > 0
    BY <1>0, <2>1, SomeoneThere DEF CrowdIsBound
  <2>4. /\ window'.runningTasks = window.runningTasks + 1
        /\ window' = [requests |-> window'.requests, runningTasks |-> window'.runningTasks]
    BY <1>0, <2>1 DEF GuardTypeOK
  <2>5. CrowdIsBound' /\ ConcurrencyBounded'
    BY <1>0, <2>1, <2>2, <2>3, <2>4 DEF CrowdIsBound, ConcurrencyBounded
  <2>q. QED BY <1>0, <2>1, <2>2, <2>4, <2>5 DEF GuardInv, GuardTypeOK
<1>4. ASSUME NEW r \in TaskRequests, FinishTask(r) PROVE GuardInv'
  <2>1. /\ task[r] = "running" /\ task' = [task EXCEPT ![r] = "done"] /\ "done" \in Stages
        /\ window' = [window EXCEPT !.runningTasks = IF @ = 0 THEN 0 ELSE @ - 1]
        /\ crowd' = crowd /\ forgotten' = forgotten
    BY <1>4 DEF FinishTask, Stages
  <2>2. /\ Counted' = Counted - 1 /\ Uncounted' = Uncounted
        /\ task' \in [TaskRequests -> Stages]
    BY <1>0, <2>1, Moved
  <2>3. Counted > 0
    BY <1>0, <2>1, SomeoneThere
  <2>4. /\ window'.runningTasks = IF window.runningTasks = 0 THEN 0 ELSE window.runningTasks - 1
        /\ window' = [requests |-> window'.requests, runningTasks |-> window'.runningTasks]
    BY <1>0, <2>1 DEF GuardTypeOK
  <2>5. CrowdIsBound' /\ ConcurrencyBounded'
    BY <1>0, <2>1, <2>2, <2>3, <2>4 DEF CrowdIsBound, ConcurrencyBounded
  <2>q. QED BY <1>0, <2>1, <2>2, <2>4, <2>5 DEF GuardInv, GuardTypeOK
<1>5. CASE ResetTenant
  <2>1. /\ window'.runningTasks = 0 /\ forgotten' = (forgotten \/ Counted > 0)
        /\ window' = [requests |-> window'.requests, runningTasks |-> window'.runningTasks]
        /\ task' = task /\ crowd' = crowd
    BY <1>5 DEF ResetTenant, NewWindow
  <2>2. Counted' = Counted /\ Uncounted' = Uncounted
    BY <2>1 DEF Counted, Uncounted, InStage
  <2>3. CASE Counted > 0
    <3>1. forgotten' = TRUE
      BY <2>1, <2>3
    <3>2. GuardTypeOK' /\ CrowdIsBound'
      BY <1>0, <2>1, <2>2, <3>1 DEF GuardTypeOK, CrowdIsBound
    <3>3. ConcurrencyBounded'
      BY <1>0, <2>1, <2>2, <2>3, <3>1 DEF ConcurrencyBounded
    <3>q. QED BY <3>2, <3>3 DEF GuardInv
  <2>4. CASE ~(Counted > 0)
    <3>1. Counted' = 0
      BY <1>0, <2>2, <2>4
    <3>2. forgotten' \in BOOLEAN
      BY <2>1
    <3>3. GuardTypeOK' /\ CrowdIsBound'
      BY <1>0, <2>1, <2>2, <3>2 DEF GuardTypeOK, CrowdIsBound
    <3>4. ConcurrencyBounded'
      BY <2>1, <3>1 DEF ConcurrencyBounded
    <3>q. QED BY <3>3, <3>4 DEF GuardInv
  <2>q. QED BY <2>3, <2>4
<1>6. CASE GuardTick \/ UNCHANGED guardVars
  <2>1. window' = window /\ task' = task /\ crowd' = crowd /\ forgotten' = forgotten
    BY <1>6 DEF GuardTick, guardVars
  <2>2. Counted' = Counted /\ Uncounted' = Uncounted
    BY <2>1 DEF Counted, Uncounted, InStage
  <2>q. QED
    BY <1>0, <2>1, <2>2 DEF GuardInv, GuardTypeOK, CrowdIsBound, ConcurrencyBounded
<1>q. QED BY <1>1, <1>2, <1>3, <1>4, <1>5, <1>6 DEF GuardNext

\* The inductive invariant: what ConcurrencyBounded says, together with the types
\* and with crowd bounding the requests between the two middlewares.
THEOREM GuardInvariant == GuardSpec => []GuardInv
BY GuardInitHolds, GuardStepHolds, PTL DEF GuardSpec

\* createConcurrentTaskMiddleware counts exactly unless a reset forgets tasks,
\* and a tenant exceeds its maxConcurrentTasks by at most the requests that
\* waited together between checkLimit and the count, less one.
THEOREM TenantConcurrencyBounded == GuardSpec => []ConcurrencyBounded
BY GuardInvariant, PTL DEF GuardInv

-----------------------------------------------------------------------------
(* AgentContracts: for any roles, whatever the agent hands over.            *)

LEMMA AskedCases ==
  /\ Asked("supervisor") = <<{"analysis", "routing"}>>
  /\ Asked("parser") = <<{"normalizedTask"}>>
  /\ Asked("planner") = <<{"goalSummary"}, {"steps"}, {"stepIds"}>>
  /\ \A role : role \notin {"supervisor", "parser", "planner"} => Asked(role) = <<>>
BY DEF Asked

\* An output is accepted when nothing the contract asks for is missing; unless it is
\* exempt, it is not accepted otherwise.
LEMMA AcceptedIsComplete ==
  ASSUME NEW role, NEW o \in Outputs, validateAgentOutput(role, o).valid,
         o.shape = "object", ~o.bundleOnly
  PROVE  \A i \in DOMAIN Asked(role) : Asked(role)[i] \subseteq o.fields
<1>1. CASE ~getContract(role)
  BY <1>1, AskedCases DEF getContract
<1>2. CASE getContract(role)
  BY <1>2 DEF validateAgentOutput, Violation
<1> QED
  BY <1>1, <1>2

LEMMA CompleteIsAccepted ==
  ASSUME NEW role, NEW o, o.shape = "object",
         \A i \in DOMAIN Asked(role) : Asked(role)[i] \subseteq o.fields
  PROVE  validateAgentOutput(role, o).valid
<1>1. {i \in DOMAIN Asked(role) : ~(Asked(role)[i] \subseteq o.fields)} = {}
  OBVIOUS
<1> QED
  BY <1>1 DEF validateAgentOutput, Accept

\* The supervisor and the parser are asked for one set of fields, and any feedback
\* names all of it.
LEMMA FeedbackNamesAll ==
  ASSUME NEW role \in {"supervisor", "parser"}, NEW o \in Outputs,
         ~validateAgentOutput(role, o).valid
  PROVE  /\ validateAgentOutput(role, o).feedback = Asked(role)[1]
         /\ DOMAIN Asked(role) = {1}
<1>1. DOMAIN Asked(role) = {1} /\ Asked(role)[1] = NamedFields(role)
  <2>1. role = "supervisor" \/ role = "parser"
    OBVIOUS
  <2>2. \A x : DOMAIN <<x>> = {1} /\ <<x>>[1] = x
    OBVIOUS
  <2>3. Asked(role) = <<NamedFields(role)>>
    BY <2>1, AskedCases DEF NamedFields
  <2> QED
    BY <2>2, <2>3
<1>2. CASE o.shape # "object"
  BY <1>1, <1>2 DEF validateAgentOutput, Violation, Accept, getContract
<1>3. CASE o.shape = "object"
  <2> DEFINE missing == {i \in DOMAIN Asked(role) : ~(Asked(role)[i] \subseteq o.fields)}
             first == CHOOSE i \in missing : \A j \in missing : i <= j
  <2>1. missing # {} /\ validateAgentOutput(role, o) = Violation(Asked(role)[first])
    BY <1>3 DEF validateAgentOutput, Accept, getContract
  <2>2. missing = {1}
    BY <1>1, <2>1
  <2>3. first = 1
    BY <2>2
  <2> QED
    BY <1>1, <2>1, <2>3 DEF Violation
<1> QED
  BY <1>1, <1>2, <1>3

\* What is asked for a second time was refused, with the feedback to correct it by.
RepairInv ==
  /\ retries \in {0, 1}
  /\ output \in Outputs
  /\ retries = 1 => getContract(agentRole)
  /\ repair = "asked" /\ retries = 1 =>
       LET checked == validateAgentOutput(agentRole, output)
       IN ~checked.valid /\ feedback = checked.feedback
  /\ OneRetryRepairs

\* A diligent agent but the planner repairs its output.
LEMMA DiligentRepairs ==
  ASSUME RepairInv, repair = "asked", retries = 1, agentRole # "planner", NEW o \in Outputs,
         o = [output EXCEPT !.shape = "object", !.fields = @ \union feedback]
  PROVE  validateAgentOutput(agentRole, o).valid
<1>1. o.shape = "object" /\ feedback \subseteq o.fields
  BY DEF RepairInv, Outputs
<1>2. CASE agentRole \in {"supervisor", "parser"}
  BY <1>1, <1>2, FeedbackNamesAll, CompleteIsAccepted DEF RepairInv
<1>3. CASE agentRole \notin {"supervisor", "parser"}
  <2>1. Asked(agentRole) = <<>>
    BY <1>3, AskedCases
  <2>2. \A i \in DOMAIN Asked(agentRole) : FALSE
    BY <2>1
  <2> QED
    BY <1>1, <2>2, CompleteIsAccepted
<1> QED
  BY <1>2, <1>3

\* contracts.ts: what is accepted is complete, nothing is given up before its second
\* violation, and an agent that corrects what feedback names needs one retry, unless
\* it is the planner.
THEOREM RetryRepairs == RepairSpec => []OneRetryRepairs
<1>1. RepairInit => RepairInv
  BY DEF RepairInit, RepairInv, OneRetryRepairs, Outputs
<1>2. ASSUME RepairInv, Attempt PROVE RepairInv'
  <2>1. PICK o \in Outputs :
          /\ diligent /\ retries > 0 =>
               o = [output EXCEPT !.shape = "object", !.fields = @ \union feedback]
          /\ Judge(o)
    BY <1>2 DEF Attempt
  <2>2. PICK checked : checked = validateAgentOutput(agentRole, o)
    OBVIOUS
  <2>3. /\ output' = o /\ feedback' = checked.feedback
        /\ UNCHANGED <<agentRole, diligent>> /\ repair = "asked"
    BY <1>2, <2>1, <2>2 DEF Judge, Attempt
  <2>4. CASE checked.valid
    <3>1. repair' = "accepted" /\ UNCHANGED retries
      BY <2>1, <2>2, <2>4 DEF Judge
    <3> QED
      BY <1>2, <2>2, <2>3, <2>4, <3>1, AcceptedIsComplete DEF RepairInv, OneRetryRepairs
  <2>5. CASE ~checked.valid
    <3>1. getContract(agentRole)
      BY <2>2, <2>5 DEF validateAgentOutput, Accept
    <3>2. CASE retries = 0
      <4>1. getViolationAction(agentRole, retries) = "retry"
        BY <3>1, <3>2 DEF getViolationAction
      <4>2. repair' = "asked" /\ retries' = 1
        BY <2>1, <2>2, <2>5, <3>2, <4>1 DEF Judge
      <4> QED
        BY <2>2, <2>3, <2>5, <3>1, <4>2 DEF RepairInv, OneRetryRepairs
    <3>3. CASE retries = 1
      <4>1. getViolationAction(agentRole, retries) \in {"error", "escalate_verifier"}
        BY <3>1, <3>3 DEF getViolationAction
      <4>2. repair' \in {"error", "escalate_verifier"} /\ retries' = 1
        BY <2>1, <2>2, <2>5, <3>3, <4>1 DEF Judge
      <4>3. diligent => agentRole = "planner"
        BY <1>2, <2>1, <2>2, <2>3, <2>5, <3>3, DiligentRepairs
      <4> QED
        BY <2>2, <2>3, <2>5, <3>1, <4>2, <4>3 DEF RepairInv, OneRetryRepairs
    <3> QED
      BY <1>2, <3>2, <3>3 DEF RepairInv
  <2> QED
    BY <2>4, <2>5
<1>3. ASSUME RepairInv, UNCHANGED repairVars PROVE RepairInv'
  BY <1>3 DEF RepairInv, OneRetryRepairs, repairVars
<1>4. RepairInv => OneRetryRepairs
  BY DEF RepairInv
<1> QED
  BY <1>1, <1>2, <1>3, <1>4, PTL DEF RepairSpec

-----------------------------------------------------------------------------
(* VaultClient: for any number of calls and versions, and any times.       *)

CallRecords ==
  [op : {"none", "get", "set", "delete"},
   stage : {"idle", "login", "sent", "answered", "done"},
   since : Nat, version : Nat, floor : Nat]

VaultTypeOK ==
  /\ vaultNow \in Nat
  /\ secret \in Seq(BOOLEAN) /\ replacedAt \in Seq(Nat)
  /\ Len(secret) = Len(replacedAt) + 1
  /\ cached \in [version : Nat, fetchedAt : Nat]
  /\ vcall \in [VaultCalls -> CallRecords]
  /\ settled \in Nat /\ settled <= Latest
  /\ got \in [version : Nat, floor : Nat]

Flight == IF Remote THEN FlightTime ELSE 0

\* A version that is no longer the secret was replaced at that time or later.
KeptUntil(version, time) == version < Latest => replacedAt[version] >= time

\* A call: its request travels no longer than Flight, and what it was answered with
\* was the secret when the request left; a reply that will fill the cache carries
\* nothing older than the newest settled write.
CallGood(k) ==
  /\ ~Remote => k.stage \in {"idle", "answered", "done"}
  /\ k.stage \in {"sent", "answered"} => k.since <= vaultNow /\ vaultNow <= k.since + Flight
  /\ k.stage \in {"login", "sent"} => k.version = 0
  /\ k.stage = "answered" => k.version <= Latest
  /\ k.stage = "answered" /\ k.version > 0 => KeptUntil(k.version, k.since)
  /\ k.stage = "answered" /\ k.op = "get" => k.version > 0 /\ k.version >= settled
  /\ k.floor <= settled

\* The cache entry: it was the secret at most Flight before it was cached.
EntryGood(e) ==
  e # NoEntry =>
    /\ e.version > 0 /\ e.version <= Latest /\ e.version >= settled
    /\ e.fetchedAt <= vaultNow
    /\ e.version < Latest => replacedAt[e.version] + Flight >= e.fetchedAt

VaultInv ==
  /\ VaultTypeOK
  /\ \A c \in VaultCalls : CallGood(vcall[c])
  /\ EntryGood(cached)
  /\ ReadNoStalerThanTtl
  /\ OwnWritesVisible

-----------------------------------------------------------------------------
\* Nothing that calls and cache entry rely on changes.
Still == UNCHANGED <<provider, vaultNow, secret, replacedAt, settled>>

\* The same, but the backend may take a write.
Grown == /\ UNCHANGED <<provider, vaultNow>>
         /\ (\E there \in BOOLEAN : Updated(there)) \/ UNCHANGED <<secret, replacedAt>>

\* What a write does to the sequence of versions.
LEMMA WrittenLemma ==
  ASSUME VaultTypeOK, Grown
  PROVE  /\ secret' \in Seq(BOOLEAN) /\ replacedAt' \in Seq(Nat)
         /\ Len(secret') = Len(replacedAt') + 1 /\ Latest <= Latest'
         /\ \A v \in 1..Latest, t \in Nat :
              KeptUntil(v, t) /\ t <= vaultNow => KeptUntil(v, t)'
         /\ vaultNow' = vaultNow /\ Flight' = Flight /\ (Remote <=> Remote')
<1>0. vaultNow' = vaultNow /\ Flight' = Flight /\ (Remote <=> Remote')
  BY DEF Grown, Flight, Remote
<1>1. CASE UNCHANGED <<secret, replacedAt>>
  BY <1>0, <1>1 DEF VaultTypeOK, Latest, KeptUntil
<1>2. ASSUME NEW there \in BOOLEAN, Updated(there)
      PROVE  /\ secret' \in Seq(BOOLEAN) /\ replacedAt' \in Seq(Nat)
             /\ Len(secret') = Len(replacedAt') + 1 /\ Latest <= Latest'
             /\ \A v \in 1..Latest, t \in Nat :
                  KeptUntil(v, t) /\ t <= vaultNow => KeptUntil(v, t)'
  <2>1. /\ secret' = Append(secret, there) /\ replacedAt' = Append(replacedAt, vaultNow)
        /\ secret \in Seq(BOOLEAN) /\ replacedAt \in Seq(Nat) /\ vaultNow \in Nat
        /\ Len(secret) = Len(replacedAt) + 1
    BY <1>2 DEF Updated, VaultTypeOK
  <2>2. /\ secret' \in Seq(BOOLEAN) /\ replacedAt' \in Seq(Nat)
        /\ Len(secret') = Len(secret) + 1 /\ Len(replacedAt') = Len(replacedAt) + 1
        /\ \A i \in 1..Len(replacedAt) : replacedAt'[i] = replacedAt[i]
        /\ replacedAt'[Len(replacedAt) + 1] = vaultNow
    BY <2>1
  <2>3. ASSUME NEW v \in 1..Latest, NEW t \in Nat, KeptUntil(v, t), t <= vaultNow
        PROVE  KeptUntil(v, t)'
    <3>1. CASE v = Latest
      BY <2>1, <2>2, <2>3, <3>1 DEF KeptUntil, Latest
    <3>2. CASE v # Latest
      BY <2>1, <2>2, <2>3, <3>2 DEF KeptUntil, Latest
    <3>q. QED BY <3>1, <3>2
  <2>q. QED BY <2>1, <2>2, <2>3 DEF Latest
<1>q. QED BY <1>0, <1>1, <1>2 DEF Grown

\* A good call stays good when the backend takes a write, as long as no write is
\* settled that is newer than what it carries.
LEMMA CallStaysGood ==
  ASSUME VaultTypeOK, Grown, NEW k \in CallRecords, CallGood(k),
         settled' \in Nat, settled <= settled',
         k.stage = "answered" /\ k.op = "get" => k.version >= settled'
  PROVE  CallGood(k)'
<1>1. /\ k.since \in Nat /\ k.version \in Nat /\ k.floor \in Nat
      /\ settled \in Nat /\ vaultNow \in Nat /\ Latest \in Nat /\ Latest' \in Nat
      /\ Latest <= Latest' /\ vaultNow' = vaultNow /\ Flight' = Flight /\ (Remote <=> Remote')
  BY WrittenLemma DEF CallRecords, VaultTypeOK, Latest
<1>2. k.stage = "answered" /\ k.version > 0 => KeptUntil(k.version, k.since)'
  <2> SUFFICES ASSUME k.stage = "answered", k.version > 0 PROVE KeptUntil(k.version, k.since)'
    OBVIOUS
  <2>1. k.version \in 1..Latest /\ KeptUntil(k.version, k.since) /\ k.since <= vaultNow
    BY <1>1 DEF CallGood
  <2>q. QED BY <1>1, <2>1, WrittenLemma
<1>q. QED BY <1>1, <1>2 DEF CallGood

\* The same of a cache entry.
LEMMA EntryStaysGood ==
  ASSUME VaultTypeOK, VaultAssumption, Grown, settled' = settled,
         NEW e \in [version : Nat, fetchedAt : Nat], EntryGood(e)
  PROVE  EntryGood(e)'
<1> SUFFICES ASSUME e # NoEntry PROVE EntryGood(e)'
  BY DEF EntryGood, NoEntry
<1>1. /\ e.version \in 1..Latest /\ e.version >= settled
      /\ e.fetchedAt \in Nat /\ e.fetchedAt <= vaultNow
      /\ e.version < Latest => replacedAt[e.version] + Flight >= e.fetchedAt
  BY DEF EntryGood, VaultTypeOK, Latest
<1>2. /\ vaultNow' = vaultNow /\ Flight' = Flight /\ Latest <= Latest' /\ Flight \in Nat
      /\ vaultNow \in Nat /\ Latest' \in Nat /\ Latest \in Nat /\ replacedAt \in Seq(Nat)
      /\ Len(replacedAt) = Latest - 1
  BY WrittenLemma, VaultAssumption DEF VaultTypeOK, Flight, Latest
<1>3. PICK t \in Nat : /\ t = IF e.fetchedAt >= Flight THEN e.fetchedAt - Flight ELSE 0
                       /\ t <= vaultNow /\ e.fetchedAt <= t + Flight
  BY <1>1, <1>2
<1>4. KeptUntil(e.version, t)
  <2>1. SUFFICES ASSUME e.version < Latest PROVE replacedAt[e.version] >= t
    BY DEF KeptUntil
  <2>2. e.version \in 1..Len(replacedAt)
    BY <1>1, <1>2, <2>1
  <2>3. replacedAt[e.version] \in Nat /\ replacedAt[e.version] + Flight >= e.fetchedAt
    BY <1>1, <1>2, <2>1, <2>2
  <2>q. QED BY <1>1, <1>2, <1>3, <2>3
<1>5. KeptUntil(e.version, t)'
  <2>1. \A v \in 1..Latest, time \in Nat :
          KeptUntil(v, time) /\ time <= vaultNow => KeptUntil(v, time)'
    BY WrittenLemma
  <2>q. QED BY <1>1, <1>3, <1>4, <2>1
<1>6. replacedAt' \in Seq(Nat) /\ Len(replacedAt') = Latest' - 1
  BY WrittenLemma, <1>2 DEF Latest
<1>7. ASSUME e.version < Latest' PROVE replacedAt'[e.version] + Flight >= e.fetchedAt
  <2>1. replacedAt'[e.version] >= t
    BY <1>5, <1>7 DEF KeptUntil
  <2>2. e.version \in 1..Len(replacedAt')
    BY <1>1, <1>2, <1>6, <1>7
  <2>3. replacedAt'[e.version] \in Nat
    BY <1>6, <2>2
  <2>q. QED BY <1>1, <1>2, <1>3, <2>1, <2>3
<1>q. QED BY <1>1, <1>2, <1>7 DEF EntryGood

\* A step that moves one call keeps the others good.
LEMMA OneCallMoves ==
  ASSUME VaultTypeOK, \A d \in VaultCalls : CallGood(vcall[d]), Grown,
         settled' \in Nat, settled <= settled',
         NEW c \in VaultCalls, NEW k \in CallRecords,
         vcall' = [vcall EXCEPT ![c] = k], CallGood(k)',
         \A d \in VaultCalls \ {c} :
           Op(d) = "get" /\ In(d, "answered") => vcall[d].version >= settled'
  PROVE  vcall' \in [VaultCalls -> CallRecords] /\ \A d \in VaultCalls : CallGood(vcall[d])'
<1>1. vcall \in [VaultCalls -> CallRecords]
  BY DEF VaultTypeOK
<1>2. vcall' \in [VaultCalls -> CallRecords]
  BY <1>1
<1>3. ASSUME NEW d \in VaultCalls PROVE CallGood(vcall[d])'
  <2>1. CASE d = c
    <3>1. vcall'[d] = k
      BY <1>1, <2>1
    <3>q. QED BY <3>1 DEF CallGood, KeptUntil
  <2>2. CASE d # c
    <3>1. vcall'[d] = vcall[d] /\ vcall[d] \in CallRecords /\ CallGood(vcall[d])
      BY <1>1, <2>2
    <3>2. PICK r \in CallRecords : r = vcall[d]
      BY <3>1
    <3>3. r.stage = "answered" /\ r.op = "get" => r.version >= settled'
      BY <2>2, <3>2 DEF Op, In
    <3>4. CallGood(r)'
      BY <3>1, <3>2, <3>3, CallStaysGood
    <3>q. QED BY <3>1, <3>2, <3>4 DEF CallGood, KeptUntil
  <2>q. QED BY <2>1, <2>2
<1>q. QED BY <1>2, <1>3

\* A step that moves one call and returns nothing to a reader, while the cache
\* entry is kept or dropped.
LEMMA CallStep ==
  ASSUME VaultInv, VaultAssumption, Grown, got' = Nothing,
         settled' \in Nat, settled <= settled', settled' <= Latest',
         NEW c \in VaultCalls, NEW k \in CallRecords,
         vcall' = [vcall EXCEPT ![c] = k], CallGood(k)',
         \A d \in VaultCalls \ {c} :
           Op(d) = "get" /\ In(d, "answered") => vcall[d].version >= settled',
         cached' = NoEntry \/ (cached' = cached /\ settled' = settled)
  PROVE  VaultInv'
<1>1. VaultTypeOK /\ (\A d \in VaultCalls : CallGood(vcall[d])) /\ EntryGood(cached)
  BY DEF VaultInv
<1>2. vcall' \in [VaultCalls -> CallRecords] /\ \A d \in VaultCalls : CallGood(vcall[d])'
  BY <1>1, OneCallMoves
<1>3. EntryGood(cached)' /\ cached' \in [version : Nat, fetchedAt : Nat]
  <2>1. CASE cached' = NoEntry
    BY <2>1 DEF EntryGood, NoEntry
  <2>2. CASE cached' = cached /\ settled' = settled
    <3>1. PICK e \in [version : Nat, fetchedAt : Nat] : e = cached
      BY <1>1 DEF VaultTypeOK
    <3>2. EntryGood(e)'
      BY <1>1, <2>2, <3>1, EntryStaysGood
    <3>q. QED BY <2>2, <3>1, <3>2 DEF EntryGood
  <2>q. QED BY <2>1, <2>2
<1>4. ReadNoStalerThanTtl' /\ OwnWritesVisible' /\ got' \in [version : Nat, floor : Nat]
  BY DEF ReadNoStalerThanTtl, OwnWritesVisible, Nothing
<1>5. VaultTypeOK'
  BY <1>1, <1>2, <1>3, <1>4, WrittenLemma DEF VaultTypeOK
<1>q. QED BY <1>2, <1>3, <1>4, <1>5 DEF VaultInv

\* A call that is over is good.
LEMMA EndedIsGood ==
  ASSUME settled' \in Nat, NEW c \in VaultCalls, Ended(c)
  PROVE  \E k \in CallRecords : vcall' = [vcall EXCEPT ![c] = k] /\ CallGood(k)'
<1> DEFINE over == [op |-> "none", stage |-> "done", since |-> 0, version |-> 0, floor |-> 0]
<1>1. [Uncalled EXCEPT !.stage = "done"] = over
  BY DEF Uncalled
<1>2. over \in CallRecords
  BY DEF CallRecords
<1>3. CallGood(over)'
  BY DEF CallGood
<1>4. vcall' = [vcall EXCEPT ![c] = over]
  BY <1>1 DEF Ended
<1>q. QED BY <1>2, <1>3, <1>4

\* The record of a call that begins.
LEMMA BegunFields ==
  ASSUME VaultTypeOK, NEW op \in {"get", "set", "delete"}, NEW stage \in {"sent", "login", "answered"}
  PROVE  /\ Begun(op, stage) \in CallRecords
         /\ Begun(op, stage) = [op |-> op, stage |-> stage, since |-> vaultNow, version |-> 0,
                                floor |-> IF op = "get" THEN settled ELSE 0]
<1> DEFINE k == [op |-> op, stage |-> stage, since |-> vaultNow, version |-> 0,
                 floor |-> IF op = "get" THEN settled ELSE 0]
<1>1. Begun(op, stage) = k
  <2>1. PICK floor : floor = IF op = "get" THEN settled ELSE 0
    OBVIOUS
  <2>2. Begun(op, stage) = [Uncalled EXCEPT !.op = op, !.stage = stage, !.since = vaultNow,
                                            !.floor = floor]
    BY <2>1 DEF Begun
  <2>3. Begun(op, stage) = [op |-> op, stage |-> stage, since |-> vaultNow, version |-> 0,
                            floor |-> floor]
    BY <2>2 DEF Uncalled
  <2>q. QED BY <2>1, <2>3
<1>2. /\ op \in {"none", "get", "set", "delete"} /\ stage \in {"idle", "login", "sent", "answered", "done"}
      /\ vaultNow \in Nat /\ (IF op = "get" THEN settled ELSE 0) \in Nat
  BY DEF VaultTypeOK
<1>3. k \in CallRecords
  BY <1>2 DEF CallRecords
<1>q. QED BY <1>1, <1>3

-----------------------------------------------------------------------------
LEMMA VaultInitHolds == VaultInit /\ VaultAssumption => VaultInv
<1> SUFFICES ASSUME VaultInit, VaultAssumption PROVE VaultInv
  OBVIOUS
<1> DEFINE idle == [op |-> "none", stage |-> "idle", since |-> 0, version |-> 0, floor |-> 0]
<1>1. /\ vcall = [c \in VaultCalls |-> idle] /\ settled = 0 /\ vaultNow = 0
      /\ cached = NoEntry /\ got = Nothing /\ replacedAt = <<>>
      /\ secret = <<FALSE>> \/ secret = <<TRUE>>
  BY DEF VaultInit, Uncalled
<1>2. idle \in CallRecords
  BY DEF CallRecords
<1>3. secret \in Seq(BOOLEAN) /\ Len(secret) = 1 /\ replacedAt \in Seq(Nat) /\ Len(replacedAt) = 0
  <2>1. FALSE \in BOOLEAN /\ TRUE \in BOOLEAN
    OBVIOUS
  <2>2. PICK b \in BOOLEAN : secret = <<b>>
    BY <1>1, <2>1
  <2>q. QED BY <1>1, <2>2
<1>4. VaultTypeOK
  BY <1>1, <1>2, <1>3 DEF VaultTypeOK, NoEntry, Nothing, Latest
<1>5. ASSUME NEW c \in VaultCalls PROVE CallGood(vcall[c])
  BY <1>1 DEF CallGood
<1>6. EntryGood(cached) /\ ReadNoStalerThanTtl /\ OwnWritesVisible
  BY <1>1 DEF EntryGood, ReadNoStalerThanTtl, OwnWritesVisible, Nothing
<1>q. QED BY <1>4, <1>5, <1>6 DEF VaultInv

\* A get that returns gives back nothing that was replaced too long ago.
LEMMA ReadIsFresh ==
  ASSUME VaultTypeOK, VaultAssumption, NEW v \in 1..Latest, NEW t \in Nat,
         NEW limit \in Nat, t <= vaultNow, vaultNow <= t + limit,
         KeptUntil(v, t)
  PROVE  Age(v) <= limit
<1>1. CASE v = Latest
  BY <1>1 DEF Age
<1>2. CASE v # Latest
  <2>1. /\ v < Latest /\ v \in 1..Len(replacedAt) /\ replacedAt \in Seq(Nat) /\ vaultNow \in Nat
    BY <1>2 DEF VaultTypeOK, Latest
  <2>2. replacedAt[v] \in Nat /\ replacedAt[v] >= t
    BY <2>1 DEF KeptUntil
  <2>q. QED BY <1>2, <2>1, <2>2 DEF Age
<1>q. QED BY <1>1, <1>2

\* get, cache hit.
LEMMA GetCachedHolds ==
  ASSUME VaultInv, VaultAssumption, NEW c \in VaultCalls, GetCached(c)
  PROVE  VaultInv'
<1>1. /\ VaultTypeOK /\ (\A d \in VaultCalls : CallGood(vcall[d])) /\ EntryGood(cached)
      /\ settled \in Nat
  BY DEF VaultInv, VaultTypeOK
<1>2. /\ SecretTtl > 0 /\ cached # NoEntry /\ vaultNow - cached.fetchedAt < SecretTtl
      /\ Ended(c) /\ got' = [version |-> cached.version, floor |-> settled]
      /\ UNCHANGED <<provider, vaultNow, secret, replacedAt, cached, settled>>
  BY DEF GetCached, FreshEntry, Returns
<1>3. Grown
  BY <1>2 DEF Grown
<1>4. PICK k \in CallRecords : vcall' = [vcall EXCEPT ![c] = k] /\ CallGood(k)'
  BY <1>1, <1>2, EndedIsGood
<1>5. vcall' \in [VaultCalls -> CallRecords] /\ \A d \in VaultCalls : CallGood(vcall[d])'
  <2>1. \A d \in VaultCalls \ {c} : Op(d) = "get" /\ In(d, "answered") => vcall[d].version >= settled'
    BY <1>1, <1>2 DEF CallGood, Op, In
  <2>2. settled' \in Nat /\ settled <= settled'
    BY <1>1, <1>2
  <2>q. QED BY <1>1, <1>3, <1>4, <2>1, <2>2, OneCallMoves
<1>6. EntryGood(cached)'
  BY <1>1, <1>2 DEF EntryGood, Latest, Flight, Remote
<1>7. /\ cached.version \in 1..Latest /\ cached.version >= settled
      /\ cached.fetchedAt \in Nat /\ cached.fetchedAt <= vaultNow /\ vaultNow \in Nat
      /\ cached.version < Latest => replacedAt[cached.version] + Flight >= cached.fetchedAt
      /\ Flight \in Nat /\ SecretTtl \in Nat
  BY <1>1, <1>2, VaultAssumption DEF EntryGood, VaultTypeOK, Latest, Flight
<1>8. Age(cached.version) < SecretTtl + Flight
  <2>1. CASE cached.version = Latest
    BY <1>2, <1>7, <2>1 DEF Age
  <2>2. CASE cached.version # Latest
    <3>1. /\ cached.version < Latest /\ cached.version \in 1..Len(replacedAt)
          /\ replacedAt \in Seq(Nat)
      BY <1>1, <1>7, <2>2 DEF VaultTypeOK, Latest
    <3>2. replacedAt[cached.version] \in Nat /\ replacedAt[cached.version] + Flight >= cached.fetchedAt
      BY <1>7, <3>1
    <3>3. Age(cached.version) = vaultNow - replacedAt[cached.version]
      BY <2>2 DEF Age
    <3>q. QED BY <1>2, <1>7, <3>2, <3>3
  <2>q. QED BY <2>1, <2>2
<1>9. ReadNoStalerThanTtl' /\ OwnWritesVisible'
  <2>1. got'.version = cached.version /\ got'.floor = settled
    BY <1>2
  <2>2. Age(cached.version)' = Age(cached.version) /\ Flight' = Flight
    BY <1>2 DEF Age, Latest, Flight, Remote
  <2>3. Age(got.version)' < SecretTtl + Flight'
    BY <1>2, <1>8, <2>1, <2>2 DEF Age
  <2>q. QED BY <1>7, <2>1, <2>3 DEF ReadNoStalerThanTtl, OwnWritesVisible, Flight
<1>10. VaultTypeOK'
  BY <1>1, <1>2, <1>5, <1>7 DEF VaultTypeOK, Latest
<1>q. QED BY <1>5, <1>6, <1>9, <1>10 DEF VaultInv

\* get after its await.
LEMMA GetReturnsHolds ==
  ASSUME VaultInv, VaultAssumption, NEW c \in VaultCalls, GetReturns(c)
  PROVE  VaultInv'
<1>1. /\ VaultTypeOK /\ (\A d \in VaultCalls : CallGood(vcall[d])) /\ EntryGood(cached)
      /\ settled \in Nat /\ vaultNow \in Nat /\ vcall[c] \in CallRecords /\ CallGood(vcall[c])
  BY DEF VaultInv, VaultTypeOK
<1>2. /\ vcall[c].stage = "answered" /\ vcall[c].op = "get"
      /\ \/ cached' = [version |-> vcall[c].version, fetchedAt |-> vaultNow]
         \/ cached' = cached
      /\ Ended(c) /\ got' = [version |-> vcall[c].version, floor |-> vcall[c].floor]
      /\ UNCHANGED <<provider, vaultNow, secret, replacedAt, settled>>
  BY DEF GetReturns, Returns, In, Op
<1>3. Grown
  BY <1>2 DEF Grown
<1>4. PICK k \in CallRecords : vcall' = [vcall EXCEPT ![c] = k] /\ CallGood(k)'
  BY <1>1, <1>2, EndedIsGood
<1>5. vcall' \in [VaultCalls -> CallRecords] /\ \A d \in VaultCalls : CallGood(vcall[d])'
  <2>1. \A d \in VaultCalls \ {c} : Op(d) = "get" /\ In(d, "answered") => vcall[d].version >= settled'
    BY <1>1, <1>2 DEF CallGood, Op, In
  <2>2. settled' \in Nat /\ settled <= settled'
    BY <1>1, <1>2
  <2>q. QED BY <1>1, <1>3, <1>4, <2>1, <2>2, OneCallMoves
<1>6. PICK v \in 1..Latest, t \in Nat :
         /\ v = vcall[c].version /\ t = vcall[c].since /\ v >= settled /\ KeptUntil(v, t)
         /\ t <= vaultNow /\ vaultNow <= t + Flight /\ vcall[c].floor \in Nat
         /\ vcall[c].floor <= settled
  BY <1>1, <1>2 DEF CallGood, CallRecords, Latest
<1>7. Flight \in Nat /\ Age(v) <= Flight
  BY <1>1, <1>6, VaultAssumption, ReadIsFresh DEF Flight
<1>8. EntryGood(cached)' /\ cached' \in [version : Nat, fetchedAt : Nat]
  <2>1. CASE cached' = cached
    BY <1>1, <1>2, <2>1 DEF EntryGood, Latest, Flight, Remote, VaultTypeOK
  <2>2. CASE cached' = [version |-> vcall[c].version, fetchedAt |-> vaultNow]
    <3>1. cached'.version = v /\ cached'.fetchedAt = vaultNow
      BY <1>6, <2>2
    <3>2. v < Latest => replacedAt[v] + Flight >= vaultNow
      <4>1. v < Latest => v \in 1..Len(replacedAt) /\ replacedAt \in Seq(Nat)
        BY <1>1, <1>6 DEF VaultTypeOK, Latest
      <4>2. v < Latest => replacedAt[v] \in Nat /\ replacedAt[v] >= t
        BY <1>6, <4>1 DEF KeptUntil
      <4>q. QED BY <1>1, <1>6, <1>7, <4>2
    <3>3. Latest' = Latest /\ Flight' = Flight
      BY <1>2 DEF Latest, Flight, Remote
    <3>q. QED BY <1>1, <1>2, <1>6, <2>2, <3>1, <3>2, <3>3 DEF EntryGood
  <2>q. QED BY <1>2, <2>1, <2>2
<1>9. ReadNoStalerThanTtl' /\ OwnWritesVisible'
  <2>1. got'.version = v /\ got'.floor = vcall[c].floor
    BY <1>2, <1>6
  <2>2. Flight' = Flight /\ Age(got.version)' = Age(v)
    BY <1>2, <2>1 DEF Age, Latest, Flight, Remote
  <2>q. QED BY <1>1, <1>6, <1>7, <2>1, <2>2 DEF ReadNoStalerThanTtl, OwnWritesVisible, Flight
<1>10. VaultTypeOK'
  BY <1>1, <1>2, <1>5, <1>6, <1>8 DEF VaultTypeOK, Latest
<1>q. QED BY <1>5, <1>8, <1>9, <1>10 DEF VaultInv

\* What invalidateCache after a write makes of the newest settled write.
LEMMA SettledFact ==
  ASSUME VaultTypeOK, \A d \in VaultCalls : CallGood(vcall[d]), NEW c \in VaultCalls,
         NEW v \in Nat, Invalidated(c, v)
  PROVE  /\ cached' = NoEntry /\ settled' \in Nat /\ settled <= settled'
         /\ settled' = settled \/ settled' = v
         /\ \A d \in VaultCalls \ {c} :
              Op(d) = "get" /\ In(d, "answered") => vcall[d].version >= settled'
<1>1. settled \in Nat /\ cached' = NoEntry /\ SettleAt(c, v)
  BY DEF Invalidated, VaultTypeOK
<1>2. CASE settled' = settled
  BY <1>1, <1>2 DEF CallGood, Op, In
<1>3. CASE settled' # settled
  BY <1>1, <1>3 DEF SettleAt
<1>q. QED BY <1>2, <1>3

\* A call that ends without a trace.
LEMMA EndedHolds ==
  ASSUME VaultInv, VaultAssumption, NEW c \in VaultCalls, got' = Nothing, Ended(c),
         UNCHANGED <<provider, vaultNow, secret, replacedAt, cached, settled>>
  PROVE  VaultInv'
<1>1. Grown /\ settled' = settled /\ cached' = cached
  BY DEF Grown
<1>2. settled' \in Nat /\ settled <= settled' /\ settled' <= Latest'
  BY DEF VaultInv, VaultTypeOK, Latest
<1>3. PICK k \in CallRecords : vcall' = [vcall EXCEPT ![c] = k] /\ CallGood(k)'
  BY <1>2, EndedIsGood
<1>4. \A d \in VaultCalls \ {c} : Op(d) = "get" /\ In(d, "answered") => vcall[d].version >= settled'
  BY <1>1 DEF VaultInv, CallGood, Op, In
<1>q. QED BY <1>1, <1>2, <1>3, <1>4, CallStep

\* The other steps of a call, and the steps of others, return nothing to a reader.
LEMMA LocalHolds ==
  ASSUME VaultInv, VaultAssumption, NEW c \in VaultCalls, got' = Nothing,
         GetLocal(c) \/ WriteLocal(c) \/ WriteRefused(c)
  PROVE  VaultInv'
<1>1. /\ VaultTypeOK /\ (\A d \in VaultCalls : CallGood(vcall[d]))
      /\ settled \in Nat /\ vaultNow \in Nat /\ Latest \in Nat /\ Latest > 0 /\ settled <= Latest
      /\ secret \in Seq(BOOLEAN) /\ Latest = Len(secret) /\ Len(secret) = Len(replacedAt) + 1
      /\ replacedAt \in Seq(Nat)
  BY DEF VaultInv, VaultTypeOK, Latest
<1>2. CASE GetLocal(c)
  <2>1. /\ UNCHANGED <<provider, vaultNow, secret, replacedAt, cached, settled>> /\ ~Remote
        /\ vcall' = [vcall EXCEPT ![c] = [Begun("get", "answered") EXCEPT !.version = Latest]]
    BY <1>2 DEF GetLocal
  <2> DEFINE k == [op |-> "get", stage |-> "answered", since |-> vaultNow, version |-> Latest,
                   floor |-> settled]
  <2>2. [Begun("get", "answered") EXCEPT !.version = Latest] = k
    <3>1. "get" \in {"get", "set", "delete"} /\ "answered" \in {"sent", "login", "answered"}
      OBVIOUS
    <3>2. Begun("get", "answered") = [op |-> "get", stage |-> "answered", since |-> vaultNow,
                                      version |-> 0, floor |-> settled]
      BY <1>1, <3>1, BegunFields
    <3>q. QED BY <3>2
  <2>3. k \in CallRecords
    BY <1>1 DEF CallRecords
  <2>4. CallGood(k)
    BY <1>1, <2>1, VaultAssumption DEF CallGood, KeptUntil, Flight
  <2>5. Grown /\ settled' = settled /\ cached' = cached
    BY <2>1 DEF Grown
  <2>6. PICK r \in CallRecords : r = k
    BY <2>3
  <2>7. CallGood(r)'
    <3>1. CallGood(r) /\ (r.stage = "answered" /\ r.op = "get" => r.version >= settled')
      BY <1>1, <2>4, <2>5, <2>6
    <3>q. QED BY <1>1, <2>5, <3>1, CallStaysGood
  <2>8. \A d \in VaultCalls \ {c} : Op(d) = "get" /\ In(d, "answered") => vcall[d].version >= settled'
    BY <1>1, <2>5 DEF CallGood, Op, In
  <2>9. /\ settled' \in Nat /\ settled <= settled' /\ settled' <= Latest'
        /\ vcall' = [vcall EXCEPT ![c] = r]
    <3>1. vcall' = [vcall EXCEPT ![c] = r]
      BY <2>1, <2>2, <2>6
    <3>2. settled' = settled /\ Latest' = Latest
      BY <2>1 DEF Latest
    <3>q. QED BY <1>1, <3>1, <3>2
  <2> HIDE DEF k
  <2>q. QED BY <2>5, <2>7, <2>8, <2>9, CallStep
<1>3. CASE WriteLocal(c)
  <2>1. /\ UNCHANGED <<provider, vaultNow>> /\ Ended(c)
        /\ \/ Invalidated(c, Latest + 1) /\ \E there \in BOOLEAN : Updated(there)
           \/ Invalidated(c, Latest) /\ UNCHANGED <<secret, replacedAt>>
    BY <1>3 DEF WriteLocal
  <2>2. Grown
    BY <2>1 DEF Grown
  <2>3. /\ cached' = NoEntry /\ settled' \in Nat /\ settled <= settled' /\ settled' <= Latest'
        /\ \A d \in VaultCalls \ {c} :
             Op(d) = "get" /\ In(d, "answered") => vcall[d].version >= settled'
    <3>1. CASE Invalidated(c, Latest + 1) /\ \E there \in BOOLEAN : Updated(there)
      <4>1. Latest' = Latest + 1
        BY <1>1, <3>1 DEF Updated, Latest
      <4>q. QED BY <1>1, <3>1, <4>1, SettledFact
    <3>2. CASE Invalidated(c, Latest) /\ UNCHANGED <<secret, replacedAt>>
      <4>1. Latest' = Latest
        BY <3>2 DEF Latest
      <4>q. QED BY <1>1, <3>2, <4>1, SettledFact
    <3>q. QED BY <2>1, <3>1, <3>2
  <2>4. PICK k \in CallRecords : vcall' = [vcall EXCEPT ![c] = k] /\ CallGood(k)'
    BY <2>1, <2>3, EndedIsGood
  <2>q. QED BY <2>2, <2>3, <2>4, CallStep
<1>4. CASE WriteRefused(c)
  <2>1. Ended(c) /\ UNCHANGED <<provider, vaultNow, secret, replacedAt, cached, settled>>
    BY <1>4 DEF WriteRefused
  <2>q. QED BY <2>1, EndedHolds
<1>q. QED BY <1>2, <1>3, <1>4

\* A step that only moves one call, to a good record.
LEMMA QuietHolds ==
  ASSUME VaultInv, VaultAssumption, NEW c \in VaultCalls, got' = Nothing,
         NEW k \in CallRecords, CallGood(k),
         k.stage = "answered" /\ k.op = "get" => k.version >= settled,
         vcall' = [vcall EXCEPT ![c] = k],
         UNCHANGED <<provider, vaultNow, secret, replacedAt, cached, settled>>
  PROVE  VaultInv'
<1>1. Grown /\ settled' = settled /\ cached' = cached
  BY DEF Grown
<1>2. settled' \in Nat /\ settled <= settled' /\ settled' <= Latest' /\ VaultTypeOK
  BY DEF VaultInv, VaultTypeOK, Latest
<1>3. \A d \in VaultCalls \ {c} : Op(d) = "get" /\ In(d, "answered") => vcall[d].version >= settled'
  BY <1>1 DEF VaultInv, CallGood, Op, In
<1>4. CallGood(k)'
  BY <1>1, <1>2, CallStaysGood
<1>q. QED BY <1>1, <1>2, <1>3, <1>4, CallStep

\* The HashiCorp client's steps.
LEMMA RemoteHolds ==
  ASSUME VaultInv, VaultAssumption, NEW c \in VaultCalls, got' = Nothing,
         \/ Ask(c) \/ LoggedIn(c) \/ VaultAccepts(c) \/ VaultRefuses(c)
         \/ WriteReturns(c) \/ CallFails(c)
  PROVE  VaultInv'
<1>1. /\ VaultTypeOK /\ (\A d \in VaultCalls : CallGood(vcall[d]))
      /\ settled \in Nat /\ vaultNow \in Nat /\ Latest \in Nat /\ Latest > 0 /\ settled <= Latest
      /\ vcall[c] \in CallRecords /\ CallGood(vcall[c]) /\ vcall \in [VaultCalls -> CallRecords]
      /\ Latest = Len(secret)
  BY DEF VaultInv, VaultTypeOK, Latest
<1>2. PICK m \in CallRecords : m = vcall[c]
  BY <1>1
<1>3. CASE Ask(c)
  <2>1. PICK op \in {"get", "set", "delete"}, stage \in {"sent", "login"}, since \in Nat :
           /\ Remote
           /\ vcall' = [vcall EXCEPT ![c] = [op |-> op, stage |-> stage, since |-> since, version |-> 0,
                                             floor |-> IF op = "get" THEN settled ELSE 0]]
           /\ stage = "sent" => since = vaultNow
           /\ UNCHANGED <<provider, vaultNow, secret, replacedAt, cached, settled>>
    <3>1. PICK op \in {"get", "set", "delete"} :
             vcall' = [vcall EXCEPT ![c] = IF hasToken THEN Begun(op, "sent")
                                           ELSE [Begun(op, "login") EXCEPT !.since = 0]]
      BY <1>3 DEF Ask
    <3>2. PICK floor : floor = IF op = "get" THEN settled ELSE 0
      OBVIOUS
    <3>3. /\ Begun(op, "sent") = [op |-> op, stage |-> "sent", since |-> vaultNow, version |-> 0,
                                  floor |-> floor]
          /\ Begun(op, "login") = [op |-> op, stage |-> "login", since |-> vaultNow, version |-> 0,
                                   floor |-> floor]
      BY <1>1, <3>2, BegunFields
    <3>4. [Begun(op, "login") EXCEPT !.since = 0]
            = [op |-> op, stage |-> "login", since |-> 0, version |-> 0, floor |-> floor]
      BY <3>3
    <3>5. Remote /\ UNCHANGED <<provider, vaultNow, secret, replacedAt, cached, settled>>
      BY <1>3 DEF Ask
    <3>6. CASE hasToken
      BY <1>1, <3>1, <3>2, <3>3, <3>5, <3>6
    <3>7. CASE ~hasToken
      BY <3>1, <3>2, <3>4, <3>5, <3>7
    <3>q. QED BY <3>6, <3>7
  <2>2. PICK floor \in Nat : floor = (IF op = "get" THEN settled ELSE 0) /\ floor <= settled
    BY <1>1
  <2>3. PICK k \in CallRecords :
          k = [op |-> op, stage |-> stage, since |-> since, version |-> 0, floor |-> floor]
    BY DEF CallRecords
  <2>4. CallGood(k) /\ k.stage # "answered"
    BY <1>1, <2>1, <2>2, <2>3, VaultAssumption DEF CallGood, Flight
  <2>5. vcall' = [vcall EXCEPT ![c] = k]
    BY <2>1, <2>2, <2>3
  <2>q. QED BY <2>1, <2>4, <2>5, QuietHolds
<1>4. CASE LoggedIn(c)
  <2>1. /\ m.stage = "login"
        /\ vcall' = [vcall EXCEPT ![c] = [m EXCEPT !.stage = "sent", !.since = vaultNow]]
        /\ UNCHANGED <<provider, vaultNow, secret, replacedAt, cached, settled>>
    BY <1>1, <1>2, <1>4 DEF LoggedIn, In
  <2>2. PICK k \in CallRecords : k = [m EXCEPT !.stage = "sent", !.since = vaultNow]
    BY <1>1 DEF CallRecords
  <2>3. k.stage = "sent" /\ k.since = vaultNow /\ k.floor = m.floor /\ k.version = m.version
    BY <2>2 DEF CallRecords
  <2>4. CallGood(k)
    BY <1>1, <1>2, <2>1, <2>3, VaultAssumption DEF CallGood, Flight
  <2>q. QED BY <2>1, <2>2, <2>3, <2>4, QuietHolds
<1>5. CASE VaultAccepts(c)
  <2>1. /\ m.stage = "sent"
        /\ UNCHANGED <<provider, vaultNow, cached, settled>>
        /\ vcall' = [vcall EXCEPT ![c] = [m EXCEPT !.stage = "answered", !.version = Latest']]
        /\ (\E there \in BOOLEAN : Updated(there)) \/ UNCHANGED <<secret, replacedAt>>
    BY <1>1, <1>2, <1>5 DEF VaultAccepts, In, Latest
  <2>2. Grown
    BY <2>1 DEF Grown
  <2>3. Latest' \in Nat /\ Latest <= Latest' /\ Flight' = Flight /\ (Remote <=> Remote') /\ Latest' > 0
    BY <1>1, <2>2, WrittenLemma DEF Latest
  <2>4. PICK k \in CallRecords : k = [m EXCEPT !.stage = "answered", !.version = Latest']
    BY <2>3 DEF CallRecords
  <2>5. k.stage = "answered" /\ k.version = Latest' /\ k.since = m.since /\ k.floor = m.floor
    BY <2>4 DEF CallRecords
  <2>6. KeptUntil(k.version, k.since)'
    BY <2>3, <2>5 DEF KeptUntil
  <2>7. m.since \in Nat /\ m.floor \in Nat
    BY DEF CallRecords
  <2>8. CallGood(m)
    BY <1>1, <1>2
  <2>9. CallGood(k)'
    BY <1>1, <2>1, <2>3, <2>5, <2>6, <2>7, <2>8 DEF CallGood
  <2>10. \A d \in VaultCalls \ {c} : Op(d) = "get" /\ In(d, "answered") => vcall[d].version >= settled'
    BY <1>1, <2>1 DEF CallGood, Op, In
  <2>11. settled' \in Nat /\ settled <= settled' /\ settled' <= Latest'
    BY <1>1, <2>1, <2>3
  <2>q. QED BY <2>1, <2>2, <2>4, <2>9, <2>10, <2>11, CallStep
<1>6. CASE VaultRefuses(c)
  <2>1. /\ m.stage = "sent" /\ m.op = "delete"
        /\ vcall' = [vcall EXCEPT ![c] = [m EXCEPT !.stage = "answered"]]
        /\ UNCHANGED <<provider, vaultNow, secret, replacedAt, cached, settled>>
    BY <1>1, <1>2, <1>6 DEF VaultRefuses, In, Op
  <2>2. PICK k \in CallRecords : k = [m EXCEPT !.stage = "answered"]
    BY DEF CallRecords
  <2>3. k.stage = "answered" /\ k.op = "delete" /\ k.since = m.since /\ k.version = m.version /\ k.floor = m.floor
    BY <2>1, <2>2 DEF CallRecords
  <2>4. CallGood(k)
    BY <1>1, <1>2, <2>1, <2>3 DEF CallGood
  <2>q. QED BY <2>1, <2>2, <2>3, <2>4, QuietHolds
<1>7. CASE WriteReturns(c)
  <2>1. /\ Invalidated(c, m.version) /\ Ended(c) /\ m.stage = "answered"
        /\ UNCHANGED <<provider, vaultNow, secret, replacedAt>>
    BY <1>1, <1>2, <1>7 DEF WriteReturns, In
  <2>2. m.version \in Nat /\ m.version <= Latest
    BY <1>1, <1>2, <2>1 DEF CallGood, CallRecords
  <2>3. /\ cached' = NoEntry /\ settled' \in Nat /\ settled <= settled'
        /\ settled' = settled \/ settled' = m.version
        /\ \A d \in VaultCalls \ {c} :
             Op(d) = "get" /\ In(d, "answered") => vcall[d].version >= settled'
    BY <1>1, <2>1, <2>2, SettledFact
  <2>4. settled' <= Latest' /\ Grown
    BY <1>1, <2>1, <2>2, <2>3 DEF Latest, Grown
  <2>5. PICK k \in CallRecords : vcall' = [vcall EXCEPT ![c] = k] /\ CallGood(k)'
    BY <2>1, <2>3, EndedIsGood
  <2>q. QED BY <2>3, <2>4, <2>5, CallStep
<1>8. CASE CallFails(c)
  <2>1. Ended(c) /\ UNCHANGED <<provider, vaultNow, secret, replacedAt, cached, settled>>
    BY <1>8 DEF CallFails
  <2>q. QED BY <2>1, EndedHolds
<1>q. QED BY <1>3, <1>4, <1>5, <1>6, <1>7, <1>8

\* What happens around the calls.
LEMMA AroundHolds ==
  ASSUME VaultInv, VaultAssumption, got' = Nothing, InvalidateCache \/ OthersWrite \/ VaultTick
  PROVE  VaultInv'
<1>1. /\ VaultTypeOK /\ (\A d \in VaultCalls : CallGood(vcall[d])) /\ EntryGood(cached)
      /\ settled \in Nat /\ vaultNow \in Nat /\ settled <= Latest /\ FlightTime \in Nat
      /\ vcall \in [VaultCalls -> CallRecords] /\ cached \in [version : Nat, fetchedAt : Nat]
  BY VaultAssumption DEF VaultInv, VaultTypeOK, Latest
<1>2. ReadNoStalerThanTtl' /\ OwnWritesVisible' /\ got' \in [version : Nat, floor : Nat]
  BY DEF ReadNoStalerThanTtl, OwnWritesVisible, Nothing
<1>3. CASE InvalidateCache \/ OthersWrite
  <2>1. /\ UNCHANGED <<provider, vaultNow, vcall, settled>>
        /\ (\E there \in BOOLEAN : Updated(there)) \/ UNCHANGED <<secret, replacedAt>>
        /\ cached' = NoEntry \/ cached' = cached
    BY <1>3 DEF InvalidateCache, OthersWrite
  <2>2. Grown
    BY <2>1 DEF Grown
  <2>3. ASSUME NEW d \in VaultCalls PROVE CallGood(vcall[d])'
    <3>1. PICK k \in CallRecords : k = vcall[d] /\ CallGood(k)
      BY <1>1
    <3>2. k.stage = "answered" /\ k.op = "get" => k.version >= settled'
      BY <2>1, <3>1 DEF CallGood
    <3>3. CallGood(k)'
      BY <1>1, <2>1, <2>2, <3>1, <3>2, CallStaysGood
    <3>4. vcall'[d] = k
      BY <2>1, <3>1
    <3>q. QED BY <3>3, <3>4 DEF CallGood, KeptUntil
  <2>4. EntryGood(cached)'
    <3>1. CASE cached' = NoEntry
      BY <3>1 DEF EntryGood
    <3>2. CASE cached' = cached
      <4>1. PICK e \in [version : Nat, fetchedAt : Nat] : e = cached /\ EntryGood(e)
        BY <1>1
      <4>2. EntryGood(e)'
        BY <1>1, <2>1, <2>2, <4>1, EntryStaysGood
      <4>q. QED BY <3>2, <4>1, <4>2 DEF EntryGood
    <3>q. QED BY <2>1, <3>1, <3>2
  <2>5. cached' \in [version : Nat, fetchedAt : Nat]
    BY <1>1, <2>1 DEF NoEntry
  <2>6. settled' <= Latest'
    <3>1. Latest <= Latest' /\ Latest \in Nat /\ Latest' \in Nat
      BY <1>1, <2>2, WrittenLemma DEF VaultTypeOK, Latest
    <3>q. QED BY <1>1, <2>1, <3>1
  <2>7. VaultTypeOK'
    BY <1>1, <1>2, <2>1, <2>2, <2>5, <2>6, WrittenLemma DEF VaultTypeOK
  <2>q. QED BY <1>2, <2>3, <2>4, <2>7 DEF VaultInv
<1>4. CASE VaultTick
  <2>1. /\ vaultNow' = vaultNow + 1 /\ \A d \in VaultCalls : ~Due(d)
        /\ UNCHANGED <<provider, secret, replacedAt, cached, vcall, settled>>
    BY <1>4 DEF VaultTick
  <2>2. Latest' = Latest /\ Flight' = Flight /\ (Remote <=> Remote') /\ Flight \in Nat
    BY <1>1, <2>1 DEF Latest, Flight, Remote
  <2>3. ASSUME NEW d \in VaultCalls PROVE CallGood(vcall[d])'
    <3>1. PICK k \in CallRecords : k = vcall[d] /\ CallGood(k)
      BY <1>1
    <3>2. k.since \in Nat
      BY DEF CallRecords
    <3>3. /\ k.stage \in {"sent", "answered"} =>
               Remote /\ k.since <= vaultNow /\ vaultNow < k.since + FlightTime
      BY <1>1, <2>1, <3>1, <3>2 DEF CallGood, Due, In
    <3>4. vcall'[d] = k /\ (\A v, t : KeptUntil(v, t)' <=> KeptUntil(v, t))
      BY <2>1, <2>2, <3>1 DEF KeptUntil
    <3>5. k.stage \in {"sent", "answered"} => k.since <= vaultNow' /\ vaultNow' <= k.since + Flight'
      BY <1>1, <2>1, <2>2, <3>2, <3>3 DEF Flight
    <3>q. QED BY <2>1, <2>2, <3>1, <3>4, <3>5 DEF CallGood
  <2>4. EntryGood(cached)'
    BY <1>1, <2>1, <2>2 DEF EntryGood
  <2>5. VaultTypeOK'
    BY <1>1, <1>2, <2>1, <2>2 DEF VaultTypeOK
  <2>q. QED BY <1>2, <2>3, <2>4, <2>5 DEF VaultInv
<1>q. QED BY <1>3, <1>4

LEMMA VaultStutters == VaultInv /\ UNCHANGED vaultVars => VaultInv'
<1> SUFFICES ASSUME VaultInv, UNCHANGED vaultVars PROVE VaultInv'
  OBVIOUS
<1>1. UNCHANGED <<provider, vaultNow, secret, replacedAt, hasToken, cached, vcall, settled, got>>
  BY DEF vaultVars
<1>2. VaultTypeOK' /\ EntryGood(cached)' /\ \A c \in VaultCalls : CallGood(vcall[c])'
  BY <1>1 DEF VaultInv, VaultTypeOK, EntryGood, CallGood, KeptUntil, Latest, Flight, Remote
<1>3. ReadNoStalerThanTtl' /\ OwnWritesVisible'
  BY <1>1 DEF VaultInv, ReadNoStalerThanTtl, OwnWritesVisible, Age, Latest, Remote
<1>q. QED BY <1>2, <1>3 DEF VaultInv

\* The inductive invariant: how old a reply on its way and the cache entry may be,
\* and that neither is older than the newest settled write.
THEOREM VaultInvariant == VaultSpec => []VaultInv
<1>1. VaultInv /\ [VaultNext]_vaultVars => VaultInv'
  <2> SUFFICES ASSUME VaultInv, [VaultNext]_vaultVars PROVE VaultInv'
    OBVIOUS
  <2>1. CASE UNCHANGED vaultVars
    BY <2>1, VaultStutters
  <2>2. ASSUME NEW c \in VaultCalls, GetCached(c) \/ GetReturns(c) PROVE VaultInv'
    BY <2>2, VaultAssumption, GetCachedHolds, GetReturnsHolds
  <2>3. ASSUME NEW c \in VaultCalls, VaultCall(c), got' = Nothing PROVE VaultInv'
    BY <2>3, VaultAssumption, LocalHolds, RemoteHolds DEF VaultCall
  <2>4. CASE (InvalidateCache \/ OthersWrite \/ VaultTick) /\ got' = Nothing
    BY <2>4, VaultAssumption, AroundHolds
  <2>q. QED BY <2>1, <2>2, <2>3, <2>4 DEF VaultNext
<1>q. QED BY <1>1, VaultInitHolds, VaultAssumption, PTL DEF VaultSpec

\* A get returns nothing that was replaced longer ago than the time to live plus the
\* time a fetch travels, whatever the two are.
THEOREM VaultReadsBounded == VaultSpec => []ReadNoStalerThanTtl
BY VaultInvariant, PTL DEF VaultInv

\* A client sees its own settled writes.
THEOREM VaultOwnWrites == VaultSpec => []OwnWritesVisible
BY VaultInvariant, PTL DEF VaultInv

-----------------------------------------------------------------------------
(* AuditReader: for a log of any length and pages of any size.             *)

\* How many members of S are smaller than n.
Rank(n, S) == Cardinality({m \in S : m < n})

\* The ranks of the members of a finite set of numbers are the numbers below its size,
\* each of them once, and they grow with the members.
LEMMA Ranks ==
  ASSUME NEW S \in SUBSET Nat, IsFiniteSet(S)
  PROVE  /\ Cardinality(S) \in Nat
         /\ \A n \in S : Rank(n, S) \in 0..Cardinality(S) - 1
         /\ \A m, n \in S : m < n <=> Rank(m, S) < Rank(n, S)
         /\ \A k \in 0..Cardinality(S) - 1 : \E n \in S : Rank(n, S) = k
<1> DEFINE c == Cardinality(S)
           Below(n) == {m \in S : m < n}
<1>1. c \in Nat /\ \A n \in S : n \in Nat
  BY FS_CardinalityType
<1>0. \A n \in S : IsFiniteSet(Below(n))
  <2> SUFFICES ASSUME NEW n \in S PROVE IsFiniteSet(Below(n))
    OBVIOUS
  <2>1. Below(n) \in SUBSET S
    OBVIOUS
  <2>q. QED BY <2>1, FS_Subset
<1>2. \A n \in S : Rank(n, S) \in Nat
  BY <1>0, FS_CardinalityType DEF Rank
<1>3. ASSUME NEW n \in S PROVE Rank(n, S) < c
  <2>1. Below(n) \in SUBSET S /\ Below(n) # S
    OBVIOUS
  <2>2. Cardinality(Below(n)) <= c /\ Cardinality(Below(n)) # c
    BY <2>1, FS_Subset
  <2>q. QED BY <1>1, <1>2, <2>2 DEF Rank
<1>4. ASSUME NEW m \in S, NEW n \in S, m < n PROVE Rank(m, S) < Rank(n, S)
  <2>1. Below(m) \in SUBSET Below(n) /\ Below(m) # Below(n)
    <3>1. m \in Below(n) /\ m \notin Below(m)
      BY <1>1, <1>4
    <3>2. Below(m) \subseteq Below(n)
      <4>1. ASSUME NEW x \in S, x < m PROVE x < n
        <5>1. x \in Nat /\ m \in Nat /\ n \in Nat
          BY <1>1
        <5>q. QED BY <5>1, <4>1, <1>4
      <4>q. QED BY <4>1
    <3>q. QED BY <3>1, <3>2
  <2>2. Cardinality(Below(m)) <= Cardinality(Below(n)) /\ Cardinality(Below(m)) # Cardinality(Below(n))
    BY <2>1, <1>0, FS_Subset
  <2>q. QED BY <1>2, <2>2 DEF Rank
<1>5. \A m, n \in S : m < n <=> Rank(m, S) < Rank(n, S)
  <2> SUFFICES ASSUME NEW m \in S, NEW n \in S PROVE m < n <=> Rank(m, S) < Rank(n, S)
    OBVIOUS
  <2>1. m \in Nat /\ n \in Nat /\ Rank(m, S) \in Nat /\ Rank(n, S) \in Nat
    BY <1>1, <1>2
  <2>2. m < n => Rank(m, S) < Rank(n, S)
    BY <1>4
  <2>3. n < m => Rank(n, S) < Rank(m, S)
    BY <1>4
  <2>q. QED BY <2>1, <2>2, <2>3
<1>6. \A k \in 0..c - 1 : \E n \in S : Rank(n, S) = k
  <2> DEFINE f == [n \in S |-> Rank(n, S)]
  <2>1. f \in [S -> 0..c - 1]
    BY <1>1, <1>2, <1>3 DEF Rank
  <2>2. \A m, n \in S : f[m] = f[n] => m = n
    <3> SUFFICES ASSUME NEW m \in S, NEW n \in S, f[m] = f[n] PROVE m = n
      OBVIOUS
    <3>1. Rank(m, S) = Rank(n, S)
      OBVIOUS
    <3>2. ~(m < n) /\ ~(n < m)
      BY <3>1, <1>2, <1>5
    <3>q. QED BY <1>1, <3>2
  <2>3. f \in Injection(S, 0..c - 1)
    BY <2>1, <2>2 DEF Injection, IsInjective
  <2>4. IsFiniteSet(0..c - 1) /\ Cardinality(0..c - 1) = c
    <3>1. 0 \in Int /\ c - 1 \in Int
      BY <1>1
    <3>2. Cardinality(0..c - 1) = IF 0 > c - 1 THEN 0 ELSE (c - 1) - 0 + 1
      BY <3>1, FS_Interval
    <3>3. IsFiniteSet(0..c - 1)
      BY <3>1, FS_Interval
    <3>q. QED BY <1>1, <3>2, <3>3
  <2>5. f \in Surjection(S, 0..c - 1)
    BY <2>3, <2>4, FS_Injection
  <2>q. QED BY <2>5 DEF Surjection
<1>q. QED BY <1>1, <1>2, <1>3, <1>5, <1>6

\* A finite set of numbers that is not empty has a least member.
LEMMA LeastExists ==
  ASSUME NEW S \in SUBSET Nat, IsFiniteSet(S), S # {}
  PROVE  \E n \in S : \A m \in S : n <= m
<1>1. Cardinality(S) \in Nat /\ Cardinality(S) # 0
  BY FS_CardinalityType, FS_EmptySet
<1>2. 0 \in 0..Cardinality(S) - 1
  BY <1>1
<1>3. PICK n \in S : Rank(n, S) = 0
  BY <1>2, Ranks
<1>4. ASSUME NEW m \in S, m < n PROVE FALSE
  <2>1. Rank(m, S) < Rank(n, S) /\ Rank(m, S) \in 0..Cardinality(S) - 1
    BY <1>4, Ranks
  <2>q. QED BY <1>1, <1>3, <2>1
<1>q. QED BY <1>4

\* Ascending lists the members of a set, each once, in order.
LEMMA AscendingLists ==
  ASSUME NEW S \in SUBSET Nat, IsFiniteSet(S)
  PROVE  /\ \A k \in 1..Cardinality(S) : Ascending(S)[k] \in S /\ Rank(Ascending(S)[k], S) = k - 1
         /\ \A n \in S : Rank(n, S) + 1 \in 1..Cardinality(S) /\ Ascending(S)[Rank(n, S) + 1] = n
<1>1. ASSUME NEW k \in 1..Cardinality(S)
      PROVE  Ascending(S)[k] \in S /\ Rank(Ascending(S)[k], S) = k - 1
  <2>1. k - 1 \in 0..Cardinality(S) - 1
    BY Ranks
  <2>2. \E n \in S : Cardinality({m \in S : m < n}) = k - 1
    BY <2>1, Ranks DEF Rank
  <2>3. Ascending(S)[k] = CHOOSE n \in S : Cardinality({m \in S : m < n}) = k - 1
    BY DEF Ascending
  <2>q. QED BY <2>2, <2>3 DEF Rank
<1>2. ASSUME NEW n \in S
      PROVE  Rank(n, S) + 1 \in 1..Cardinality(S) /\ Ascending(S)[Rank(n, S) + 1] = n
  <2>1. Rank(n, S) \in 0..Cardinality(S) - 1 /\ Cardinality(S) \in Nat
    BY Ranks
  <2>2. PICK k \in 1..Cardinality(S) : k = Rank(n, S) + 1
    BY <2>1
  <2>3. Ascending(S)[k] \in S /\ Rank(Ascending(S)[k], S) = Rank(n, S)
    BY <1>1, <2>1, <2>2
  <2>4. PICK a \in S : a = Ascending(S)[k] /\ Rank(a, S) = Rank(n, S)
    BY <2>3
  <2>5. (a < n <=> Rank(a, S) < Rank(n, S)) /\ (n < a <=> Rank(n, S) < Rank(a, S))
    BY Ranks
  <2>6. a \in Nat /\ n \in Nat
    OBVIOUS
  <2>7. a = n
    BY <2>1, <2>4, <2>5, <2>6
  <2>q. QED BY <2>2, <2>4, <2>7
<1>q. QED BY <1>1, <1>2

\* Entries whose outcome the reader asks for, and those it has.
Matching == {s \in 0..Len(auditLog) - 1 : auditLog[s + 1].content.outcome \in wanted}
Got == {received[i] : i \in DOMAIN received}

\* Entries are numbered in the order in which they were appended, and unless a
\* page was cut the reader has what matches up to its cursor, each entry once.
ReaderInv ==
  /\ order \in {"asc", "desc"} /\ cut \in BOOLEAN
  /\ Len(auditLog) \in Nat /\ DOMAIN auditLog = 1..Len(auditLog)
  /\ \A i \in 1..Len(auditLog) : auditLog[i].sequence = i - 1
  /\ received \in Seq(Nat)
  /\ cursor \in -1..Len(auditLog) - 1
  /\ ~cut => /\ Got = {s \in Matching : s <= cursor}
             /\ IsFiniteSet(Got) /\ Len(received) = Cardinality(Got)

\* What a query looks at: the matching entries after the cursor.
Unread == {s \in Matching : s > cursor}

LEMMA PageIsUnread ==
  ASSUME ReaderInv
  PROVE  /\ Unread \in SUBSET Nat /\ IsFiniteSet(Unread)
         /\ Page = Sliced(auditLog, Unread, order, PageLimit)
<1>1. {auditLog[i].sequence : i \in {j \in DOMAIN auditLog : /\ auditLog[j].content.outcome \in wanted
                                                             /\ auditLog[j].sequence > cursor}}
        = Unread
  <2> DEFINE Found == {auditLog[i].sequence :
                 i \in {j \in DOMAIN auditLog : /\ auditLog[j].content.outcome \in wanted
                                                /\ auditLog[j].sequence > cursor}}
  <2>0. Len(auditLog) \in Nat
    BY DEF ReaderInv
  <2>1. ASSUME NEW x \in Found PROVE x \in Unread
    <3>1. PICK i \in 1..Len(auditLog) : /\ x = auditLog[i].sequence /\ auditLog[i].sequence > cursor
                                        /\ auditLog[i].content.outcome \in wanted
      BY <2>1 DEF ReaderInv
    <3>2. x = i - 1
      BY <3>1 DEF ReaderInv
    <3>3. x \in 0..Len(auditLog) - 1 /\ x + 1 = i
      BY <2>0, <3>2
    <3>q. QED BY <3>1, <3>3 DEF Unread, Matching
  <2>2. ASSUME NEW x \in Unread PROVE x \in Found
    <3>1. x \in 0..Len(auditLog) - 1 /\ auditLog[x + 1].content.outcome \in wanted /\ x > cursor
      BY <2>2 DEF Unread, Matching
    <3>2. x + 1 \in DOMAIN auditLog /\ auditLog[x + 1].sequence = x
      BY <2>0, <3>1 DEF ReaderInv
    <3>q. QED BY <3>1, <3>2
  <2>q. QED BY <2>1, <2>2
<1>2. Page = Sliced(auditLog, Unread, order, PageLimit)
  BY <1>1 DEF Page, Query
<1>3. IsFiniteSet(0..Len(auditLog) - 1) /\ Unread \in SUBSET (0..Len(auditLog) - 1)
  <2>1. Len(auditLog) - 1 \in Int
    BY DEF ReaderInv
  <2>q. QED BY <2>1, FS_Interval DEF Unread, Matching
<1>4. IsFiniteSet(Unread)
  BY <1>3, FS_Subset
<1>q. QED BY <1>2, <1>3, <1>4

\* An empty page says that nothing is unread.
LEMMA EmptyPage ==
  ASSUME ReaderInv, Page = <<>>
  PROVE  Unread = {}
<1>1. /\ Unread \in SUBSET Nat /\ IsFiniteSet(Unread)
      /\ Page = Sliced(auditLog, Unread, order, PageLimit)
  BY PageIsUnread
<1>2. Cardinality(Unread) \in Nat /\ PageLimit \in Nat \ {0}
  BY <1>1, FS_CardinalityType, ReaderAssumption
<1>3. DOMAIN Page = 1..(IF Cardinality(Unread) < PageLimit THEN Cardinality(Unread) ELSE PageLimit)
  BY <1>1 DEF Sliced
<1>4. DOMAIN Page = {}
  OBVIOUS
<1>5. Cardinality(Unread) = 0
  <2>1. CASE Cardinality(Unread) > 0
    <3>1. 1 \in DOMAIN Page
      BY <1>2, <1>3, <2>1
    <3>q. QED BY <1>4, <3>1
  <2>q. QED BY <1>2, <2>1
<1>q. QED BY <1>1, <1>5, FS_EmptySet

\* The sequence numbers on a page, and the newest of them.
Listed == [i \in DOMAIN Page |-> Page[i].sequence]
Newest == Page[IF order = "asc" THEN Len(Page) ELSE 1].sequence

\* A page lists unread entries, each once; if it is ascending or not full, all of
\* them up to the newest it lists.
LEMMA PageLists ==
  ASSUME ReaderInv, Page # <<>>
  PROVE  /\ Len(Page) \in 1..PageLimit /\ DOMAIN Page = 1..Len(Page)
         /\ Newest \in Unread
         /\ \A i \in 1..Len(Page) : Listed[i] \in Unread
         /\ \A i, j \in 1..Len(Page) : Listed[i] = Listed[j] => i = j
         /\ order = "asc" \/ Len(Page) < PageLimit =>
              \A s \in Unread : s <= Newest <=> \E i \in 1..Len(Page) : Listed[i] = s
<1> DEFINE n == Cardinality(Unread)
           m == IF n < PageLimit THEN n ELSE PageLimit
           place(k) == IF order = "asc" THEN k ELSE n + 1 - k
           A(k) == Ascending(Unread)[k]
<1>1. /\ Unread \in SUBSET Nat /\ IsFiniteSet(Unread)
      /\ Page = Sliced(auditLog, Unread, order, PageLimit)
  BY PageIsUnread
<1>2. n \in Nat /\ PageLimit \in Nat \ {0} /\ m \in Nat /\ m <= n /\ m <= PageLimit
  BY <1>1, FS_CardinalityType, ReaderAssumption
<1>3. Page = [k \in 1..m |-> auditLog[A(place(k)) + 1]]
  BY <1>1 DEF Sliced
<1>4. DOMAIN Page = 1..m /\ Len(Page) = m
  BY <1>2, <1>3
<1>5. m >= 1
  <2>1. CASE m = 0
    <3>1. 1..m = {}
      BY <2>1
    <3>2. Page = <<>>
      BY <1>3, <3>1
    <3>q. QED BY <3>2
  <2>q. QED BY <1>2, <2>1
<1>6. \A k \in 1..n : A(k) \in Unread /\ Rank(A(k), Unread) = k - 1
  BY <1>1, AscendingLists
<1>7. \A s \in Unread : Rank(s, Unread) + 1 \in 1..n /\ A(Rank(s, Unread) + 1) = s
  BY <1>1, AscendingLists
<1>8. \A k \in 1..m : place(k) \in 1..n
  BY <1>2
<1>9. \A k \in 1..m : Page[k].sequence = A(place(k))
  <2> SUFFICES ASSUME NEW k \in 1..m PROVE Page[k].sequence = A(place(k))
    OBVIOUS
  <2>1. A(place(k)) \in Unread
    BY <1>6, <1>8
  <2>2. Len(auditLog) \in Nat /\ A(place(k)) \in 0..Len(auditLog) - 1
    BY <2>1 DEF Unread, Matching, ReaderInv
  <2>3. PICK e \in 1..Len(auditLog) : e = A(place(k)) + 1
    BY <2>2
  <2>4. auditLog[e].sequence = e - 1
    BY DEF ReaderInv
  <2>5. Page[k] = auditLog[e]
    BY <1>3, <2>3
  <2>q. QED BY <2>2, <2>3, <2>4, <2>5
<1>10. \A k \in 1..m : Listed[k] = A(place(k))
  BY <1>4, <1>9 DEF Listed
<1> HIDE DEF A, n, m
<1>11. \A i \in 1..m : Listed[i] \in Unread /\ Rank(Listed[i], Unread) = place(i) - 1
  BY <1>6, <1>8, <1>10
<1>12. \A i, j \in 1..m : Listed[i] = Listed[j] => i = j
  <2> SUFFICES ASSUME NEW i \in 1..m, NEW j \in 1..m, Listed[i] = Listed[j] PROVE i = j
    OBVIOUS
  <2>1. place(i) - 1 = place(j) - 1
    BY <1>11
  <2>q. QED BY <2>1, <1>2
<1>13. PICK p \in 1..m : p = (IF order = "asc" THEN m ELSE 1) /\ Newest = Listed[p]
  BY <1>2, <1>4, <1>5, <1>9, <1>10 DEF Newest
<1>14. ASSUME order = "asc" \/ m < PageLimit, NEW s \in Unread
       PROVE  s <= Newest <=> \E i \in 1..m : Listed[i] = s
  <2>1. order # "asc" => m = n
    BY <1>2, <1>14 DEF m
  <2>2. place(p) = m
    BY <1>2, <1>13, <2>1
  <2>3. Newest \in Unread /\ Rank(Newest, Unread) = m - 1
    BY <1>11, <1>13, <2>2
  <2>4. s \in Nat /\ Newest \in Nat /\ Rank(s, Unread) \in Nat
    BY <1>1, <1>2, <1>7, <2>3, Ranks
  <2>5. Newest < s <=> m - 1 < Rank(s, Unread)
    BY <1>1, <2>3, Ranks
  <2>6. s <= Newest <=> Rank(s, Unread) + 1 \in 1..m
    BY <1>2, <2>4, <2>5
  <2>7. ASSUME Rank(s, Unread) + 1 \in 1..m PROVE \E i \in 1..m : Listed[i] = s
    <3>1. PICK i \in 1..m : place(i) = Rank(s, Unread) + 1
      <4>1. CASE order = "asc"
        BY <2>7, <4>1
      <4>2. CASE order # "asc"
        <5>1. m - Rank(s, Unread) \in 1..m /\ place(m - Rank(s, Unread)) = Rank(s, Unread) + 1
          BY <1>2, <2>1, <2>4, <2>7, <4>2
        <5>q. QED BY <5>1
      <4>q. QED BY <4>1, <4>2
    <3>2. Listed[i] = s
      BY <1>7, <1>10, <3>1
    <3>q. QED BY <3>2
  <2>8. ASSUME NEW i \in 1..m, Listed[i] = s PROVE Rank(s, Unread) + 1 \in 1..m
    <3>1. Rank(s, Unread) = place(i) - 1
      BY <1>11, <2>8
    <3>q. QED BY <1>2, <2>1, <3>1
  <2>q. QED BY <2>6, <2>7, <2>8
<1>q. QED BY <1>2, <1>4, <1>5, <1>11, <1>12, <1>13, <1>14

LEMMA ReadPageHolds ==
  ASSUME ReaderInv, ReadPage
  PROVE  ReaderInv'
<1>1. /\ Page # <<>> /\ received' = received \o Listed /\ cursor' = Newest
      /\ cut' = (cut \/ (order = "desc" /\ Len(Page) = PageLimit))
      /\ UNCHANGED <<auditLog, wanted, order>>
  BY DEF ReadPage, Listed, Newest
<1>2. /\ Len(Page) \in 1..PageLimit /\ DOMAIN Page = 1..Len(Page)
      /\ Newest \in Unread
      /\ \A i \in 1..Len(Page) : Listed[i] \in Unread
      /\ \A i, j \in 1..Len(Page) : Listed[i] = Listed[j] => i = j
      /\ order = "asc" \/ Len(Page) < PageLimit =>
           \A s \in Unread : s <= Newest <=> \E i \in 1..Len(Page) : Listed[i] = s
  BY <1>1, PageLists
<1>3. PageLimit \in Nat /\ Len(Page) \in Nat /\ Len(auditLog) \in Nat
  BY <1>2, ReaderAssumption DEF ReaderInv
<1>0. received \in Seq(Nat) /\ Len(received) \in Nat /\ cursor \in Int
  <2>1. received \in Seq(Nat) /\ cursor \in -1..Len(auditLog) - 1
    BY DEF ReaderInv
  <2>q. QED BY <1>3, <2>1
<1>4. Unread \subseteq 0..Len(auditLog) - 1
  BY DEF Unread, Matching
<1>5. Listed \in Seq(Nat) /\ Len(Listed) = Len(Page) /\ DOMAIN Listed = 1..Len(Page)
  <2>1. Listed \in [1..Len(Page) -> Nat]
    <3>1. DOMAIN Listed = 1..Len(Page) /\ Listed = [i \in 1..Len(Page) |-> Listed[i]]
      BY <1>2 DEF Listed
    <3>2. \A i \in 1..Len(Page) : Listed[i] \in Nat
      <4>1. \A x \in Unread : x \in Nat
        BY <1>3, <1>4
      <4>q. QED BY <1>2, <4>1
    <3>q. QED BY <3>1, <3>2
  <2>q. QED BY <1>3, <2>1
<1>6. /\ received' \in Seq(Nat) /\ Len(received') = Len(received) + Len(Page)
      /\ \A i \in 1..Len(received) : received'[i] = received[i]
      /\ \A i \in 1..Len(Page) : received'[Len(received) + i] = Listed[i]
  <2>1. PICK l \in Seq(Nat) : l = Listed
    BY <1>5
  <2>2. /\ received \o l \in Seq(Nat) /\ Len(received \o l) = Len(received) + Len(l)
        /\ \A i \in 1..Len(received) : (received \o l)[i] = received[i]
        /\ \A i \in 1..Len(l) : (received \o l)[Len(received) + i] = l[i]
    BY <1>0
  <2>3. received' = received \o l /\ Len(l) = Len(Page)
    BY <1>1, <1>5, <2>1
  <2>q. QED BY <2>1, <2>2, <2>3
<1> DEFINE P == {Listed[i] : i \in 1..Len(Page)}
<1>7. Got' = Got \union P
  <2>1. DOMAIN received = 1..Len(received) /\ Len(received) \in Nat
    BY <1>0
  <2>2. DOMAIN received' = 1..Len(received) + Len(Page)
    BY <1>6
  <2>3. ASSUME NEW x \in Got' PROVE x \in Got \union P
    <3>1. PICK i \in 1..Len(received) + Len(Page) : x = received'[i]
      BY <2>2, <2>3 DEF Got
    <3>2. CASE i \in 1..Len(received)
      <4>1. i \in DOMAIN received /\ x = received[i]
        BY <1>6, <2>1, <3>1, <3>2
      <4>q. QED BY <4>1 DEF Got
    <3>3. CASE i \notin 1..Len(received)
      <4>1. PICK j \in 1..Len(Page) : i = Len(received) + j
        <5>1. i - Len(received) \in 1..Len(Page)
          BY <1>3, <2>1, <3>3
        <5>2. i = Len(received) + (i - Len(received))
          BY <2>1
        <5>q. QED BY <5>1, <5>2
      <4>q. QED BY <1>6, <3>1, <4>1
    <3>q. QED BY <3>2, <3>3
  <2>4. ASSUME NEW x \in Got PROVE x \in Got'
    <3>1. PICK i \in 1..Len(received) : x = received[i]
      BY <2>1, <2>4 DEF Got
    <3>2. i \in DOMAIN received' /\ received'[i] = x
      BY <1>3, <1>6, <2>1, <2>2, <3>1
    <3>q. QED BY <3>2 DEF Got
  <2>5. ASSUME NEW x \in P PROVE x \in Got'
    <3>1. PICK i \in 1..Len(Page) : x = Listed[i]
      BY <2>5
    <3>2. Len(received) + i \in DOMAIN received' /\ received'[Len(received) + i] = x
      BY <1>3, <1>6, <2>1, <2>2, <3>1
    <3>q. QED BY <3>2 DEF Got
  <2>q. QED BY <2>3, <2>4, <2>5
<1>8. IsFiniteSet(P) /\ Cardinality(P) = Len(Page)
  <2>1. Listed \in Surjection(1..Len(Page), P) /\ Listed \in Injection(1..Len(Page), P)
    BY <1>2, <1>5 DEF Surjection, Injection, IsInjective
  <2>2. IsFiniteSet(1..Len(Page)) /\ Cardinality(1..Len(Page)) = Len(Page)
    BY <1>2, <1>3, FS_Interval, SMTT(60)
  <2>q. QED BY <2>1, <2>2, FS_Surjection
<1>9. ASSUME ~cut'
      PROVE  /\ Got' = {s \in Matching' : s <= cursor'}
             /\ IsFiniteSet(Got') /\ Len(received') = Cardinality(Got')
  <2>1. /\ Got = {s \in Matching : s <= cursor}
        /\ IsFiniteSet(Got) /\ Len(received) = Cardinality(Got)
    BY <1>1, <1>9 DEF ReaderInv
  <2>2. order = "asc" \/ Len(Page) < PageLimit
    <3>1. order \in {"asc", "desc"} /\ ~(order = "desc" /\ Len(Page) = PageLimit)
      BY <1>1, <1>9 DEF ReaderInv
    <3>2. Len(Page) <= PageLimit
      BY <1>2, <1>3
    <3>q. QED BY <1>3, <3>1, <3>2
  <2>3. Matching' = Matching
    BY <1>1 DEF Matching
  <2>4. Newest \in Int /\ cursor \in Int /\ cursor < Newest /\ Matching \subseteq Nat
    BY <1>2, <1>3, <1>4 DEF ReaderInv, Unread, Matching
  <2>5. P = {s \in Unread : s <= Newest}
    BY <1>2, <2>2
  <2>6. Got \union P = {s \in Matching : s <= Newest} /\ Got \cap P = {}
    <3>1. ASSUME NEW s \in Matching
          PROVE  /\ s <= Newest <=> s <= cursor \/ (s > cursor /\ s <= Newest)
                 /\ ~(s <= cursor /\ s > cursor)
      <4>1. s \in Int /\ Newest \in Int /\ cursor \in Int /\ cursor < Newest
        BY <2>4
      <4>q. QED BY <4>1
    <3>2. P = {s \in Matching : s > cursor /\ s <= Newest}
      BY <2>5 DEF Unread
    <3>q. QED BY <2>1, <3>1, <3>2
  <2>7. Cardinality(Got \union P) = Len(received) + Len(Page) /\ IsFiniteSet(Got \union P)
    <3>1. Cardinality(Got \union P) = Cardinality(Got) + Cardinality(P) - Cardinality(Got \cap P)
      BY <1>8, <2>1, FS_Union
    <3>2. IsFiniteSet(Got \union P)
      BY <1>8, <2>1, FS_Union
    <3>3. Cardinality(Got \cap P) = 0
      BY <2>6, FS_EmptySet
    <3>q. QED BY <1>0, <1>3, <1>8, <2>1, <3>1, <3>2, <3>3
  <2>q. QED BY <1>1, <1>6, <1>7, <2>3, <2>6, <2>7
<1>10. cursor' \in -1..Len(auditLog') - 1 /\ cut' \in BOOLEAN
  <2>1. Newest \in 0..Len(auditLog) - 1 /\ auditLog' = auditLog /\ cut \in BOOLEAN
    BY <1>1, <1>2, <1>4 DEF ReaderInv
  <2>2. cut' \in BOOLEAN
    BY <1>1, <2>1
  <2>q. QED BY <1>1, <1>3, <2>1, <2>2
<1>q. QED BY <1>1, <1>6, <1>9, <1>10 DEF ReaderInv

LEMMA AppendEntryHolds ==
  ASSUME ReaderInv, AppendEntry
  PROVE  ReaderInv'
<1>1. PICK e : /\ auditLog' = Append(auditLog, e) /\ e.sequence = Len(auditLog)
               /\ UNCHANGED <<wanted, order, received, cursor, cut>>
  <2>1. PICK ending \in {"success", "denied"} : auditLog' = Appended(auditLog, [outcome |-> ending])
    BY DEF AppendEntry
  <2> DEFINE content == [outcome |-> ending]
             previous == LinkAt(auditLog, Len(auditLog))
             hash == HashOf(Len(auditLog), content, previous)
             e == [sequence |-> Len(auditLog), content |-> content, previousHash |-> previous,
                   contentHash |-> hash]
  <2>2. Appended(auditLog, content) = Append(auditLog, e)
    BY DEF Appended
  <2>3. e.sequence = Len(auditLog)
    OBVIOUS
  <2>q. QED BY <2>1, <2>2, <2>3 DEF AppendEntry
<1>2. /\ Len(auditLog) \in Nat /\ Len(auditLog') = Len(auditLog) + 1
      /\ DOMAIN auditLog' = 1..Len(auditLog) + 1
      /\ \A i \in 1..Len(auditLog) : auditLog'[i] = auditLog[i]
      /\ auditLog'[Len(auditLog) + 1] = e
  BY <1>1 DEF ReaderInv
<1>3. \A i \in 1..Len(auditLog') : auditLog'[i].sequence = i - 1
  <2> SUFFICES ASSUME NEW i \in 1..Len(auditLog) + 1 PROVE auditLog'[i].sequence = i - 1
    BY <1>2
  <2>1. CASE i \in 1..Len(auditLog)
    BY <1>2, <2>1 DEF ReaderInv
  <2>2. CASE i = Len(auditLog) + 1
    BY <1>1, <1>2, <2>2
  <2>q. QED BY <1>2, <2>1, <2>2
<1>4. cursor \in -1..Len(auditLog) - 1 /\ cursor' = cursor
  BY <1>1 DEF ReaderInv
<1>5. {s \in Matching' : s <= cursor'} = {s \in Matching : s <= cursor}
  <2>1. ASSUME NEW s \in 0..Len(auditLog), s <= cursor
        PROVE  s \in Matching' <=> s \in Matching
    <3>1. s \in 0..Len(auditLog) - 1 /\ s + 1 \in 1..Len(auditLog)
      BY <1>2, <1>4, <2>1
    <3>2. auditLog'[s + 1] = auditLog[s + 1]
      BY <1>2, <3>1
    <3>q. QED BY <1>1, <1>2, <2>1, <3>1, <3>2 DEF Matching
  <2>2. Matching' \subseteq 0..Len(auditLog) /\ Matching \subseteq 0..Len(auditLog)
    BY <1>2 DEF Matching
  <2>q. QED BY <1>4, <2>1, <2>2
<1>6. Got' = Got
  BY <1>1 DEF Got
<1>q. QED BY <1>1, <1>2, <1>3, <1>4, <1>5, <1>6 DEF ReaderInv

\* The inductive invariant: besides what a reader has, how entries are numbered.
THEOREM ReaderInvariant == ReaderSpec => []ReaderInv
<1>1. ReaderInit => ReaderInv
  <2> SUFFICES ASSUME ReaderInit PROVE ReaderInv
    OBVIOUS
  <2>1. /\ auditLog = <<>> /\ received = <<>> /\ cursor = -1 /\ cut = FALSE
        /\ order \in {"asc", "desc"}
    BY DEF ReaderInit
  <2>2. Len(auditLog) = 0 /\ DOMAIN auditLog = 1..0 /\ Len(received) = 0 /\ received \in Seq(Nat)
    BY <2>1
  <2>3. Got = {} /\ Matching = {}
    BY <2>1, <2>2 DEF Got, Matching
  <2>4. IsFiniteSet(Got) /\ Len(received) = Cardinality(Got)
    BY <2>2, <2>3, FS_EmptySet
  <2>5. cursor \in -1..Len(auditLog) - 1
    BY <2>1, <2>2
  <2>6. Got = {s \in Matching : s <= cursor}
    BY <2>3
  <2>7. \A i \in 1..Len(auditLog) : auditLog[i].sequence = i - 1
    BY <2>2
  <2>8. Len(auditLog) \in Nat /\ DOMAIN auditLog = 1..Len(auditLog)
    BY <2>2
  <2>q. QED BY <2>7, <2>8, <2>1, <2>2, <2>4, <2>5, <2>6 DEF ReaderInv
<1>2. ReaderInv /\ [ReaderNext]_readerVars => ReaderInv'
  <2> SUFFICES ASSUME ReaderInv, [ReaderNext]_readerVars PROVE ReaderInv'
    OBVIOUS
  <2>1. CASE UNCHANGED readerVars
    BY <2>1 DEF readerVars, ReaderInv, Got, Matching
  <2>q. QED BY <2>1, ReadPageHolds, AppendEntryHolds DEF ReaderNext
<1>q. QED BY <1>1, <1>2, PTL DEF ReaderSpec

\* A reader that follows the log has every matching entry up to its cursor, once, and all
\* of them when a page comes back empty, whatever is appended in between.
THEOREM ReaderMissesNothing == ReaderSpec => []PagesMissNothing
<1>1. ReaderInv => PagesMissNothing
  <2> SUFFICES ASSUME ReaderInv, ~cut
               PROVE  LET reached == {received[i] : i \in DOMAIN received}
                          due == {i - 1 : i \in {j \in DOMAIN auditLog :
                                                   auditLog[j].content.outcome \in wanted}}
                      IN /\ reached = {s \in due : s <= cursor}
                         /\ Len(received) = Cardinality(reached)
                         /\ Page = <<>> => reached = due
    BY DEF PagesMissNothing
  <2> DEFINE due == {i - 1 : i \in {j \in DOMAIN auditLog : auditLog[j].content.outcome \in wanted}}
  <2>1. due = Matching
    <3>1. Len(auditLog) \in Nat /\ DOMAIN auditLog = 1..Len(auditLog)
      BY DEF ReaderInv
    <3>2. ASSUME NEW x \in due PROVE x \in Matching
      <4>1. PICK j \in 1..Len(auditLog) : x = j - 1 /\ auditLog[j].content.outcome \in wanted
        BY <3>1, <3>2
      <4>2. x \in 0..Len(auditLog) - 1 /\ x + 1 = j
        BY <3>1, <4>1
      <4>q. QED BY <4>1, <4>2 DEF Matching
    <3>3. ASSUME NEW x \in Matching PROVE x \in due
      <4>1. x + 1 \in 1..Len(auditLog) /\ (x + 1) - 1 = x /\ auditLog[x + 1].content.outcome \in wanted
        BY <3>1, <3>3 DEF Matching
      <4>q. QED BY <3>1, <4>1
    <3>q. QED BY <3>2, <3>3
  <2>2. Got = {s \in Matching : s <= cursor} /\ Len(received) = Cardinality(Got)
    BY DEF ReaderInv
  <2>3. Page = <<>> => Got = Matching
    <3>1. \A s \in Matching : s \in Int /\ cursor \in Int
      BY DEF Matching, ReaderInv
    <3>2. Page = <<>> => \A s \in Matching : ~(s > cursor)
      BY EmptyPage DEF Unread
    <3>q. QED BY <2>2, <3>1, <3>2
  <2>q. QED BY <2>1, <2>2, <2>3 DEF Got
<1>q. QED BY <1>1, ReaderInvariant, PTL

-----------------------------------------------------------------------------
(* PlanValidator: for any plans with unique ids, and any constraints.      *)

\* No set of steps of V in which each one depends on a step of the set.
NoCycleIn(V) == \A S \in (SUBSET V) \ {{}} : \E id \in S : Dependencies(id) \intersect S = {}

SearchCalls == [id : Ids(plan), todo : SUBSET Ids(plan)]

\* The calls of dfs under way are a path of the graph that visits no step twice; what a
\* call has come to is visited, or is what the next call is about.
CallsArePath ==
  /\ \A i, j \in 1..Len(calls) : calls[i].id = calls[j].id => i = j
  /\ \A i \in 1..Len(calls) :
       /\ calls[i].id \notin visited
       /\ calls[i].todo \subseteq Dependencies(calls[i].id)
       /\ i < Len(calls) => calls[i + 1].id \in Dependencies(calls[i].id)
       /\ \A d \in Dependencies(calls[i].id) \ calls[i].todo :
            d \in visited \/ (i < Len(calls) /\ d = calls[i + 1].id)

\* Whoever is visited depends on visited steps only, and on none of them in a cycle.
VisitedIsDone ==
  /\ \A v \in visited : Dependencies(v) \subseteq visited
  /\ NoCycleIn(visited)

\* Until a cycle is found, what the loop over the steps has got through is visited,
\* or is being visited.
LookedIsSeen ==
  verdict # "circular_dependency" =>
    \A i \in 1..looked : plan.steps[i].id \in visited \union visiting

\* What a verdict says of the plan.
VerdictIsTrue ==
  /\ verdict = "none" \/ verdict = checkBefore(plan, cfg) \/ checkBefore(plan, cfg) = "searching"
  /\ verdict \in {"too_many_steps", "too_much_parallelism"} => verdict = checkBefore(plan, cfg)
  /\ verdict = "circular_dependency" => ~Acyclic(plan.steps)
  /\ verdict \notin {"none", "searching", "circular_dependency", "too_many_steps",
                      "too_much_parallelism"} => Acyclic(plan.steps) /\ verdict = checkAfter(plan, cfg)

SearchInv ==
  /\ plan \in PlanInputs /\ cfg \in Constraints
  /\ looked \in 0..Len(plan.steps) /\ visited \subseteq Ids(plan) /\ calls \in Seq(SearchCalls)
  /\ CallsArePath /\ VisitedIsDone /\ LookedIsSeen /\ VerdictIsTrue

LEMMA AcyclicIs == Acyclic(plan.steps) <=> NoCycleIn(Ids(plan))
<1>1. \A S \in SUBSET Ids(plan) : \A id \in S :
        StepOf(plan.steps, id).dependsOn \intersect S = Dependencies(id) \intersect S
  BY DEF Dependencies
<1>q. QED BY <1>1 DEF Acyclic, NoCycleIn, Ids

LEMMA StepOfId ==
  ASSUME NEW id \in Ids(plan)
  PROVE  StepOf(plan.steps, id) \in Steps(plan) /\ StepOf(plan.steps, id).id = id
<1>1. \E i \in DOMAIN plan.steps : plan.steps[i].id = id
  BY DEF Ids, IdsOf
<1>q. QED BY <1>1 DEF StepOf, Steps

LEMMA PlanShape ==
  ASSUME plan \in PlanInputs
  PROVE  /\ Len(plan.steps) \in Nat /\ DOMAIN plan.steps = 1..Len(plan.steps)
         /\ \A i \in 1..Len(plan.steps) : plan.steps[i].id \in Ids(plan)
BY PlanAssumption DEF Ids, IdsOf

\* What remains of a sequence without its last element.
LEMMA FrontOf ==
  ASSUME NEW T, NEW s \in Seq(T), Len(s) > 0
  PROVE  /\ SubSeq(s, 1, Len(s) - 1) \in Seq(T)
         /\ Len(SubSeq(s, 1, Len(s) - 1)) = Len(s) - 1
         /\ DOMAIN SubSeq(s, 1, Len(s) - 1) = 1..Len(s) - 1
         /\ \A i \in 1..Len(s) - 1 : SubSeq(s, 1, Len(s) - 1)[i] = s[i]
<1>1. Len(s) \in Nat /\ DOMAIN s = 1..Len(s) /\ Len(s) - 1 \in Nat
  OBVIOUS
<1>2. \A i \in 1..Len(s) - 1 : i \in 1..Len(s) /\ s[i] \in T
  BY <1>1
<1>q. QED BY <1>1, <1>2

\* What a sequence becomes when one element is replaced.
LEMMA ExceptOf ==
  ASSUME NEW T, NEW s \in Seq(T), NEW k \in 1..Len(s), NEW e \in T
  PROVE  [s EXCEPT ![k] = e] \in Seq(T) /\ Len([s EXCEPT ![k] = e]) = Len(s)
<1>1. Len(s) \in Nat /\ s \in [1..Len(s) -> T]
  OBVIOUS
<1>2. [s EXCEPT ![k] = e] \in [1..Len(s) -> T]
  BY <1>1
<1>q. QED BY <1>1, <1>2

LEMMA CallsShape ==
  ASSUME SearchInv
  PROVE  /\ Len(calls) \in Nat /\ DOMAIN calls = 1..Len(calls)
         /\ calls # <<>> => Len(calls) > 0 /\ Len(calls) \in 1..Len(calls)
         /\ \A i \in 1..Len(calls) : calls[i] \in SearchCalls /\ calls[i].id \in Ids(plan)
<1>1. calls \in Seq(SearchCalls)
  BY DEF SearchInv
<1>2. Len(calls) \in Nat /\ DOMAIN calls = 1..Len(calls) /\ (calls # <<>> => Len(calls) > 0)
  BY <1>1
<1>3. \A i \in 1..Len(calls) : calls[i] \in SearchCalls
  BY <1>1
<1>4. \A c \in SearchCalls : c.id \in Ids(plan)
  BY DEF SearchCalls
<1>q. QED BY <1>2, <1>3, <1>4

LEMMA PlanInitHolds == PlanInit => SearchInv
<1> SUFFICES ASSUME PlanInit PROVE SearchInv
  OBVIOUS
<1>1. /\ plan \in PlanInputs /\ cfg \in Constraints /\ verdict = "none"
      /\ looked = 0 /\ calls = <<>> /\ visited = {}
  BY DEF PlanInit
<1>2. looked \in 0..Len(plan.steps) /\ calls \in Seq(SearchCalls) /\ Len(calls) = 0
  BY <1>1, PlanShape
<1>3. CallsArePath /\ VisitedIsDone /\ LookedIsSeen
  BY <1>1, <1>2 DEF CallsArePath, VisitedIsDone, NoCycleIn, LookedIsSeen
<1>q. QED BY <1>1, <1>2, <1>3 DEF SearchInv, VerdictIsTrue

\* The parts of the invariant that a step that leaves plan and verdict alone keeps.
LEMMA SameVerdict ==
  ASSUME VerdictIsTrue, UNCHANGED <<plan, cfg, verdict>>
  PROVE  VerdictIsTrue'
<1>1. /\ Acyclic(plan.steps)' = Acyclic(plan.steps) /\ checkAfter(plan, cfg)' = checkAfter(plan, cfg)
      /\ checkBefore(plan, cfg)' = checkBefore(plan, cfg)
  OBVIOUS
<1>q. QED BY <1>1 DEF VerdictIsTrue

\* A call closes a cycle when it comes to a step that is being visited.
LEMMA CycleIsFound ==
  ASSUME SearchInv, calls # <<>>, NEW dep \in Innermost.todo, dep \in visiting
  PROVE  ~Acyclic(plan.steps)
<1>1. /\ Len(calls) \in Nat /\ Len(calls) > 0 /\ DOMAIN calls = 1..Len(calls)
      /\ \A i \in 1..Len(calls) : calls[i].id \in Ids(plan)
  BY CallsShape
<1>2. PICK k \in 1..Len(calls) : dep = calls[k].id
  BY <1>1 DEF visiting
<1> DEFINE S == {calls[i].id : i \in k..Len(calls)}
<1>3. S \in (SUBSET Ids(plan)) \ {{}}
  <2>1. k..Len(calls) \subseteq 1..Len(calls) /\ calls[k].id \in S
    BY <1>1, <1>2
  <2>q. QED BY <1>1, <2>1
<1>4. ASSUME NEW id \in S PROVE Dependencies(id) \intersect S # {}
  <2>1. PICK i \in k..Len(calls) : id = calls[i].id
    BY <1>4
  <2>2. CASE i = Len(calls)
    <3>1. dep \in Dependencies(id)
      BY <1>1, <2>1, <2>2 DEF SearchInv, CallsArePath, Innermost
    <3>2. dep \in S
      BY <1>1, <1>2
    <3>q. QED BY <3>1, <3>2
  <2>3. CASE i < Len(calls)
    <3>1. i \in 1..Len(calls) /\ i + 1 \in k..Len(calls)
      BY <1>1, <1>2, <2>1, <2>3
    <3>2. calls[i + 1].id \in Dependencies(id)
      BY <2>1, <2>3, <3>1 DEF SearchInv, CallsArePath
    <3>q. QED BY <3>1, <3>2
  <2>4. i = Len(calls) \/ i < Len(calls)
    <3>1. PICK n \in Nat : n = Len(calls)
      BY <1>1
    <3>2. k \in 1..n /\ i \in k..n
      BY <1>2, <2>1, <3>1
    <3>3. i = n \/ i < n
      BY <3>2
    <3>q. QED BY <3>1, <3>3
  <2>q. QED BY <2>2, <2>3, <2>4
<1>q. QED BY <1>3, <1>4, AcyclicIs DEF NoCycleIn

\* What is visited after a call returns has no cycle, since what the call depends on
\* was visited before.
LEMMA ReturnIsDone ==
  ASSUME SearchInv, SearchReturns
  PROVE  VisitedIsDone'
<1> DEFINE x == Innermost.id
<1>1. /\ Len(calls) \in Nat /\ Len(calls) > 0 /\ visited' = visited \union {x} /\ plan' = plan
      /\ Innermost.todo = {} /\ Len(calls) \in 1..Len(calls)
  BY DEF SearchInv, SearchReturns
<1>2. x \notin visited /\ Dependencies(x) \subseteq visited
  BY <1>1 DEF SearchInv, CallsArePath, Innermost
<1>3. \A v \in visited : Dependencies(v) \subseteq visited
  BY DEF SearchInv, VisitedIsDone
<1>4. ASSUME NEW S \in (SUBSET visited') \ {{}}
      PROVE  \E id \in S : Dependencies(id) \intersect S = {}
  <2>1. CASE S \ {x} = {}
    BY <1>1, <1>2, <2>1
  <2>2. CASE S \ {x} # {}
    <3>1. PICK id \in S \ {x} : Dependencies(id) \intersect (S \ {x}) = {}
      BY <1>1, <2>2 DEF SearchInv, VisitedIsDone, NoCycleIn
    <3>2. x \notin Dependencies(id)
      BY <1>1, <1>2, <1>3, <3>1
    <3>q. QED BY <3>1, <3>2
  <2>q. QED BY <2>1, <2>2
<1>5. \A id : Dependencies(id)' = Dependencies(id)
  BY <1>1 DEF Dependencies
<1>q. QED BY <1>1, <1>2, <1>3, <1>4, <1>5 DEF VisitedIsDone, NoCycleIn

LEMMA ReturnHolds ==
  ASSUME SearchInv, SearchReturns
  PROVE  SearchInv'
<1> DEFINE n == Len(calls)
<1>1. /\ n \in Nat /\ n > 0 /\ visited' = visited \union {calls[n].id}
      /\ calls' = SubSeq(calls, 1, n - 1) /\ calls \in Seq(SearchCalls)
      /\ UNCHANGED <<plan, cfg, verdict, looked>> /\ verdict = "searching"
  BY DEF SearchInv, SearchReturns, Innermost
<1>2. /\ calls' \in Seq(SearchCalls) /\ Len(calls') = n - 1
      /\ \A i \in 1..n - 1 : calls'[i] = calls[i]
      /\ DOMAIN calls = 1..n /\ DOMAIN calls' = 1..n - 1
  BY <1>1, FrontOf, CallsShape
<1>3. calls[n] \in SearchCalls /\ calls[n].id \in Ids(plan)
  BY <1>1, CallsShape
<1>4. SearchCalls' = SearchCalls /\ (\A id : Dependencies(id)' = Dependencies(id)) /\ Ids(plan)' = Ids(plan)
  BY <1>1 DEF SearchCalls, Dependencies
<1>5. CallsArePath'
  <2>1. \A i, j \in 1..n - 1 : calls'[i].id = calls'[j].id => i = j
    BY <1>1, <1>2 DEF SearchInv, CallsArePath
  <2>2. ASSUME NEW i \in 1..n - 1
        PROVE  /\ calls'[i].id \notin visited'
               /\ calls'[i].todo \subseteq Dependencies(calls'[i].id)
               /\ i < n - 1 => calls'[i + 1].id \in Dependencies(calls'[i].id)
               /\ \A d \in Dependencies(calls'[i].id) \ calls'[i].todo :
                    d \in visited' \/ (i < n - 1 /\ d = calls'[i + 1].id)
    <3>0. i \in 1..n /\ i # n /\ n \in 1..n /\ i < n /\ (i < n - 1 => i + 1 \in 1..n - 1)
      BY <1>1
    <3>1. calls'[i] = calls[i]
      BY <1>2
    <3>2. calls[i].id # calls[n].id /\ calls[i].id \notin visited
      BY <3>0 DEF SearchInv, CallsArePath
    <3>3. i < n - 1 => calls'[i + 1] = calls[i + 1]
      BY <1>2, <3>0
    <3>4. /\ calls[i].todo \subseteq Dependencies(calls[i].id)
          /\ calls[i + 1].id \in Dependencies(calls[i].id)
          /\ \A d \in Dependencies(calls[i].id) \ calls[i].todo : d \in visited \/ d = calls[i + 1].id
      BY <3>0 DEF SearchInv, CallsArePath
    <3>5. i < n - 1 \/ i + 1 = n
      BY <1>1, <3>0
    <3>q. QED BY <1>1, <3>1, <3>2, <3>3, <3>4, <3>5
  <2>q. QED BY <1>2, <1>4, <2>1, <2>2 DEF CallsArePath
<1>6. LookedIsSeen'
  <2>1. visiting' \union {calls[n].id} = visiting
    <3>1. \A i \in 1..n : i \in 1..n - 1 \/ i = n
      BY <1>1
    <3>2. \A i \in 1..n - 1 : i \in 1..n
      BY <1>1
    <3>3. n \in 1..n
      BY <1>1
    <3>q. QED BY <1>2, <3>1, <3>2, <3>3 DEF visiting
  <2>q. QED BY <1>1, <2>1 DEF SearchInv, LookedIsSeen
<1>7. VisitedIsDone' /\ VerdictIsTrue'
  BY <1>1, ReturnIsDone, SameVerdict DEF SearchInv
<1>8. plan' \in PlanInputs /\ cfg' \in Constraints /\ looked' \in 0..Len(plan'.steps)
      /\ visited' \subseteq Ids(plan)' /\ calls' \in Seq(SearchCalls)'
  BY <1>1, <1>2, <1>3, <1>4 DEF SearchInv
<1>q. QED BY <1>5, <1>6, <1>7, <1>8 DEF SearchInv

\* What remains when the innermost call has come to a dependency that is visited or
\* about to be.
LEMMA DependencyIsLookedAt ==
  ASSUME SearchInv, SearchDeeper, verdict' = verdict
  PROVE  \E dep \in Innermost.todo, left \in Seq(SearchCalls) :
           /\ dep \notin visiting /\ dep \in Ids(plan)
           /\ calls' = IF dep \in visited THEN left ELSE Append(left, DfsCall(dep))
           /\ Len(left) = Len(calls)
           /\ \A i \in 1..Len(calls) : left[i].id = calls[i].id
           /\ \A i \in 1..Len(calls) - 1 : left[i] = calls[i]
           /\ left[Len(calls)].todo = Innermost.todo \ {dep}
<1>1. verdict = "searching" /\ calls # <<>>
  BY DEF SearchDeeper
<1>2. PICK dep \in Innermost.todo : LookAt(dep)
  BY DEF SearchDeeper
<1> DEFINE left == [calls EXCEPT ![Len(calls)].todo = @ \ {dep}]
<1>3. dep \notin visiting /\ calls' = IF dep \in visited THEN left ELSE Append(left, DfsCall(dep))
  BY <1>1, <1>2 DEF LookAt
<1>4. /\ Len(calls) \in Nat /\ DOMAIN calls = 1..Len(calls) /\ Len(calls) \in 1..Len(calls)
      /\ \A i \in 1..Len(calls) : calls[i] \in SearchCalls
      /\ calls \in Seq(SearchCalls)
  BY <1>1, CallsShape DEF SearchInv
<1>0. PICK n \in Nat : n = Len(calls) /\ n \in 1..n
  BY <1>4
<1>5. PICK c \in SearchCalls : c = Innermost
  BY <1>4 DEF Innermost
<1>6. dep \in Ids(plan) /\ [c EXCEPT !.todo = @ \ {dep}] \in SearchCalls
      /\ [c EXCEPT !.todo = @ \ {dep}].id = c.id /\ [c EXCEPT !.todo = @ \ {dep}].todo = c.todo \ {dep}
  BY <1>5 DEF SearchCalls
<1>7. left = [calls EXCEPT ![Len(calls)] = [c EXCEPT !.todo = @ \ {dep}]]
  BY <1>4, <1>5 DEF Innermost
<1>8. left \in Seq(SearchCalls) /\ Len(left) = Len(calls)
  <2>1. PICK e \in SearchCalls : left = [calls EXCEPT ![n] = e]
    BY <1>0, <1>6, <1>7
  <2>2. n \in 1..Len(calls) /\ calls \in Seq(SearchCalls)
    BY <1>0, <1>4
  <2>3. [calls EXCEPT ![n] = e] \in Seq(SearchCalls) /\ Len([calls EXCEPT ![n] = e]) = Len(calls)
    BY <2>2, ExceptOf
  <2>q. QED BY <2>1, <2>3
<1>9. left[n] = [c EXCEPT !.todo = @ \ {dep}] /\ \A i \in 1..n - 1 : left[i] = calls[i]
  <2>1. PICK e : e = [c EXCEPT !.todo = @ \ {dep}] /\ left = [calls EXCEPT ![n] = e]
    BY <1>0, <1>7
  <2>2. \A i \in 1..n - 1 : i \in 1..n /\ i # n
    BY <1>0
  <2>q. QED BY <1>0, <1>4, <2>1, <2>2
<1>10. \A i \in 1..Len(calls) : left[i].id = calls[i].id
  <2> SUFFICES ASSUME NEW i \in 1..Len(calls) PROVE left[i].id = calls[i].id
    OBVIOUS
  <2>1. i = n \/ i \in 1..n - 1
    BY <1>0
  <2>q. QED BY <1>0, <1>5, <1>6, <1>9, <2>1 DEF Innermost
<1> HIDE DEF left
<1>11. left[Len(calls)].todo = Innermost.todo \ {dep}
  BY <1>0, <1>5, <1>6, <1>9
<1>12. \A i \in 1..Len(calls) - 1 : left[i] = calls[i]
  BY <1>0, <1>9
<1>q. QED BY <1>3, <1>6, <1>8, <1>10, <1>11, <1>12

LEMMA DeeperHolds ==
  ASSUME SearchInv, SearchDeeper, verdict' = verdict
  PROVE  SearchInv'
<1>1. PICK dep \in Innermost.todo, left \in Seq(SearchCalls) :
           /\ dep \notin visiting /\ dep \in Ids(plan)
           /\ calls' = IF dep \in visited THEN left ELSE Append(left, DfsCall(dep))
           /\ Len(left) = Len(calls)
           /\ \A i \in 1..Len(calls) : left[i].id = calls[i].id
           /\ \A i \in 1..Len(calls) - 1 : left[i] = calls[i]
           /\ left[Len(calls)].todo = Innermost.todo \ {dep}
  BY DependencyIsLookedAt
<1>2. UNCHANGED <<plan, cfg, verdict, looked, visited>> /\ calls # <<>>
  BY DEF SearchDeeper
<1>0. PICK n \in Nat : n = Len(calls) /\ n \in 1..n
  BY <1>2, CallsShape
<1>3. DOMAIN calls = 1..n /\ DOMAIN left = 1..n
  BY <1>0, <1>1, <1>2, CallsShape
<1>12. /\ \A i \in 1..n : left[i].id = calls[i].id
       /\ \A i \in 1..n - 1 : left[i] = calls[i]
       /\ left[n].todo = calls[n].todo \ {dep} /\ dep \in calls[n].todo
       /\ left \in Seq(SearchCalls) /\ Len(left) = n
  BY <1>0, <1>1 DEF Innermost
<1>13. /\ \A i, j \in 1..n : calls[i].id = calls[j].id => i = j
       /\ \A i \in 1..n :
             /\ calls[i].id \notin visited /\ calls[i].todo \subseteq Dependencies(calls[i].id)
             /\ i < n => calls[i + 1].id \in Dependencies(calls[i].id)
             /\ \A d \in Dependencies(calls[i].id) \ calls[i].todo :
                  d \in visited \/ (i < n /\ d = calls[i + 1].id)
  BY <1>0 DEF SearchInv, CallsArePath
<1>4. SearchCalls' = SearchCalls /\ (\A id : Dependencies(id)' = Dependencies(id)) /\ Ids(plan)' = Ids(plan)
  BY <1>2 DEF SearchCalls, Dependencies
<1>5. dep \in Dependencies(calls[n].id)
  BY <1>0, <1>12, <1>13
<1>6. \A i, j \in 1..n : left[i].id = left[j].id => i = j
  BY <1>12, <1>13
<1>7. ASSUME NEW i \in 1..n
      PROVE  /\ left[i].id \notin visited
             /\ left[i].todo \subseteq Dependencies(left[i].id)
             /\ i < n => left[i + 1].id \in Dependencies(left[i].id)
             /\ \A d \in Dependencies(left[i].id) \ left[i].todo :
                  d \in visited \/ (i < n /\ d = left[i + 1].id) \/ (i = n /\ d = dep)
  <2>1. /\ calls[i].id \notin visited /\ calls[i].todo \subseteq Dependencies(calls[i].id)
        /\ i < n => calls[i + 1].id \in Dependencies(calls[i].id)
        /\ \A d \in Dependencies(calls[i].id) \ calls[i].todo :
             d \in visited \/ (i < n /\ d = calls[i + 1].id)
    BY <1>13
  <2>2. left[i].id = calls[i].id
    BY <1>12
  <2>3. CASE i = n
    BY <1>12, <2>1, <2>2, <2>3
  <2>4. CASE i # n
    <3>1. i \in 1..n - 1 /\ i + 1 \in 1..n
      BY <1>0, <2>4
    <3>2. left[i] = calls[i] /\ left[i + 1].id = calls[i + 1].id
      BY <1>12, <3>1
    <3>q. QED BY <2>1, <2>4, <3>2
  <2>q. QED BY <2>3, <2>4
<1>8. VisitedIsDone' /\ VerdictIsTrue'
  <2>1. VisitedIsDone'
    BY <1>2, <1>4 DEF SearchInv, VisitedIsDone, NoCycleIn
  <2>q. QED BY <1>2, <2>1, SameVerdict DEF SearchInv
<1>9. /\ plan' \in PlanInputs /\ cfg' \in Constraints /\ looked' \in 0..Len(plan'.steps)
      /\ visited' \subseteq Ids(plan)'
  BY <1>2, <1>4 DEF SearchInv
<1>10. CASE dep \in visited
  <2>1. calls' = left
    BY <1>1, <1>10
  <2>2. CallsArePath'
    BY <1>2, <1>4, <1>6, <1>7, <1>10, <1>12, <2>1 DEF CallsArePath
  <2>3. visiting' = visiting
    BY <1>3, <1>12, <2>1 DEF visiting
  <2>4. LookedIsSeen'
    BY <1>2, <2>3 DEF SearchInv, LookedIsSeen
  <2>q. QED BY <1>1, <1>4, <1>8, <1>9, <2>1, <2>2, <2>4 DEF SearchInv
<1>11. CASE dep \notin visited
  <2>1. DfsCall(dep) \in SearchCalls /\ DfsCall(dep).id = dep /\ DfsCall(dep).todo = Dependencies(dep)
    BY <1>1 DEF DfsCall, SearchCalls, Dependencies
  <2>2. PICK c \in SearchCalls : c = DfsCall(dep)
    BY <2>1
  <2>3. calls' = Append(left, c)
    BY <1>1, <1>11, <2>2
  <2>4. /\ calls' \in Seq(SearchCalls) /\ Len(calls') = n + 1 /\ calls'[n + 1] = c
        /\ \A i \in 1..n : calls'[i] = left[i]
        /\ DOMAIN calls' = 1..n + 1
    BY <1>12, <2>3
  <2>5. \A i \in 1..n : left[i].id # dep
    BY <1>1, <1>3, <1>12 DEF visiting
  <2>6. \A i \in 1..n + 1 : i \in 1..n \/ i = n + 1
    BY <1>0
  <2>7. \A i, j \in 1..n + 1 : calls'[i].id = calls'[j].id => i = j
    BY <1>6, <2>1, <2>2, <2>4, <2>5, <2>6
  <2>8. ASSUME NEW i \in 1..n + 1
        PROVE  /\ calls'[i].id \notin visited
               /\ calls'[i].todo \subseteq Dependencies(calls'[i].id)
               /\ i < n + 1 => calls'[i + 1].id \in Dependencies(calls'[i].id)
               /\ \A d \in Dependencies(calls'[i].id) \ calls'[i].todo :
                    d \in visited \/ (i < n + 1 /\ d = calls'[i + 1].id)
    <3>1. CASE i = n + 1
      BY <1>0, <1>11, <2>1, <2>2, <2>4, <3>1
    <3>2. CASE i = n
      <4>1. calls'[i] = left[n] /\ calls'[i + 1].id = dep /\ left[n].id = calls[n].id /\ i < n + 1
        BY <1>0, <1>12, <2>1, <2>2, <2>4, <3>2
      <4>2. /\ left[n].id \notin visited /\ left[n].todo \subseteq Dependencies(left[n].id)
            /\ \A d \in Dependencies(left[n].id) \ left[n].todo : d \in visited \/ d = dep
        BY <1>0, <1>7
      <4>q. QED BY <1>5, <4>1, <4>2
    <3>3. CASE i \in 1..n - 1
      <4>1. i \in 1..n /\ i + 1 \in 1..n /\ i < n /\ i < n + 1 /\ i # n
        BY <1>0, <3>3
      <4>2. calls'[i] = left[i] /\ calls'[i + 1] = left[i + 1]
        BY <2>4, <4>1
      <4>q. QED BY <1>7, <4>1, <4>2
    <3>4. i \in 1..n - 1 \/ i = n \/ i = n + 1
      BY <1>0
    <3>q. QED BY <3>1, <3>2, <3>3, <3>4
  <2>9. CallsArePath'
    BY <1>2, <1>4, <2>4, <2>7, <2>8 DEF CallsArePath
  <2>10. visiting \subseteq visiting'
    <3>1. \A i \in 1..n : i \in 1..n + 1 /\ calls'[i].id = calls[i].id
      BY <1>0, <1>12, <2>4
    <3>q. QED BY <1>3, <2>4, <3>1 DEF visiting
  <2>11. LookedIsSeen'
    BY <1>2, <2>10 DEF SearchInv, LookedIsSeen
  <2>q. QED BY <1>4, <1>8, <1>9, <2>4, <2>9, <2>11 DEF SearchInv
<1>q. QED BY <1>10, <1>11

LEMMA CycleHolds ==
  ASSUME SearchInv, SearchDeeper, verdict' # verdict
  PROVE  SearchInv'
<1>1. /\ calls # <<>> /\ UNCHANGED <<plan, cfg, looked, visited>> /\ verdict = "searching"
      /\ \E dep \in Innermost.todo :
           dep \in visiting /\ verdict' = "circular_dependency" /\ calls' = <<>>
  BY DEF SearchDeeper, LookAt
<1>2. ~Acyclic(plan.steps) /\ calls' = <<>> /\ verdict' = "circular_dependency"
  BY <1>1, CycleIsFound
<1>3. SearchCalls' = SearchCalls /\ (\A id : Dependencies(id)' = Dependencies(id)) /\ Ids(plan)' = Ids(plan)
  BY <1>1 DEF SearchCalls, Dependencies
<1>4. calls' \in Seq(SearchCalls)' /\ Len(calls') = 0
  BY <1>2
<1>5. CallsArePath' /\ LookedIsSeen'
  BY <1>2, <1>4 DEF CallsArePath, LookedIsSeen
<1>6. VisitedIsDone'
  BY <1>1, <1>3 DEF SearchInv, VisitedIsDone, NoCycleIn
<1>7. VerdictIsTrue'
  <2>1. checkBefore(plan, cfg)' = checkBefore(plan, cfg) /\ Acyclic(plan.steps)' = Acyclic(plan.steps)
    BY <1>1
  <2>2. checkBefore(plan, cfg) = "searching"
    BY <1>1 DEF SearchInv, VerdictIsTrue
  <2>q. QED BY <1>2, <2>1, <2>2 DEF VerdictIsTrue
<1>q. QED BY <1>1, <1>3, <1>4, <1>5, <1>6, <1>7 DEF SearchInv

LEMMA NextHolds ==
  ASSUME SearchInv, SearchNext
  PROVE  SearchInv'
<1>1. /\ verdict = "searching" /\ calls = <<>> /\ looked < Len(plan.steps) /\ looked' = looked + 1
      /\ calls' = (IF plan.steps[looked + 1].id \in visited THEN <<>>
                   ELSE <<DfsCall(plan.steps[looked + 1].id)>>)
      /\ UNCHANGED <<plan, cfg, verdict, visited>>
  BY DEF SearchNext
<1>2. Len(plan.steps) \in Nat /\ looked \in 0..Len(plan.steps)
  BY PlanShape DEF SearchInv
<1>3. looked' \in 0..Len(plan.steps) /\ looked + 1 \in 1..Len(plan.steps)
  BY <1>1, <1>2
<1>4. PICK id \in Ids(plan) : id = plan.steps[looked + 1].id
  BY <1>3, PlanShape DEF SearchInv
<1>20. DfsCall(id) \in SearchCalls /\ DfsCall(id).id = id /\ DfsCall(id).todo = Dependencies(id)
  BY DEF DfsCall, SearchCalls, Dependencies
<1>5. PICK c \in SearchCalls : c = DfsCall(id) /\ c.id = id /\ c.todo = Dependencies(id)
  BY <1>20
<1>6. SearchCalls' = SearchCalls /\ (\A x : Dependencies(x)' = Dependencies(x)) /\ Ids(plan)' = Ids(plan)
  BY <1>1 DEF SearchCalls, Dependencies
<1>7. visiting = {}
  BY <1>1 DEF visiting
<1>8. \A i \in 1..looked + 1 : i \in 1..looked \/ i = looked + 1
  BY <1>2
<1>9. VisitedIsDone' /\ VerdictIsTrue'
  BY <1>1, <1>6, SameVerdict DEF SearchInv, VisitedIsDone, NoCycleIn
<1>10. CASE id \in visited
  <2>1. calls' = <<>> /\ Len(calls') = 0 /\ calls' \in Seq(SearchCalls)
    BY <1>1, <1>4, <1>10
  <2>2. LookedIsSeen'
    BY <1>1, <1>4, <1>7, <1>8, <1>10 DEF SearchInv, LookedIsSeen
  <2>3. CallsArePath'
    BY <2>1 DEF CallsArePath
  <2>4. calls' \in Seq(SearchCalls)'
    BY <1>6, <2>1
  <2>5. (plan \in PlanInputs /\ cfg \in Constraints /\ looked \in 0..Len(plan.steps)
           /\ visited \subseteq Ids(plan))'
    BY <1>1, <1>3, <1>6 DEF SearchInv
  <2>q. QED BY <1>9, <2>2, <2>3, <2>4, <2>5 DEF SearchInv
<1>11. CASE id \notin visited
  <2>1. calls' = <<c>> /\ Len(calls') = 1 /\ calls' \in Seq(SearchCalls) /\ calls'[1] = c /\ DOMAIN calls' = {1}
    BY <1>1, <1>4, <1>5, <1>11
  <2>2. \A i \in 1..1 : i = 1 /\ ~(i < 1)
    OBVIOUS
  <2>3. CallsArePath'
    BY <1>1, <1>5, <1>6, <1>11, <2>1, <2>2, ZenonT(60) DEF CallsArePath
  <2>4. id \in visiting'
    BY <1>5, <2>1 DEF visiting
  <2>5. LookedIsSeen'
    BY <1>1, <1>4, <1>7, <1>8, <2>4 DEF SearchInv, LookedIsSeen
  <2>q. QED BY <1>1, <1>3, <1>6, <1>9, <2>1, <2>3, <2>5 DEF SearchInv
<1>q. QED BY <1>10, <1>11

LEMMA CheckValues ==
  /\ checkBefore(plan, cfg) \in {"too_many_steps", "too_much_parallelism", "searching"}
  /\ checkAfter(plan, cfg) \in {"missing_dependency", "invalid_residence", "unauthorized_capability",
                                "unauthorized_escalation", "valid"}
<1>1. \A s : validateStep(s, cfg) \in {"invalid_residence", "unauthorized_capability", "valid"}
  BY DEF validateStep
<1>2. checkSteps(plan, cfg) \in {"invalid_residence", "unauthorized_capability", "valid"}
  BY <1>1 DEF checkSteps
<1>q. QED BY <1>2 DEF checkBefore, checkAfter

\* When the search is over every step is visited, so there is no cycle.
LEMMA EndHolds ==
  ASSUME SearchInv, EndValidation
  PROVE  SearchInv'
<1>1. /\ verdict = "searching" /\ calls = <<>> /\ looked = Len(plan.steps)
      /\ verdict' = checkAfter(plan, cfg) /\ UNCHANGED <<plan, cfg, looked, calls, visited>>
  BY DEF EndValidation, searchVars
<1>2. visiting = {}
  BY <1>1 DEF visiting
<1>3. Ids(plan) \subseteq visited
  BY <1>1, <1>2, PlanShape DEF SearchInv, LookedIsSeen, Ids, IdsOf
<1>4. Acyclic(plan.steps)
  BY <1>3, AcyclicIs DEF SearchInv, VisitedIsDone, NoCycleIn
<1>5. /\ checkBefore(plan, cfg)' = checkBefore(plan, cfg) /\ Acyclic(plan.steps)' = Acyclic(plan.steps)
      /\ checkAfter(plan, cfg)' = checkAfter(plan, cfg) /\ checkBefore(plan, cfg) = "searching"
  BY <1>1 DEF SearchInv, VerdictIsTrue
<1>6. VerdictIsTrue'
  BY <1>1, <1>4, <1>5, CheckValues DEF VerdictIsTrue
<1>7. SearchCalls' = SearchCalls /\ (\A x : Dependencies(x)' = Dependencies(x)) /\ Ids(plan)' = Ids(plan)
  BY <1>1 DEF SearchCalls, Dependencies
<1>8. CallsArePath' /\ VisitedIsDone' /\ LookedIsSeen'
  BY <1>1, <1>2, <1>3, <1>7, PlanShape
     DEF SearchInv, CallsArePath, VisitedIsDone, NoCycleIn, LookedIsSeen, visiting
<1>q. QED BY <1>1, <1>6, <1>7, <1>8 DEF SearchInv

\* Steps that leave the search alone.
LEMMA OthersHold ==
  ASSUME SearchInv, UNCHANGED <<plan, cfg, looked, calls, visited>>,
         verdict' = verdict \/ (verdict = "none" /\ verdict' = checkBefore(plan, cfg))
  PROVE  SearchInv'
<1>1. VerdictIsTrue'
  <2>1. CASE verdict' = verdict
    BY <2>1, SameVerdict DEF SearchInv
  <2>2. CASE verdict' = checkBefore(plan, cfg)
    <3>1. checkBefore(plan, cfg)' = checkBefore(plan, cfg)
      OBVIOUS
    <3>q. QED BY <2>2, <3>1, CheckValues DEF VerdictIsTrue
  <2>q. QED BY <2>1, <2>2
<1>2. SearchCalls' = SearchCalls /\ (\A x : Dependencies(x)' = Dependencies(x)) /\ Ids(plan)' = Ids(plan)
  BY DEF SearchCalls, Dependencies
<1>3. visiting' = visiting
  BY DEF visiting
<1>4. LookedIsSeen'
  BY <1>3 DEF SearchInv, LookedIsSeen
<1>5. CallsArePath' /\ VisitedIsDone'
  BY <1>2 DEF SearchInv, CallsArePath, VisitedIsDone, NoCycleIn
<1>q. QED BY <1>1, <1>2, <1>4, <1>5 DEF SearchInv

\* The inductive invariant of the validator's search: the calls under way are a path
\* without repetition, and what is visited is closed and without a cycle.
THEOREM SearchInvariant == PlanSpec => []SearchInv
<1>1. SearchInv /\ [PlanNext]_planVars => SearchInv'
  <2> SUFFICES ASSUME SearchInv, [PlanNext]_planVars PROVE SearchInv'
    OBVIOUS
  <2>1. CASE SearchDeeper
    BY <2>1, DeeperHolds, CycleHolds
  <2>2. CASE SearchNext \/ SearchReturns \/ EndValidation
    BY <2>2, NextHolds, ReturnHolds, EndHolds
  <2>3. CASE BeginValidation \/ RunBatch \/ UNCHANGED planVars
    BY <2>3, OthersHold DEF BeginValidation, RunBatch, planVars, searchVars
  <2>q. QED BY <2>1, <2>2, <2>3 DEF PlanNext, Validate
<1>q. QED BY <1>1, PlanInitHolds, PTL DEF PlanSpec

\* The depth-first search reports a cycle exactly if there is one, on any graph.
THEOREM SearchIsCorrect == PlanSpec => []SearchFindsCycles
<1>1. SearchInv => SearchFindsCycles
  BY DEF SearchInv, VerdictIsTrue, SearchFindsCycles
<1>q. QED BY <1>1, SearchInvariant, PTL

\* A plan that the validator accepts has no missing dependency and no cycle.
LEMMA ValidIsExecutable ==
  ASSUME SearchInv, verdict = "valid"
  PROVE  NoCycleIn(Ids(plan)) /\ \A s \in Steps(plan) : s.dependsOn \subseteq Ids(plan)
<1>1. Acyclic(plan.steps) /\ checkAfter(plan, cfg) = "valid"
  BY DEF SearchInv, VerdictIsTrue
<1>q. QED BY <1>1, AcyclicIs DEF checkAfter, checkMissingDependencies

\* The executor runs every step of a plan that the validator accepts: the steps left
\* would otherwise depend on each other in a cycle.
THEOREM ValidPlansRun == PlanSpec => []ValidPlanRunsEveryStep
<1>1. SearchInv => ValidPlanRunsEveryStep
  <2> SUFFICES ASSUME SearchInv, verdict = "valid", Ready = {}, Completed # Ids(plan) PROVE FALSE
    BY DEF ValidPlanRunsEveryStep
  <2>1. Ids(plan) \ Completed \in (SUBSET Ids(plan)) \ {{}}
    BY DEF Completed
  <2>2. PICK id \in Ids(plan) \ Completed : Dependencies(id) \intersect (Ids(plan) \ Completed) = {}
    BY <2>1, ValidIsExecutable DEF NoCycleIn
  <2>3. StepOf(plan.steps, id) \in Steps(plan) /\ StepOf(plan.steps, id).id = id
    BY StepOfId
  <2>4. StepOf(plan.steps, id).dependsOn \subseteq Completed
    BY <2>2, <2>3, ValidIsExecutable DEF Dependencies
  <2>q. QED BY <2>2, <2>3, <2>4 DEF Ready
<1>q. QED BY <1>1, SearchInvariant, PTL

LEMMA StepsAreFinite ==
  ASSUME plan \in PlanInputs
  PROVE  IsFiniteSet(Steps(plan))
<1> DEFINE n == Len(plan.steps)
           f == [i \in 1..n |-> plan.steps[i]]
<1>1. n \in Nat /\ DOMAIN plan.steps = 1..n
  BY PlanShape
<1>2. f \in Surjection(1..n, Steps(plan))
  BY <1>1 DEF Steps, Surjection
<1>3. IsFiniteSet(1..n)
  <2>1. 1 \in Int /\ n \in Int
    BY <1>1
  <2>q. QED BY <2>1, FS_Interval
<1> HIDE DEF f
<1>q. QED BY <1>2, <1>3, FS_Surjection

\* The validator counts by dependencies, so that a batch of the executor is counted
\* in full when its parallel steps have the same ones.
THEOREM BatchesAreCounted == PlanSpec => []OnlyMixedBatchesExceed
<1> DEFINE batch == {s \in Ready : s.parallel}
<1>1. SearchInv => OnlyMixedBatchesExceed
  <2> SUFFICES ASSUME SearchInv, verdict = "valid", Cardinality(batch) > cfg.maxParallelism,
                      \A s, t \in batch : s.dependsOn = t.dependsOn
               PROVE  FALSE
    BY DEF OnlyMixedBatchesExceed
  <2>1. cfg.maxParallelism \in Nat /\ checkParallelism(plan, cfg.maxParallelism)
    BY PlanAssumption DEF SearchInv, VerdictIsTrue, checkBefore
  <2>2. batch \subseteq Steps(plan) /\ \A s \in batch : s.parallel
    BY DEF Ready
  <2>3. batch # {}
    <3>1. SUFFICES ASSUME batch = {} PROVE FALSE
      OBVIOUS
    <3>2. Cardinality(batch) = 0
      BY <3>1, FS_EmptySet
    <3>q. QED BY <2>1, <3>2
  <2>4. PICK s \in batch : TRUE
    BY <2>3
  <2> DEFINE group == {t \in Steps(plan) : t.dependsOn = s.dependsOn /\ t.parallel}
  <2>5. batch \subseteq group /\ IsFiniteSet(group) /\ IsFiniteSet(batch)
    <3>1. batch \subseteq group
      BY <2>2, <2>4
    <3>2. IsFiniteSet(Steps(plan)) /\ group \subseteq Steps(plan)
      BY StepsAreFinite DEF SearchInv
    <3>3. IsFiniteSet(group)
      BY <3>2, FS_Subset
    <3> HIDE DEF batch, group
    <3>q. QED BY <3>1, <3>3, FS_Subset
  <2>6. Cardinality(group) <= cfg.maxParallelism
    BY <2>1, <2>2, <2>4 DEF checkParallelism
  <2> HIDE DEF batch, group
  <2>7. /\ Cardinality(batch) <= Cardinality(group)
        /\ Cardinality(batch) \in Nat /\ Cardinality(group) \in Nat
    BY <2>5, FS_Subset, FS_CardinalityType
  <2>q. QED BY <2>1, <2>6, <2>7
<1>q. QED BY <1>1, SearchInvariant, PTL

\* The first of the steps that are not valid is one of them.
LEMMA CheckStepsIs ==
  ASSUME plan \in PlanInputs
  PROVE  checkSteps(plan, cfg) = "valid" <=> \A s \in Steps(plan) : validateStep(s, cfg) = "valid"
<1> DEFINE bad == {i \in DOMAIN plan.steps : validateStep(plan.steps[i], cfg) # "valid"}
<1>1. Len(plan.steps) \in Nat /\ DOMAIN plan.steps = 1..Len(plan.steps)
  BY PlanShape
<1>2. CASE bad = {}
  BY <1>2 DEF checkSteps, Steps
<1>3. CASE bad # {}
  <2>1. bad \in SUBSET Nat
    BY <1>1
  <2>2. IsFiniteSet(bad)
    <3>1. IsFiniteSet(1..Len(plan.steps))
      <4>1. 1 \in Int /\ Len(plan.steps) \in Int
        BY <1>1
      <4>q. QED BY <4>1, FS_Interval
    <3>2. bad \subseteq 1..Len(plan.steps)
      BY <1>1
    <3>q. QED BY <3>1, <3>2, FS_Subset
  <2>3. Min(bad) \in bad
    BY <1>3, <2>1, <2>2, LeastExists DEF Min
  <2>4. PICK i \in bad : i = Min(bad)
    BY <2>3
  <2>5. checkSteps(plan, cfg) = validateStep(plan.steps[i], cfg)
    BY <1>3, <2>4 DEF checkSteps
  <2>q. QED BY <2>4, <2>5 DEF Steps
<1>q. QED BY <1>2, <1>3

-----------------------------------------------------------------------------
(* Skills: the loops of loadInheritedSkills are folds.  A fold is the function     *)
(* that satisfies its equation: one that does is exhibited, and no other can differ *)
(* from it, since there would be a smallest set of positions where it does.        *)

\* The indices in T that name the skill.
Naming(file, T, id) == {i \in T : file[i].id = id}
IdsIn(file, T) == {file[i].id : i \in T} \ {0}

\* The map after the elements at the positions in T.
MapAfter(byId, file, T) ==
  IF IdsIn(file, T) = {} THEN byId
  ELSE [id \in DOMAIN byId \union IdsIn(file, T) |->
          IF id \in IdsIn(file, T) THEN LikuSkill(file[Max(Naming(file, T, id))]) ELSE byId[id]]

LEMMA LeastOf ==
  ASSUME NEW S \in SUBSET Nat, S # {}
  PROVE  /\ Min(S) \in S
         /\ \A m \in S : Min(S) <= m
<1>1. PICK k \in S : \A m \in S : ~(<<m, k>> \in OpToRel(<, Nat))
  BY NatLessThanWellFounded, WFMin
<1>2. \A m \in S : ~(m < k)
  BY <1>1 DEF OpToRel
<1>3. \E x \in S : \A y \in S : x <= y
  BY <1>2
<1>q. QED BY <1>3 DEF Min

LEMMA GreatestExists ==
  ASSUME NEW n \in Nat, NEW S \in SUBSET (1..n), S # {}
  PROVE  /\ Max(S) \in S
         /\ \A m \in S : m <= Max(S)
<1> DEFINE R == {n - m : m \in S}
<1>1. R \in SUBSET Nat /\ R # {}
  <2>1. \A m \in 1..n : n - m \in Nat
    OBVIOUS
  <2>q. QED BY <2>1
<1>3. PICK r \in R : \A q \in R : r <= q
  BY <1>1, LeastOf
<1>4. PICK k \in S : r = n - k
  OBVIOUS
<1>5. ASSUME NEW m \in S PROVE m <= k
  <2>1. n - m \in R
    OBVIOUS
  <2>2. n - k <= n - m
    BY <1>3, <1>4, <2>1
  <2>q. QED BY <2>2
<1>6. \E x \in S : \A y \in S : x >= y
  BY <1>5
<1>q. QED BY <1>6 DEF Max

LEMMA MaxIs ==
  ASSUME NEW n \in Nat, NEW S \in SUBSET (1..n), NEW k \in S, \A m \in S : m <= k
  PROVE  Max(S) = k
<1>1. PICK x \in S : x = Max(S) /\ \A m \in S : m <= x
  BY GreatestExists
<1>2. x <= k /\ k <= x /\ x \in Nat /\ k \in Nat
  BY <1>1
<1>q. QED BY <1>1, <1>2

\* One more element, the last one.
LEMMA MapGrows ==
  ASSUME NEW byId, NEW n \in Nat, NEW file \in [1..n -> SkillElements],
         NEW T \in SUBSET (1..n), T # {}
  PROVE  MapAfter(byId, file, T) = withSkill(MapAfter(byId, file, T \ {Max(T)}), file[Max(T)])
<1>1. PICK x \in T : x = Max(T) /\ \A m \in T : m <= x
  BY GreatestExists
<1>2. PICK U \in SUBSET (1..n) : U = T \ {x}
  OBVIOUS
<1>3. PICK e \in SkillElements : e = file[x]
  OBVIOUS
<1> DEFINE was == MapAfter(byId, file, U)
<1>4. \A id : id # e.id => Naming(file, T, id) = Naming(file, U, id)
  BY <1>2, <1>3 DEF Naming
<1>5. Max(Naming(file, T, e.id)) = x
  <2>1. Naming(file, T, e.id) \in SUBSET (1..n) /\ x \in Naming(file, T, e.id)
    BY <1>3 DEF Naming
  <2>2. \A m \in Naming(file, T, e.id) : m <= x
    BY <1>1 DEF Naming
  <2>q. QED BY <2>1, <2>2, MaxIs
<1>6. CASE e.id = 0
  <2>1. IdsIn(file, T) = IdsIn(file, U)
    BY <1>2, <1>3, <1>6 DEF IdsIn
  <2>2. \A id \in IdsIn(file, T) : id # 0
    BY DEF IdsIn
  <2>3. MapAfter(byId, file, T) = was
    BY <1>4, <1>6, <2>1, <2>2 DEF MapAfter
  <2>q. QED BY <1>1, <1>2, <1>3, <1>6, <2>3 DEF withSkill
<1>7. CASE e.id # 0
  <2>1. IdsIn(file, T) = IdsIn(file, U) \union {e.id}
    BY <1>2, <1>3, <1>7 DEF IdsIn
  <2>2. DOMAIN was = DOMAIN byId \union IdsIn(file, U)
    BY DEF MapAfter
  <2>3. \A id : id # e.id /\ id \in DOMAIN was =>
          was[id] = IF id \in IdsIn(file, U) THEN LikuSkill(file[Max(Naming(file, T, id))]) ELSE byId[id]
    BY <1>4, <2>2 DEF MapAfter
  <2>4. MapAfter(byId, file, T) = [id \in DOMAIN was \union {e.id} |->
                                     IF id = e.id THEN LikuSkill(e) ELSE was[id]]
    <3>1. MapAfter(byId, file, T) =
            [id \in DOMAIN byId \union IdsIn(file, T) |->
               IF id \in IdsIn(file, T) THEN LikuSkill(file[Max(Naming(file, T, id))]) ELSE byId[id]]
      BY <2>1 DEF MapAfter
    <3>2. DOMAIN byId \union IdsIn(file, T) = DOMAIN was \union {e.id}
      BY <2>1, <2>2
    <3>3. ASSUME NEW id \in DOMAIN was \union {e.id}
          PROVE  (IF id \in IdsIn(file, T) THEN LikuSkill(file[Max(Naming(file, T, id))]) ELSE byId[id])
                 = IF id = e.id THEN LikuSkill(e) ELSE was[id]
      BY <1>3, <1>5, <2>1, <2>3
    <3> HIDE DEF was
    <3>q. QED BY <3>1, <3>2, <3>3
  <2>q. QED BY <1>1, <1>2, <1>3, <1>7, <2>4 DEF withSkill
<1>q. QED BY <1>6, <1>7

\* The function that FoldLeft is defined by, on the positions of a file.
MapFold(byId, file, S) ==
  CHOOSE iter : iter = [T \in SUBSET S |-> IF T = {} THEN byId
                                           ELSE withSkill(iter[T \ {Max(T)}], file[Max(T)])]

\* A file that is loaded leaves, under every id it names, the last element of that id.
LEMMA FileLoaded ==
  ASSUME NEW byId, NEW file \in Seq(SkillElements)
  PROVE  withFile(byId, file) = MapAfter(byId, file, 1..Len(file))
<1>1. PICK n \in Nat : n = Len(file) /\ DOMAIN file = 1..n /\ file \in [1..n -> SkillElements]
  OBVIOUS
<1>2. PICK S : S = 1..n
  OBVIOUS
<1>3. withFile(byId, file) = MapFold(byId, file, S)[S]
  BY <1>1, <1>2 DEF withFile, FoldLeft, MapThenFoldSet, MapFold
<1> DEFINE step(iter) == [T \in SUBSET S |-> IF T = {} THEN byId
                                             ELSE withSkill(iter[T \ {Max(T)}], file[Max(T)])]
           all == [T \in SUBSET S |-> MapAfter(byId, file, T)]
<1>4. all = step(all)
  <2>1. MapAfter(byId, file, {}) = byId
    BY DEF MapAfter, IdsIn
  <2>2. ASSUME NEW T \in SUBSET S, T # {}
        PROVE  MapAfter(byId, file, T) = withSkill(all[T \ {Max(T)}], file[Max(T)])
    <3>1. T \ {Max(T)} \in SUBSET S
      OBVIOUS
    <3>2. all[T \ {Max(T)}] = MapAfter(byId, file, T \ {Max(T)})
      BY <3>1
    <3>q. QED BY <1>1, <1>2, <2>2, <3>2, MapGrows
  <2>q. QED BY <2>1, <2>2
<1>5. PICK iter : iter = MapFold(byId, file, S)
  OBVIOUS
<1>6. iter = step(iter)
  BY <1>4, <1>5 DEF MapFold
<1> HIDE DEF all
<1>7. ASSUME NEW T \in SUBSET S, iter[T] # MapAfter(byId, file, T)
      PROVE  FALSE
  <2> DEFINE Wrong == {k \in 1..n : \E U \in SUBSET S : U # {} /\ Max(U) = k /\ iter[U] # MapAfter(byId, file, U)}
  <2>1. iter[{}] = byId /\ MapAfter(byId, file, {}) = byId
    BY <1>6 DEF MapAfter, IdsIn
  <2>2. Wrong # {}
    BY <1>2, <1>7, <2>1, GreatestExists
  <2>3. PICK k \in Wrong : \A m \in Wrong : k <= m
    <3>1. Wrong \in SUBSET Nat
      OBVIOUS
    <3> HIDE DEF Wrong
    <3>q. QED BY <2>2, <3>1, LeastOf
  <2>4. PICK U \in SUBSET S : U # {} /\ Max(U) = k /\ iter[U] # MapAfter(byId, file, U)
    OBVIOUS
  <2>5. PICK V \in SUBSET S : V = U \ {k}
    OBVIOUS
  <2>6. iter[V] = MapAfter(byId, file, V)
    <3>1. CASE V = {}
      BY <2>1, <3>1
    <3>2. CASE V # {}
      <4>1. Max(V) \in V /\ k \in U /\ \A m \in U : m <= k
        BY <1>2, <2>4, <3>2, GreatestExists
      <4>2. PICK x \in V : x = Max(V)
        BY <4>1
      <4>3. x \in 1..n /\ ~(k <= x)
        BY <1>2, <2>5, <4>1
      <4>4. x \notin Wrong
        BY <2>3, <4>3
      <4>q. QED BY <3>2, <4>2, <4>3, <4>4
    <3>q. QED BY <3>1, <3>2
  <2>7. iter[U] = withSkill(iter[V], file[k])
    BY <1>6, <2>4, <2>5
  <2>8. MapAfter(byId, file, U) = withSkill(MapAfter(byId, file, V), file[k])
    BY <1>1, <1>2, <2>4, <2>5, MapGrows
  <2>q. QED BY <2>4, <2>6, <2>7, <2>8
<1>q. QED BY <1>1, <1>2, <1>3, <1>5, <1>7

IdsOfFile(file) == IdsIn(file, 1..Len(file))
LastIn(file, id) == LikuSkill(file[Max(Naming(file, 1..Len(file), id))])
Having(files, T, id) == {f \in T : id \in IdsOfFile(files[f])}
IdsInFiles(files, T) == UNION {IdsOfFile(files[f]) : f \in T}

\* The map after the files at the positions in T.
MapAfterFiles(files, T) ==
  IF IdsInFiles(files, T) = {} THEN <<>>
  ELSE [id \in IdsInFiles(files, T) |-> LastIn(files[Max(Having(files, T, id))], id)]

LEMMA MapAfterFile ==
  ASSUME NEW byId, NEW file \in Seq(SkillElements)
  PROVE  withFile(byId, file) =
           IF IdsOfFile(file) = {} THEN byId
           ELSE [id \in DOMAIN byId \union IdsOfFile(file) |->
                   IF id \in IdsOfFile(file) THEN LastIn(file, id) ELSE byId[id]]
BY FileLoaded DEF MapAfter, IdsOfFile, LastIn

\* One more file, the last one.
LEMMA MapGrowsByFile ==
  ASSUME NEW n \in Nat, NEW files \in [1..n -> Seq(SkillElements)],
         NEW T \in SUBSET (1..n), T # {}
  PROVE  MapAfterFiles(files, T) = withFile(MapAfterFiles(files, T \ {Max(T)}), files[Max(T)])
<1>1. PICK x \in T : x = Max(T) /\ \A m \in T : m <= x
  BY GreatestExists
<1>2. PICK U \in SUBSET (1..n) : U = T \ {x}
  OBVIOUS
<1>3. PICK file \in Seq(SkillElements) : file = files[x]
  OBVIOUS
<1> DEFINE was == MapAfterFiles(files, U)
<1>4. \A id : id \notin IdsOfFile(file) => Having(files, T, id) = Having(files, U, id)
  BY <1>2, <1>3 DEF Having
<1>5. ASSUME NEW id \in IdsOfFile(file) PROVE Max(Having(files, T, id)) = x
  <2>1. Having(files, T, id) \in SUBSET (1..n) /\ x \in Having(files, T, id)
    BY <1>3 DEF Having
  <2>2. \A m \in Having(files, T, id) : m <= x
    BY <1>1 DEF Having
  <2>q. QED BY <2>1, <2>2, MaxIs
<1>6. IdsInFiles(files, T) = IdsInFiles(files, U) \union IdsOfFile(file)
  BY <1>2, <1>3 DEF IdsInFiles
<1>7. CASE IdsOfFile(file) = {}
  <2>1. MapAfterFiles(files, T) = was
    BY <1>4, <1>6, <1>7 DEF MapAfterFiles
  <2>2. withFile(was, file) = was
    BY <1>7, MapAfterFile
  <2>q. QED BY <1>1, <1>2, <1>3, <2>1, <2>2
<1>8. CASE IdsOfFile(file) # {}
  <2>1. DOMAIN was = IdsInFiles(files, U)
    BY DEF MapAfterFiles
  <2>2. \A id : id \in DOMAIN was /\ id \notin IdsOfFile(file) =>
          was[id] = LastIn(files[Max(Having(files, T, id))], id)
    BY <1>4, <2>1 DEF MapAfterFiles
  <2>3. withFile(was, file) =
          [id \in DOMAIN was \union IdsOfFile(file) |->
             IF id \in IdsOfFile(file) THEN LastIn(file, id) ELSE was[id]]
    BY <1>8, MapAfterFile
  <2>4. MapAfterFiles(files, T) =
          [id \in IdsInFiles(files, T) |-> LastIn(files[Max(Having(files, T, id))], id)]
    BY <1>6, <1>8 DEF MapAfterFiles
  <2>5. IdsInFiles(files, T) = DOMAIN was \union IdsOfFile(file)
    BY <1>6, <2>1
  <2>6. ASSUME NEW id \in DOMAIN was \union IdsOfFile(file)
        PROVE  LastIn(files[Max(Having(files, T, id))], id)
               = IF id \in IdsOfFile(file) THEN LastIn(file, id) ELSE was[id]
    BY <1>3, <1>5, <2>2
  <2> HIDE DEF was
  <2>7. MapAfterFiles(files, T) = withFile(was, file)
    BY <2>3, <2>4, <2>5, <2>6
  <2>q. QED BY <1>1, <1>2, <1>3, <2>7 DEF was
<1>q. QED BY <1>7, <1>8

FilesFold(files, S) ==
  CHOOSE iter : iter = [T \in SUBSET S |-> IF T = {} THEN <<>>
                                           ELSE withFile(iter[T \ {Max(T)}], files[Max(T)])]

\* Files that are loaded one after another leave, under every id they name, what the
\* last of them that names it says of it.
LEMMA FilesLoaded ==
  ASSUME NEW files \in Seq(Seq(SkillElements))
  PROVE  FoldLeft(withFile, <<>>, files) = MapAfterFiles(files, 1..Len(files))
<1>1. PICK n \in Nat : n = Len(files) /\ DOMAIN files = 1..n /\ files \in [1..n -> Seq(SkillElements)]
  OBVIOUS
<1>2. PICK S : S = 1..n
  OBVIOUS
<1>3. FoldLeft(withFile, <<>>, files) = FilesFold(files, S)[S]
  BY <1>1, <1>2 DEF FoldLeft, MapThenFoldSet, FilesFold
<1> DEFINE step(iter) == [T \in SUBSET S |-> IF T = {} THEN <<>>
                                             ELSE withFile(iter[T \ {Max(T)}], files[Max(T)])]
           all == [T \in SUBSET S |-> MapAfterFiles(files, T)]
<1>4. all = step(all)
  <2>1. MapAfterFiles(files, {}) = <<>>
    BY DEF MapAfterFiles, IdsInFiles
  <2>2. ASSUME NEW T \in SUBSET S, T # {}
        PROVE  MapAfterFiles(files, T) = withFile(all[T \ {Max(T)}], files[Max(T)])
    <3>1. T \ {Max(T)} \in SUBSET S
      OBVIOUS
    <3>2. all[T \ {Max(T)}] = MapAfterFiles(files, T \ {Max(T)})
      BY <3>1
    <3>q. QED BY <1>1, <1>2, <2>2, <3>2, MapGrowsByFile
  <2>q. QED BY <2>1, <2>2
<1>5. PICK iter : iter = FilesFold(files, S)
  OBVIOUS
<1>6. iter = step(iter)
  BY <1>4, <1>5 DEF FilesFold
<1> HIDE DEF all
<1>7. ASSUME NEW T \in SUBSET S, iter[T] # MapAfterFiles(files, T)
      PROVE  FALSE
  <2> DEFINE Wrong == {k \in 1..n : \E U \in SUBSET S : U # {} /\ Max(U) = k /\ iter[U] # MapAfterFiles(files, U)}
  <2>1. iter[{}] = <<>> /\ MapAfterFiles(files, {}) = <<>>
    BY <1>6 DEF MapAfterFiles, IdsInFiles
  <2>2. Wrong # {}
    BY <1>2, <1>7, <2>1, GreatestExists
  <2>3. PICK k \in Wrong : \A m \in Wrong : k <= m
    <3>1. Wrong \in SUBSET Nat
      OBVIOUS
    <3> HIDE DEF Wrong
    <3>q. QED BY <2>2, <3>1, LeastOf
  <2>4. PICK U \in SUBSET S : U # {} /\ Max(U) = k /\ iter[U] # MapAfterFiles(files, U)
    OBVIOUS
  <2>5. PICK V \in SUBSET S : V = U \ {k}
    OBVIOUS
  <2>6. iter[V] = MapAfterFiles(files, V)
    <3>1. CASE V = {}
      BY <2>1, <3>1
    <3>2. CASE V # {}
      <4>1. Max(V) \in V /\ k \in U /\ \A m \in U : m <= k
        BY <1>2, <2>4, <3>2, GreatestExists
      <4>2. PICK x \in V : x = Max(V)
        BY <4>1
      <4>3. x \in 1..n /\ ~(k <= x)
        BY <1>2, <2>5, <4>1
      <4>4. x \notin Wrong
        BY <2>3, <4>3
      <4>q. QED BY <3>2, <4>2, <4>3, <4>4
    <3>q. QED BY <3>1, <3>2
  <2>7. iter[U] = withFile(iter[V], files[k])
    BY <1>6, <2>4, <2>5
  <2>8. MapAfterFiles(files, U) = withFile(MapAfterFiles(files, V), files[k])
    BY <1>1, <1>2, <2>4, <2>5, MapGrowsByFile
  <2>q. QED BY <2>4, <2>6, <2>7, <2>8
<1>q. QED BY <1>1, <1>2, <1>3, <1>5, <1>7

\* What the nearest file that names a skill says of it.
LEMMA NearestCounts ==
  ASSUME NEW s, s.files \in Seq(Seq(SkillElements)),
         NEW skills, skills = loadInheritedSkills(s.files)
  PROVE  /\ DOMAIN skills = SkillIds(s)
         /\ \A id \in SkillIds(s) : \E e \in SkillElements :
              Definitions(s, id) = {e} /\ e.id = id /\ skills[id] = LikuSkill(e)
<1>1. PICK n \in Nat : n = Len(s.files) /\ DOMAIN s.files = 1..n /\ s.files \in [1..n -> Seq(SkillElements)]
  OBVIOUS
<1>2. PICK near : near = s.files
  OBVIOUS
<1>3. PICK far : far = Reverse(near)
  OBVIOUS
<1>4. /\ far \in Seq(Seq(SkillElements)) /\ Len(far) = n
      /\ \A i \in 1..n : far[i] = near[n - i + 1]
  <2>1. far = [i \in 1..n |-> near[n - i + 1]]
    BY <1>1, <1>2, <1>3 DEF Reverse
  <2>2. \A i \in 1..n : n - i + 1 \in 1..n
    OBVIOUS
  <2>q. QED BY <1>1, <1>2, <2>1, <2>2
<1>5. skills = MapAfterFiles(far, 1..n)
  BY <1>2, <1>3, <1>4, FilesLoaded DEF loadInheritedSkills
<1>6. \A f \in 1..n : n - f + 1 \in 1..n /\ near[f] = far[n - f + 1]
  <2>1. ASSUME NEW f \in 1..n PROVE n - f + 1 \in 1..n /\ n - (n - f + 1) + 1 = f
    OBVIOUS
  <2>q. QED BY <1>4, <2>1
<1>7. ASSUME NEW f \in 1..n, NEW id
      PROVE  id \in IdsOfFile(near[f]) <=> id # 0 /\ \E i \in DOMAIN near[f] : near[f][i].id = id
  <2>1. DOMAIN near[f] = 1..Len(near[f])
    BY <1>1, <1>2
  <2>q. QED BY <2>1 DEF IdsOfFile, IdsIn
<1>8. IdsInFiles(far, 1..n) = SkillIds(s)
  <2>1. \A id : id \in IdsInFiles(far, 1..n) <=> \E f \in 1..n : id \in IdsOfFile(near[f])
    <3>1. \A id : id \in IdsInFiles(far, 1..n) <=> \E f \in 1..n : id \in IdsOfFile(far[f])
      BY DEF IdsInFiles
    <3>q. QED BY <1>4, <1>6, <3>1
  <2>2. \A id : id \in SkillIds(s) <=>
                 id # 0 /\ \E f \in 1..n : \E i \in DOMAIN near[f] : near[f][i].id = id
    <3>1. Range(s.files) = {near[f] : f \in 1..n}
      BY <1>1, <1>2 DEF Range
    <3>2. \A e : e \in UNION {Range(f) : f \in Range(s.files)} <=>
                   \E f \in 1..n : \E i \in DOMAIN near[f] : near[f][i] = e
      <4>1. \A e : e \in UNION {Range(f) : f \in Range(s.files)} <=> \E f \in 1..n : e \in Range(near[f])
        BY <3>1
      <4>2. \A f, e : e \in Range(near[f]) <=> \E i \in DOMAIN near[f] : near[f][i] = e
        BY DEF Range
      <4>q. QED BY <4>1, <4>2
    <3>3. \A id : id \in SkillIds(s) <=>
            id # 0 /\ \E e \in UNION {Range(f) : f \in Range(s.files)} : e.id = id
      BY DEF SkillIds
    <3> DEFINE all == UNION {Range(f) : f \in Range(s.files)}
    <3>4. ASSUME NEW id PROVE (\E e \in all : e.id = id) <=>
                              \E f \in 1..n : \E i \in DOMAIN near[f] : near[f][i].id = id
      BY <3>2, Zenon
    <3>q. QED BY <3>3, <3>4
  <2>3. \A id : id \in SkillIds(s) <=> \E f \in 1..n : id \in IdsOfFile(near[f])
    BY <1>7, <2>2
  <2>q. QED BY <2>1, <2>3
<1>9. DOMAIN skills = SkillIds(s)
  BY <1>5, <1>8 DEF MapAfterFiles
<1>10. ASSUME NEW id \in SkillIds(s)
       PROVE  \E e \in SkillElements : Definitions(s, id) = {e} /\ e.id = id /\ skills[id] = LikuSkill(e)
  <2> DEFINE having == {f \in 1..n : \E i \in DOMAIN near[f] : near[f][i].id = id}
  <2>1. id # 0 /\ \A f \in 1..n : f \in having <=> id \in IdsOfFile(near[f])
    <3>1. id # 0
      BY DEF SkillIds
    <3>q. QED BY <1>7, <3>1
  <2>2. having # {}
    BY <1>8, <1>6, <2>1 DEF IdsInFiles
  <2>3. PICK k \in having : k = Min(having) /\ \A m \in having : k <= m
    <3>1. having \in SUBSET Nat
      OBVIOUS
    <3> HIDE DEF having
    <3>q. QED BY <2>2, <3>1, LeastOf
  <2>4. Max(Having(far, 1..n, id)) = n - k + 1
    <3>1. ASSUME NEW m \in Having(far, 1..n, id) PROVE n - m + 1 \in having
      <4>1. m \in 1..n /\ id \in IdsOfFile(far[m])
        BY DEF Having
      <4>2. n - m + 1 \in 1..n /\ far[m] = near[n - m + 1]
        BY <1>4, <4>1
      <4>q. QED BY <2>1, <4>1, <4>2
    <3>2. n - k + 1 \in Having(far, 1..n, id)
      BY <1>6, <2>1 DEF Having
    <3>3. Having(far, 1..n, id) \in SUBSET (1..n)
      BY DEF Having
    <3>4. ASSUME NEW m \in Having(far, 1..n, id) PROVE m <= n - k + 1
      <4>1. k <= n - m + 1
        BY <2>3, <3>1
      <4>q. QED BY <3>3, <4>1
    <3>q. QED BY <3>2, <3>3, <3>4, MaxIs
  <2>5. PICK file \in Seq(SkillElements) : file = near[k]
    BY <1>1, <1>2
  <2>6. skills[id] = LastIn(file, id)
    BY <1>5, <1>6, <1>8, <2>4, <2>5 DEF MapAfterFiles
  <2>7. PICK len \in Nat : len = Len(file) /\ DOMAIN file = 1..len
    BY <2>5
  <2>8. Naming(file, 1..len, id) = {i \in DOMAIN file : file[i].id = id}
    BY <2>7 DEF Naming
  <2>9. PICK x \in Naming(file, 1..len, id) : x = Max(Naming(file, 1..len, id))
    <3>1. Naming(file, 1..len, id) # {} /\ Naming(file, 1..len, id) \in SUBSET (1..len)
      BY <2>5, <2>7, <2>8
    <3>q. QED BY <3>1, GreatestExists
  <2>10. PICK e \in SkillElements : e = file[x] /\ e.id = id
    <3>1. x \in 1..len /\ file[x].id = id
      BY <2>9 DEF Naming
    <3>2. file[x] \in SkillElements
      BY <2>5, <2>7, <3>1
    <3>q. QED BY <3>1, <3>2
  <2>11. skills[id] = LikuSkill(e)
    BY <2>6, <2>7, <2>9, <2>10 DEF LastIn
  <2>12. Definitions(s, id) = {e}
    <3>1. having = {f \in DOMAIN s.files : \E i \in DOMAIN s.files[f] : s.files[f][i].id = id}
      BY <1>1, <1>2
    <3>2. Definitions(s, id) = {s.files[Min(having)][Max({i \in DOMAIN s.files[Min(having)] :
                                                           s.files[Min(having)][i].id = id})]}
      BY <2>2, <3>1 DEF Definitions
    <3>q. QED BY <1>2, <2>3, <2>5, <2>8, <2>9, <2>10, <3>2
  <2>q. QED BY <2>10, <2>11, <2>12
<1>q. QED BY <1>9, <1>10

\* A skill is refused with an effect on the step exactly if it is out of reach.
LEMMA RefusedIs ==
  ASSUME NEW e \in SkillElements, NEW p \in Privileges
  PROVE  validateSkillExecution(LikuSkill(e), p) \in {"escalate", "insufficient_privilege"}
           <=> OutOfReach(e, p)
<1>1. PICK skill : /\ skill = LikuSkill(e) /\ skill.escalate = e.escalate
                   /\ skill.privilege = IF e.privilege \in Privileges THEN e.privilege ELSE "user"
                   /\ skill.requires = IF e.requires \in Capabilities THEN e.requires ELSE "none"
  <2>1. PICK pr : pr = IF e.privilege \in Privileges THEN e.privilege ELSE "user"
    OBVIOUS
  <2>2. PICK cap : cap = IF e.requires \in Capabilities THEN e.requires ELSE "none"
    OBVIOUS
  <2>3. LikuSkill(e) = [e EXCEPT !.privilege = pr, !.requires = cap]
    BY <2>1, <2>2 DEF LikuSkill
  <2>4. LikuSkill(e).escalate = e.escalate /\ LikuSkill(e).privilege = pr /\ LikuSkill(e).requires = cap
    BY <2>3 DEF SkillElements
  <2>q. QED BY <2>1, <2>2, <2>4
<1>2. privilegeOrder("user") = 0 /\ privilegeOrder("specialist") = 1 /\ privilegeOrder("root") = 2
  BY DEF privilegeOrder
<1>3. privilegeOrder(p) < privilegeOrder(skill.privilege) <=>
        \/ p = "user" /\ e.privilege = "specialist"
        \/ p # "root" /\ e.privilege = "root"
  BY <1>1, <1>2 DEF Privileges
<1>4. "none" \notin Capabilities /\ PRIVILEGE_CAPABILITIES[p] \subseteq Capabilities
  BY DEF Capabilities, PRIVILEGE_CAPABILITIES, Privileges
<1>5. skill.requires \in {"none"} \union PRIVILEGE_CAPABILITIES[p] <=>
        e.requires \notin Capabilities \ PRIVILEGE_CAPABILITIES[p]
  BY <1>1, <1>4
<1>6. e.escalate \in BOOLEAN
  BY DEF SkillElements
<1>q. QED BY <1>1, <1>3, <1>5, <1>6 DEF validateSkillExecution, OutOfReach

\* A step escalates exactly if the definition that counts of some skill is out of reach.
LEMMA EscalatesIs ==
  ASSUME NEW s, s.files \in Seq(Seq(SkillElements))
  PROVE  Outcome(s) = "escalated" <=>
           \E id \in SkillIds(s) : \E skill \in Definitions(s, id) :
             OutOfReach(skill, getResidencePrivilege(s.residence))
<1>1. PICK p \in Privileges : p = getResidencePrivilege(s.residence)
  BY DEF getResidencePrivilege, Privileges
<1>2. PICK skills : skills = loadInheritedSkills(s.files)
  OBVIOUS
<1>3. /\ DOMAIN skills = SkillIds(s)
      /\ \A id \in SkillIds(s) : \E e \in SkillElements :
           Definitions(s, id) = {e} /\ e.id = id /\ skills[id] = LikuSkill(e)
  BY <1>2, NearestCounts
<1> DEFINE answer(id) == validateSkillExecution(skills[id], p)
           found(v) == {id \in DOMAIN skills : answer(id) = v}
<1>4. ASSUME NEW id \in SkillIds(s)
      PROVE  answer(id) \in {"escalate", "insufficient_privilege"} <=>
               \E skill \in Definitions(s, id) : OutOfReach(skill, p)
  BY <1>3, RefusedIs
<1>5. \A id \in DOMAIN skills : id \in Nat /\ id # 0
  BY <1>3 DEF SkillElements, SkillIds
<1>6. checkForEscalation(skills, p) =
        IF found("escalate") # {} THEN Min(found("escalate"))
        ELSE IF found("insufficient_privilege") # {} THEN Min(found("insufficient_privilege")) ELSE 0
  BY DEF checkForEscalation
<1>7. \A v : found(v) # {} => Min(found(v)) # 0
  BY <1>5, LeastOf
<1>8. checkForEscalation(skills, p) = 0 <=> found("escalate") = {} /\ found("insufficient_privilege") = {}
  BY <1>6, <1>7
<1>9. Outcome(s) = "escalated" <=> checkForEscalation(skills, p) # 0
  BY <1>1, <1>2 DEF Outcome
<1> HIDE DEF answer
<1>10. (found("escalate") = {} /\ found("insufficient_privilege") = {}) <=>
         \A id \in DOMAIN skills : answer(id) \notin {"escalate", "insufficient_privilege"}
  OBVIOUS
<1>q. QED BY <1>1, <1>3, <1>4, <1>8, <1>9, <1>10

\* What a step has come to is what its skills say, and none runs before the plan
\* is accepted.
RunOutcomes ==
  /\ plan \in PlanInputs
  /\ stepResult \in [Ids(plan) -> {"none", "success", "escalated"}]
  /\ \A s \in Steps(plan) : stepResult[s.id] # "none" => stepResult[s.id] = Outcome(s)
  /\ verdict = "valid" \/ \A id \in Ids(plan) : stepResult[id] = "none"

LEMMA RunInvariant == PlanSpec => []RunOutcomes
<1>1. PlanInit => RunOutcomes
  <2> SUFFICES ASSUME PlanInit PROVE RunOutcomes
    OBVIOUS
  <2>1. \A s \in Steps(plan) : s.id \in Ids(plan)
    BY DEF Steps, Ids, IdsOf
  <2>q. QED BY <2>1 DEF PlanInit, RunOutcomes
<1>2. RunOutcomes /\ [PlanNext]_planVars => RunOutcomes'
  <2> SUFFICES ASSUME RunOutcomes, [PlanNext]_planVars PROVE RunOutcomes'
    OBVIOUS
  <2>1. CASE UNCHANGED <<plan, stepResult>> /\ (verdict = "valid" => verdict' = "valid")
    <3>1. Ids(plan)' = Ids(plan) /\ Steps(plan)' = Steps(plan)
      BY <2>1
    <3>q. QED BY <2>1, <3>1 DEF RunOutcomes
  <2>2. CASE RunBatch
    <3>1. plan' = plan /\ Ids(plan)' = Ids(plan) /\ Steps(plan)' = Steps(plan)
      BY <2>2 DEF RunBatch
    <3>2. stepResult' = [id \in Ids(plan) |-> IF \E s \in Ready : s.id = id THEN Outcome(StepOf(plan.steps, id))
                                          ELSE stepResult[id]]
      BY <2>2 DEF RunBatch
    <3>3. ASSUME NEW s \in Steps(plan) PROVE s.id \in Ids(plan) /\ StepOf(plan.steps, s.id) = s
      <4>1. s.id \in Ids(plan)
        BY DEF Steps, Ids, IdsOf
      <4>2. PICK i \in DOMAIN plan.steps : StepOf(plan.steps, s.id) = plan.steps[i] /\ plan.steps[i].id = s.id
        BY <4>1, StepOfId DEF Steps
      <4>q. QED BY <4>1, <4>2, PlanAssumption DEF RunOutcomes, Steps
    <3>4. \A s : Outcome(s) \in {"success", "escalated"}
      BY DEF Outcome
    <3>5. verdict' = "valid" /\ plan' \in PlanInputs
      BY <2>2, <3>1 DEF RunBatch, RunOutcomes
    <3>6. stepResult' \in [Ids(plan) -> {"none", "success", "escalated"}]
      BY <3>2, <3>4 DEF RunOutcomes
    <3>7. ASSUME NEW s \in Steps(plan), stepResult'[s.id] # "none" PROVE stepResult'[s.id] = Outcome(s)
      <4>1. s.id \in Ids(plan) /\ StepOf(plan.steps, s.id) = s
        BY <3>3
      <4>2. stepResult[s.id] # "none" => stepResult[s.id] = Outcome(s)
        BY DEF RunOutcomes
      <4>q. QED BY <3>2, <3>7, <4>1, <4>2
    <3>q. QED BY <3>1, <3>5, <3>6, <3>7 DEF RunOutcomes
  <2>3. CASE Validate
    <3>1. UNCHANGED <<plan, stepResult>> /\ verdict # "valid"
      BY <2>3 DEF Validate, BeginValidation, SearchNext, SearchDeeper, SearchReturns,
                  EndValidation, searchVars
    <3>q. QED BY <2>1, <3>1
  <2>4. CASE UNCHANGED planVars
    BY <2>1, <2>4 DEF planVars
  <2>q. QED BY <2>2, <2>3, <2>4 DEF PlanNext
<1>q. QED BY <1>1, <1>2, PTL DEF PlanSpec

\* Which definition of a skill counts, and that a step escalates for those out of its
\* reach and for no other: for any files, with any number of elements.
THEOREM EscalationIsExact == PlanSpec => []StepEscalatesForItsSkills
<1>1. RunOutcomes => StepEscalatesForItsSkills
  <2> SUFFICES ASSUME RunOutcomes, NEW s \in Steps(plan), stepResult[s.id] # "none"
               PROVE  stepResult[s.id] = "escalated" <=>
                        \E id \in SkillIds(s) : \E skill \in Definitions(s, id) :
                          OutOfReach(skill, getResidencePrivilege(s.residence))
    BY DEF StepEscalatesForItsSkills
  <2>1. s.files \in Seq(Seq(SkillElements))
    BY PlanAssumption DEF RunOutcomes, Steps
  <2>q. QED BY <2>1, EscalatesIs DEF RunOutcomes
<1>q. QED BY <1>1, RunInvariant, PTL

\* What the validator asks of the steps of a plan makes the executor's look at the
\* residence enough: nothing for root runs in a context without root's powers.
THEOREM RootIsGuarded == PlanSpec => []RootSkillsNeedRootContext
<1>1. RunOutcomes /\ SearchInv /\ StepEscalatesForItsSkills => RootSkillsNeedRootContext
  <2> SUFFICES ASSUME RunOutcomes, SearchInv, StepEscalatesForItsSkills,
                      NEW s \in Steps(plan), stepResult[s.id] = "success",
                      NEW id \in SkillIds(s), NEW skill \in Definitions(s, id), skill.privilege = "root"
               PROVE  {"escalate", "network_access"} \subseteq cfg.allowed
    BY DEF RootSkillsNeedRootContext
  <2>1. PICK p : p = getResidencePrivilege(s.residence)
    OBVIOUS
  <2>2. p = "root"
    <3>1. ~OutOfReach(skill, p)
      BY <2>1 DEF StepEscalatesForItsSkills
    <3>q. QED BY <3>1 DEF OutOfReach
  <2>3. s.id \in Ids(plan) /\ verdict = "valid"
    BY DEF RunOutcomes, Steps, Ids, IdsOf
  <2>4. validateStep(s, cfg) = "valid"
    BY <2>3, CheckStepsIs DEF SearchInv, VerdictIsTrue, checkAfter
  <2>5. (Capabilities \ cfg.allowed) \intersect {"escalate", "network_access"} = {}
    BY <2>1, <2>2, <2>4 DEF validateStep, PRIVILEGE_CAPABILITIES
  <2>q. QED BY <2>5 DEF Capabilities
<1>q. QED BY <1>1, RunInvariant, SearchInvariant, EscalationIsExact, PTL

-----------------------------------------------------------------------------
(* The loops of the validator and the executor end.                        *)

\* A dependency that the loop of a step's call, under way or to come, has not come to.
Open(id, dep) ==
  /\ id \notin visited /\ dep \in Dependencies(id)
  /\ \A i \in DOMAIN calls : calls[i].id = id => dep \in calls[i].todo
Edges == {edge \in Ids(plan) \X Ids(plan) : Open(edge[1], edge[2])}

LEMMA WorkIs ==
  LoopWork = <<(looked + 1)..Len(plan.steps), Ids(plan) \ visited, Edges, Ids(plan) \ Completed>>
BY DEF LoopWork, Edges, Open

\* Four sets that shrink, one of them by e.
LEMMA OneLess ==
  ASSUME NEW A, NEW B, NEW C, NEW D, NEW A1, NEW B1, NEW C1, NEW D1,
         A1 \subseteq A, B1 \subseteq B, C1 \subseteq C, D1 \subseteq D,
         A1 # A \/ B1 # B \/ C1 # C \/ D1 # D
  PROVE  /\ \A k \in 1..4 : <<A1, B1, C1, D1>>[k] \subseteq <<A, B, C, D>>[k]
         /\ <<A1, B1, C1, D1>> # <<A, B, C, D>>
<1>1. \A k \in 1..4 : k = 1 \/ k = 2 \/ k = 3 \/ k = 4
  OBVIOUS
<1>q. QED BY <1>1

LEMMA NextCounts ==
  ASSUME SearchInv, SearchNext
  PROVE  /\ (looked' + 1)..Len(plan'.steps) \subseteq (looked + 1)..Len(plan.steps)
         /\ (looked' + 1)..Len(plan'.steps) # (looked + 1)..Len(plan.steps)
         /\ Edges' \subseteq Edges
<1>1. /\ looked < Len(plan.steps) /\ looked' = looked + 1 /\ plan' = plan /\ visited' = visited
      /\ calls = <<>> /\ looked \in Nat /\ Len(plan.steps) \in Nat
  BY PlanShape DEF SearchInv, SearchNext
<1>2. looked + 1 \in (looked + 1)..Len(plan.steps) /\ looked + 1 \notin (looked' + 1)..Len(plan'.steps)
  BY <1>1
<1>3. (looked' + 1)..Len(plan'.steps) \subseteq (looked + 1)..Len(plan.steps)
  BY <1>1
<1>4. Edges' \subseteq Edges
  <2>1. \A id, dep : Open(id, dep)' => Open(id, dep)
    BY <1>1 DEF Open, Dependencies
  <2>q. QED BY <1>1, <2>1 DEF Edges
<1>q. QED BY <1>2, <1>3, <1>4

LEMMA DeeperCounts ==
  ASSUME SearchInv, SearchDeeper, verdict' = verdict
  PROVE  Edges' \subseteq Edges /\ Edges' # Edges
<1>1. PICK dep \in Innermost.todo, left \in Seq(SearchCalls) :
           /\ dep \notin visiting /\ dep \in Ids(plan)
           /\ calls' = IF dep \in visited THEN left ELSE Append(left, DfsCall(dep))
           /\ Len(left) = Len(calls)
           /\ \A i \in 1..Len(calls) : left[i].id = calls[i].id
           /\ \A i \in 1..Len(calls) - 1 : left[i] = calls[i]
           /\ left[Len(calls)].todo = Innermost.todo \ {dep}
  BY DependencyIsLookedAt
<1>2. UNCHANGED <<plan, looked, visited>> /\ calls # <<>>
  BY DEF SearchDeeper
<1>0. PICK n \in Nat : n = Len(calls) /\ n \in 1..n
  BY <1>2, CallsShape
<1>3. /\ DOMAIN calls = 1..n /\ DOMAIN left = 1..n
      /\ \A i \in 1..n : calls[i].id \in Ids(plan)
  BY <1>0, <1>1, <1>2, CallsShape
<1>4. /\ \A i \in 1..n : left[i].id = calls[i].id
      /\ \A i \in 1..n - 1 : left[i] = calls[i]
      /\ left[n].todo = calls[n].todo \ {dep} /\ dep \in calls[n].todo
      /\ left \in Seq(SearchCalls) /\ Len(left) = n
  BY <1>0, <1>1 DEF Innermost
<1>5. /\ \A i, j \in 1..n : calls[i].id = calls[j].id => i = j
      /\ \A i \in 1..n : calls[i].id \notin visited /\ calls[i].todo \subseteq Dependencies(calls[i].id)
  BY <1>0 DEF SearchInv, CallsArePath
<1>6. \A i \in 1..n : i \in DOMAIN calls' /\ calls'[i] = left[i]
  BY <1>1, <1>3, <1>4
<1>7. \A id, d : Open(id, d)' => Open(id, d)
  <2> SUFFICES ASSUME NEW id, NEW d, Open(id, d)' PROVE Open(id, d)
    OBVIOUS
  <2>1. id \notin visited /\ d \in Dependencies(id)
    BY <1>2 DEF Open, Dependencies
  <2>2. ASSUME NEW i \in 1..n, calls[i].id = id PROVE d \in calls[i].todo
    <3>1. d \in left[i].todo
      BY <1>4, <1>6, <2>2 DEF Open
    <3>2. i = n \/ i \in 1..n - 1
      BY <1>0
    <3>q. QED BY <1>4, <3>1, <3>2
  <2>q. QED BY <1>3, <2>1, <2>2 DEF Open
<1>8. Edges' \subseteq Edges
  BY <1>2, <1>7 DEF Edges
<1>9. <<calls[n].id, dep>> \in Edges
  <2>1. Open(calls[n].id, dep)
    BY <1>0, <1>3, <1>4, <1>5 DEF Open
  <2>q. QED BY <1>0, <1>1, <1>3, <2>1 DEF Edges
<1>10. <<calls[n].id, dep>> \notin Edges'
  <2>1. n \in DOMAIN calls' /\ calls'[n].id = calls[n].id /\ dep \notin calls'[n].todo
    BY <1>0, <1>4, <1>6
  <2>2. PICK x : x = calls[n].id
    OBVIOUS
  <2>3. \A e : e = <<x, dep>> => e[1] = x /\ e[2] = dep
    OBVIOUS
  <2>4. \A e \in Edges' : e[1] = x => e[2] # dep
    BY <2>1, <2>2 DEF Edges, Open
  <2>q. QED BY <2>2, <2>3, <2>4
<1>q. QED BY <1>8, <1>9, <1>10

LEMMA ReturnCounts ==
  ASSUME SearchInv, SearchReturns
  PROVE  /\ Ids(plan)' \ visited' \subseteq Ids(plan) \ visited
         /\ Ids(plan)' \ visited' # Ids(plan) \ visited
         /\ Edges' \subseteq Edges
<1> DEFINE n == Len(calls)
<1>1. /\ n \in Nat /\ n > 0 /\ visited' = visited \union {calls[n].id}
      /\ calls' = SubSeq(calls, 1, n - 1) /\ calls \in Seq(SearchCalls) /\ plan' = plan
  BY DEF SearchInv, SearchReturns, Innermost
<1>2. /\ \A i \in 1..n - 1 : calls'[i] = calls[i]
      /\ DOMAIN calls = 1..n /\ DOMAIN calls' = 1..n - 1
  BY <1>1, FrontOf, CallsShape
<1>3. calls[n].id \in Ids(plan) /\ calls[n].id \notin visited
  <2>1. n \in 1..n
    BY <1>1
  <2>q. QED BY <2>1, CallsShape DEF SearchInv, CallsArePath
<1>4. \A id, d : Open(id, d)' => Open(id, d)
  <2> SUFFICES ASSUME NEW id, NEW d, Open(id, d)' PROVE Open(id, d)
    OBVIOUS
  <2>1. id \notin visited /\ id # calls[n].id /\ d \in Dependencies(id)
    BY <1>1 DEF Open, Dependencies
  <2>2. ASSUME NEW i \in 1..n, calls[i].id = id PROVE d \in calls[i].todo
    <3>1. i \in 1..n - 1
      BY <1>1, <2>1, <2>2
    <3>q. QED BY <1>2, <2>2, <3>1 DEF Open
  <2>q. QED BY <1>2, <2>1, <2>2 DEF Open
<1>5. Edges' \subseteq Edges
  BY <1>1, <1>4 DEF Edges
<1>q. QED BY <1>1, <1>3, <1>5

LEMMA BatchCounts ==
  ASSUME SearchInv, RunBatch
  PROVE  /\ Ids(plan)' \ Completed' \subseteq Ids(plan) \ Completed
         /\ Ids(plan)' \ Completed' # Ids(plan) \ Completed
<1>1. /\ plan' = plan /\ Ids(plan)' = Ids(plan)
      /\ stepResult' = [id \in Ids(plan) |->
                       IF \E s \in Ready : s.id = id THEN Outcome(StepOf(plan.steps, id))
                       ELSE stepResult[id]]
  BY DEF RunBatch
<1>2. \A s : Outcome(s) # "none"
  BY DEF Outcome
<1>3. Completed \subseteq Completed'
  BY <1>1, <1>2 DEF Completed
<1>4. PICK s \in Ready : s.id \in Ids(plan) /\ s.id \notin Completed
  BY DEF RunBatch, Ready, Steps, Ids, IdsOf
<1>5. s.id \in Completed'
  BY <1>1, <1>2, <1>4 DEF Completed
<1>q. QED BY <1>1, <1>3, <1>4, <1>5

\* A turn of a loop leaves the sets of the other loops alone.
LEMMA TurnCounts ==
  ASSUME SearchInv, PlanNext, verdict' = verdict
  PROVE  /\ \A k \in 1..4 : LoopWork'[k] \subseteq LoopWork[k]
         /\ LoopWork' # LoopWork
<1> DEFINE A == (looked + 1)..Len(plan.steps)
           B == Ids(plan) \ visited
           D == Ids(plan) \ Completed
<1>1. LoopWork = <<A, B, Edges, D>> /\ LoopWork' = <<A', B', Edges', D'>>
  BY WorkIs DEF LoopWork, Edges, Open
<1>2. plan' = plan /\ Ids(plan)' = Ids(plan)
  BY DEF PlanNext, Validate, BeginValidation, SearchNext, SearchDeeper, SearchReturns, EndValidation, RunBatch
<1>3. ~BeginValidation /\ ~EndValidation
  BY CheckValues DEF BeginValidation, EndValidation
<1>4. ASSUME stepResult' = stepResult PROVE D' = D
  BY <1>2, <1>4 DEF Completed
<1>5. (A' \subseteq A /\ B' \subseteq B /\ Edges' \subseteq Edges /\ D' \subseteq D)
      /\ (A' # A \/ B' # B \/ Edges' # Edges \/ D' # D)
  <2>1. CASE SearchNext
    <3>1. A' \subseteq A /\ A' # A /\ Edges' \subseteq Edges
      BY <2>1, NextCounts
    <3>2. B' = B /\ D' = D
      BY <1>2, <1>4, <2>1 DEF SearchNext
    <3>q. QED BY <3>1, <3>2
  <2>2. CASE SearchDeeper
    <3>1. Edges' \subseteq Edges /\ Edges' # Edges
      BY <2>2, DeeperCounts
    <3>2. A' = A /\ B' = B /\ D' = D
      BY <1>2, <1>4, <2>2 DEF SearchDeeper
    <3>q. QED BY <3>1, <3>2
  <2>3. CASE SearchReturns
    <3>1. B' \subseteq B /\ B' # B /\ Edges' \subseteq Edges
      BY <2>3, ReturnCounts
    <3>2. A' = A /\ D' = D
      BY <1>2, <1>4, <2>3 DEF SearchReturns
    <3>q. QED BY <3>1, <3>2
  <2>4. CASE RunBatch
    <3>1. D' \subseteq D /\ D' # D
      BY <2>4, BatchCounts
    <3>2. A' = A /\ B' = B /\ Edges' = Edges
      BY <1>2, <2>4 DEF RunBatch, searchVars, Edges, Open, Dependencies
    <3>q. QED BY <3>1, <3>2
  <2>q. QED BY <1>3, <2>1, <2>2, <2>3, <2>4 DEF PlanNext, Validate
<1> HIDE DEF A, B, D
<1>q. QED BY <1>1, <1>5, OneLess

\* The search and the executor's loop end: what is left to do is finite, and every
\* turn makes it less.
THEOREM LoopsEnd == PlanSpec => EveryTurnCounts
<1>1. ASSUME SearchInv, [PlanNext]_planVars
      PROVE  [\/ verdict' # verdict
              \/ /\ \A k \in 1..4 : LoopWork'[k] \subseteq LoopWork[k]
                 /\ LoopWork' # LoopWork]_planVars
  BY <1>1, TurnCounts
<1>q. QED BY <1>1, SearchInvariant, PTL DEF PlanSpec, EveryTurnCounts

\* In every reachable state finitely many steps and dependencies are left for the loops to come to.
THEOREM WorkIsFinite == PlanSpec => [](\A k \in 1..4 : IsFiniteSet(LoopWork[k]))
<1>1. ASSUME SearchInv PROVE \A k \in 1..4 : IsFiniteSet(LoopWork[k])
  <2>1. Len(plan.steps) \in Nat /\ looked \in Nat /\ DOMAIN plan.steps = 1..Len(plan.steps)
    BY <1>1, PlanShape DEF SearchInv
  <2>2. IsFiniteSet((looked + 1)..Len(plan.steps)) /\ IsFiniteSet(1..Len(plan.steps))
    BY <2>1, FS_Interval
  <2>3. IsFiniteSet(Ids(plan))
    <3> DEFINE f == [i \in 1..Len(plan.steps) |-> plan.steps[i].id]
    <3>1. f \in [1..Len(plan.steps) -> Ids(plan)] /\ \A id \in Ids(plan) : \E i \in 1..Len(plan.steps) : f[i] = id
      BY <2>1 DEF Ids, IdsOf
    <3>2. f \in Surjection(1..Len(plan.steps), Ids(plan))
      BY <3>1 DEF Surjection
    <3> HIDE DEF f
    <3>q. QED BY <2>2, <3>2, FS_Surjection
  <2>4. IsFiniteSet(Ids(plan) \ visited) /\ IsFiniteSet(Ids(plan) \ Completed)
    BY <2>3, FS_Subset
  <2>5. IsFiniteSet(Edges)
    <3>1. IsFiniteSet(Ids(plan) \X Ids(plan))
      BY <2>3, FS_Product
    <3>q. QED BY <3>1, FS_Subset DEF Edges
  <2>6. \A k \in 1..4 : k = 1 \/ k = 2 \/ k = 3 \/ k = 4
    OBVIOUS
  <2> DEFINE A == (looked + 1)..Len(plan.steps)
             B == Ids(plan) \ visited
             D == Ids(plan) \ Completed
  <2>7. LoopWork = <<A, B, Edges, D>>
    BY WorkIs
  <2>8. IsFiniteSet(A) /\ IsFiniteSet(B) /\ IsFiniteSet(Edges) /\ IsFiniteSet(D)
    BY <2>2, <2>4, <2>5
  <2> HIDE DEF A, B, D
  <2>q. QED BY <2>6, <2>7, <2>8
<1>q. QED BY <1>1, SearchInvariant, PTL
===============================================================================
