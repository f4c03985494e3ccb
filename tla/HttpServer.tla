----------------------------- MODULE HttpServer -----------------------------
(***************************************************************************)
(* src/server/http.ts and the A2A routes of src/server/enterpriseHttp.ts:  *)
(* POST /a2a/invoke and POST /a2a/tasks/send run their work inside one     *)
(* ConcurrencyLimiter; tasks/send registers a task per run; tasks/cancel   *)
(* cancels a registered task without going through the limiter.            *)
(*                                                                         *)
(* This module composes ConcurrencyLimiter (its variables, with requests   *)
(* as the callers) and the singleton TaskRegistry (the task of request s   *)
(* has the id s).  The pipeline of a run is in module Orchestrator; here a *)
(* run starts, and later ends with a result of any kind.                   *)
(***************************************************************************)
EXTENDS Naturals, Sequences, FiniteSets

CONSTANTS
  Sends,          \* requests to /a2a/tasks/send, by the id of their task
  Invokes,        \* requests to /a2a/invoke
  MaxConcurrent,  \* options.maxConcurrentTasks
  MaxTasks        \* capacity of the registry

Requests == Sends \union Invokes

ASSUME ServerAssumption ==
  /\ Sends \intersect Invokes = {} /\ IsFiniteSet(Requests)
  /\ "capacity" \notin Sends   \* ids of tasks are UUIDs
  /\ MaxConcurrent \in Nat \ {0} /\ MaxTasks \in Nat \ {0}

VARIABLES
  currentCount, queue, timers, status, jobs,  \* the ingress limiter
  registry,   \* the singleton taskRegistry
  phase,      \* handler of each request: new, limited, working, done, replied
  reply,      \* what the client was told: a task id, "capacity", "bundle"
  outcome     \* what setResult answered to each run, "none" before (history)

limiterVars == <<currentCount, queue, timers, status, jobs>>
vars == <<limiterVars, registry, phase, reply, outcome>>

\* The servers always configure a queue timeout, 30 s by default.
L == INSTANCE ConcurrencyLimiter WITH Callers <- Requests, QueueTimeout <- TRUE
R == INSTANCE TaskRegistry WITH TaskIds <- Sends

Init ==
  /\ L!Init
  /\ registry = R!EmptyRegistry
  /\ phase = [r \in Requests |-> "new"]
  /\ reply = [r \in Requests |-> "none"]
  /\ outcome = [s \in Sends |-> "none"]

To(r, p) == phase' = [phase EXCEPT ![r] = p]

\* Mutated form of Receive: the task is registered before the limiter admits it.
ReceiveRegistering(r) ==
  /\ phase[r] = "new"
  /\ L!Call(r, "calling")
  /\ registry' = IF r \in Sends THEN R!Created(registry, r) ELSE registry
  /\ To(r, "limited")
  /\ UNCHANGED <<reply, outcome>>

\* The body is valid: the handler calls limiter.run.
Receive(r) ==
  /\ phase[r] = "new"
  /\ L!Call(r, "calling")
  /\ To(r, "limited")
  /\ UNCHANGED <<registry, reply, outcome>>

\* Mutated form of Park: no queue timeout is armed.
ParkUntimed(r) ==
  /\ L!WaitForSlotUntimed(r)
  /\ UNCHANGED <<registry, phase, reply, outcome>>

\* No slot: the request is parked, and its queue timeout armed.
Park(r) ==
  /\ L!WaitForSlot(r)
  /\ UNCHANGED <<registry, phase, reply, outcome>>

\* A slot, at once or after a wait: the task of limiter.run is entered, which
\* for tasks/send goes straight to create and updateStatus in orchestrator.run.
Admit(r) ==
  /\ L!RunNow(r) \/ L!Resume(r)
  /\ registry' = IF r \in Sends
                 THEN R!StatusUpdated(R!Created(registry, r), r, "running")
                 ELSE registry
  /\ To(r, "working")
  /\ UNCHANGED <<reply, outcome>>

\* Mutated form of WorkEnds: the run ends without finishRun.
WorkEndsUnrecorded(r) ==
  /\ phase[r] = "working"
  /\ L!Settle(r)
  /\ UNCHANGED <<registry, phase, reply, outcome>>

\* orchestrator.run returns, finishRun having stored the result; or
\* invokeAgentSafe returns.
WorkEnds(r) ==
  /\ phase[r] = "working"
  /\ L!Settle(r)
  /\ IF r \in Sends
     THEN /\ \E kind \in R!ResultKind : registry' = R!ResultSet(registry, r, kind)
          /\ outcome' = [outcome EXCEPT ![r] = R!SetResultOutcome(registry, r)]
     ELSE UNCHANGED <<registry, outcome>>
  /\ UNCHANGED <<phase, reply>>

\* finally of limiter.run; the handler itself resumes in a later job.
Release(r) ==
  /\ L!Finish(r)
  /\ To(r, "done")
  /\ UNCHANGED <<registry, reply, outcome>>

\* The handler of tasks/send resumes, looks for "the task that was created for
\* this run", and answers with its id (the enterprise server logs it as well).
ReplySend(r) ==
  /\ r \in Sends
  /\ phase[r] = "done"
  /\ reply' = [reply EXCEPT ![r] = R!LastListed(registry)]
  /\ To(r, "replied")
  /\ UNCHANGED <<limiterVars, registry, outcome>>

ReplyInvoke(r) ==
  /\ r \in Invokes
  /\ phase[r] = "done"
  /\ reply' = [reply EXCEPT ![r] = "bundle"]
  /\ To(r, "replied")
  /\ UNCHANGED <<limiterVars, registry, outcome>>

\* The queue timeout fires...
QueueTimeoutFires(r) ==
  /\ L!TimeoutWait(r)
  /\ UNCHANGED <<registry, phase, reply, outcome>>

\* ... and the error handler answers 503 capacity_exceeded.
Refuse(r) ==
  /\ L!Throw(r)
  /\ reply' = [reply EXCEPT ![r] = "capacity"]
  /\ To(r, "replied")
  /\ UNCHANGED <<registry, outcome>>

\* POST /a2a/tasks/cancel, with an id a client learnt from tasks/list.
CancelTask(t) ==
  /\ R!Cancellable(registry, t)
  /\ registry' = R!Cancelled(registry, t)
  /\ UNCHANGED <<limiterVars, phase, reply, outcome>>

Next ==
  \/ \E r \in Requests :
       \/ Receive(r) \/ Park(r) \/ Admit(r) \/ WorkEnds(r) \/ Release(r)
       \/ ReplySend(r) \/ ReplyInvoke(r) \/ QueueTimeoutFires(r) \/ Refuse(r)
  \/ \E t \in Sends : CancelTask(t)

Spec == Init /\ [][Next]_vars

\* Queued jobs are executed, and timers served between them (hence strong
\* fairness; each fires once); admitted work is not assumed to end.
HandlerStep(r) == Park(r) \/ Admit(r) \/ Release(r) \/ Refuse(r)
                  \/ ReplySend(r) \/ ReplyInvoke(r)
HttpFairness ==
  /\ WF_vars(\E r \in Requests : HandlerStep(r))
  /\ SF_vars(\E r \in Requests : QueueTimeoutFires(r))

-----------------------------------------------------------------------------
\* What /health reports is coherent: every task listed as running holds a slot
\* of the limiter, whatever was cancelled or evicted in between.
RunningTasksHoldSlots ==
  /\ \A s \in Sends : registry.status[s] = "running" => s \in L!InStatus({"running"})
  /\ Cardinality({s \in Sends : registry.status[s] = "running"}) <= currentCount

\* How far the run of a task is, seen from its request.
RunOf(s) == CASE phase[s] \in {"new", "limited"} \/ reply[s] = "capacity" -> "new"
              [] phase[s] = "working" /\ status[s] = "running" -> "active"
              [] OTHER -> "ended"

Lifecycle == INSTANCE TaskLifecycle
  WITH TaskIds <- Sends, run <- [s \in Sends |-> RunOf(s)]

\* The servers use the registry as TaskLifecycle assumes it is used: a task is
\* registered and marked running when its run starts and not before, its result
\* is stored once, when the run ends, and only cancels come in between, however
\* requests wait, time out and are refused.  So what holds of TaskLifecycle holds
\* of the tasks a client of the servers sees, and a request answered 503 never had
\* one ("don't create task in registry if limiter rejects").
UsesRegistry == Lifecycle!LifecycleSpec

\* A client that sees its request parked is eventually let in or answered.
NobodyParkedForever ==
  \A r \in Requests : phase[r] = "limited" ~> phase[r] \in {"working", "replied"}

\* tasks/send answers with "the task that was created for this run".
ReplyNamesOwnTask == \A s \in Sends : reply[s] \in Sends => reply[s] = s
=============================================================================
