-------------------------- MODULE TenantConcurrency --------------------------
(***************************************************************************)
(* src/enterprise/auth/rateLimiter.ts, the other half: a server that       *)
(* mounts createRateLimitMiddleware and, further down its chain,           *)
(* createConcurrentTaskMiddleware, seen from one tenant.  checkLimit reads *)
(* the count of running tasks; what is mounted in between may await, so    *)
(* other requests pass checkLimit before this one is counted.  reset and   *)
(* clear forget the count of tasks that still run.                         *)
(***************************************************************************)
EXTENDS TenantGuards, FiniteSets

CONSTANTS
  TaskRequests,   \* requests of the tenant
  TaskLimit,      \* its maxConcurrentTasks
  RequestLimit,   \* its requestsPerMinute
  MaxGuardTime    \* bound on the clock

ASSUME ConcurrencyAssumption ==
  IsFiniteSet(TaskRequests) /\ TaskLimit \in Nat /\ RequestLimit \in Nat /\ MaxGuardTime \in Nat

VARIABLES
  guardNow,  \* Date.now()
  window,    \* state of the tenant in the limiter
  task,      \* where each request is
  crowd,     \* largest number of requests that were admitted and not yet counted (history)
  forgotten  \* a reset forgot running tasks (history)

guardVars == <<guardNow, window, task, crowd, forgotten>>

InStage(stage) == {r \in TaskRequests : task[r] = stage}
Counted == Cardinality(InStage("running"))
Uncounted == Cardinality(InStage("admitted"))

GuardInit ==
  /\ guardNow = 0 /\ window = NewWindow
  /\ task = [r \in TaskRequests |-> "new"]
  /\ crowd = 0 /\ forgotten = FALSE

\* The rate limit middleware: checkLimit, and next or 429.
CheckRequest(r) ==
  LET answer == CheckLimit(window, RequestLimit, TaskLimit, guardNow)
      admitted == answer.verdict = "allowed"
  IN /\ task[r] = "new"
     /\ window' = answer.window
     /\ task' = [task EXCEPT ![r] = IF admitted THEN "admitted" ELSE "refused"]
     /\ crowd' = IF admitted /\ Uncounted + 1 > crowd THEN Uncounted + 1 ELSE crowd
     /\ UNCHANGED <<guardNow, forgotten>>

\* What is mounted in between (policy, permission) refuses the request.
DropRequest(r) ==
  /\ task[r] = "admitted"
  /\ task' = [task EXCEPT ![r] = "refused"]
  /\ UNCHANGED <<guardNow, window, crowd, forgotten>>

\* The concurrent task middleware up to its await: incrementConcurrent.
CountTask(r) ==
  /\ task[r] = "admitted"
  /\ window' = [window EXCEPT !.runningTasks = @ + 1]
  /\ task' = [task EXCEPT ![r] = "running"]
  /\ UNCHANGED <<guardNow, crowd, forgotten>>

\* Mutated form of FinishTask: a task that throws is not counted down.
FinishTaskWithoutFinally(r) ==
  /\ task[r] = "running"
  /\ \E throws \in BOOLEAN :
       window' = [window EXCEPT !.runningTasks = IF throws \/ @ = 0 THEN @ ELSE @ - 1]
  /\ task' = [task EXCEPT ![r] = "done"]
  /\ UNCHANGED <<guardNow, crowd, forgotten>>

\* Its finally block, whether the task returns or throws: decrementConcurrent.
FinishTask(r) ==
  /\ task[r] = "running"
  /\ window' = [window EXCEPT !.runningTasks = IF @ = 0 THEN 0 ELSE @ - 1]
  /\ task' = [task EXCEPT ![r] = "done"]
  /\ UNCHANGED <<guardNow, crowd, forgotten>>

\* reset of the tenant, or clear.
ResetTenant ==
  /\ window # NewWindow
  /\ window' = NewWindow
  /\ forgotten' = (forgotten \/ Counted > 0)
  /\ UNCHANGED <<guardNow, task, crowd>>

GuardTick ==
  /\ guardNow < MaxGuardTime
  /\ guardNow' = guardNow + 1
  /\ UNCHANGED <<window, task, crowd, forgotten>>

GuardNext ==
  \/ \E r \in TaskRequests : CheckRequest(r) \/ DropRequest(r) \/ CountTask(r) \/ FinishTask(r)
  \/ ResetTenant \/ GuardTick

GuardSpec == GuardInit /\ [][GuardNext]_guardVars

----------------------------------------------------------------------------
\* The count never overstates the running tasks, so a tenant is never refused
\* for tasks that are over, and without a reset in between it is exact.  Then
\* maxConcurrentTasks is exceeded by no more than the requests that waited
\* between the two middlewares together, less one: not at all if nothing awaits
\* there, and never more because of how many came in turn.
ConcurrencyBounded ==
  /\ window.runningTasks <= Counted
  /\ ~forgotten => window.runningTasks = Counted
  /\ ~forgotten /\ Counted > 0 => Counted + Uncounted <= TaskLimit - 1 + crowd
=============================================================================
