------------------------- MODULE ConcurrencyLimiter -------------------------
(***************************************************************************)
(* src/liku/utils/concurrencyLimiter.ts: a limiter that starts a task at   *)
(* once while fewer than MaxConcurrent run, and otherwise parks its caller *)
(* in a FIFO queue until a finishing task hands it a slot.                 *)
(*                                                                         *)
(* The class runs on one JavaScript thread, so what interleaves is the     *)
(* microtask queue: every piece of code between two awaits is one job, and *)
(* jobs run in the order in which they were queued.  `jobs' is that queue, *)
(* restricted to the jobs that touch the limiter; what the job of a caller *)
(* does is told by the caller's status.  Any other code of the process may *)
(* queue a call, or settle the promise of a running task, at any moment.   *)
(***************************************************************************)
EXTENDS Naturals, SequencesExt

CONSTANTS
  Callers,        \* asynchronous activities that use the limiter
  MaxConcurrent,  \* options.maxConcurrent
  QueueTimeout    \* options.queueTimeoutMs > 0

ASSUME LimiterAssumption ==
  /\ IsFiniteSet(Callers)
  /\ MaxConcurrent \in Nat \ {0}    \* the constructor throws otherwise
  /\ QueueTimeout \in BOOLEAN

VARIABLES
  currentCount,   \* the counter the class decides by
  queue,          \* callers parked in waitForSlot, oldest first
  timers,         \* parked callers whose timeout is armed
  status,         \* where each caller stands in run or tryRun
  jobs            \* microtask queue: callers with a job to execute, in order

vars == <<currentCount, queue, timers, status, jobs>>

\* Statuses of a caller that has a job in the microtask queue:
\*   calling / trying : about to enter run / tryRun
\*   woken            : next.resolve() was called, run has not resumed yet
\*   rejected         : entry.reject() was called, run has not thrown yet
\*   settling         : its task's promise settled, finally has not run yet
JobStatus == {"calling", "trying", "woken", "rejected", "settling"}
Status    == {"idle", "waiting", "running"} \union JobStatus

InStatus(S) == {p \in Callers : status[p] \in S}

Init ==
  /\ currentCount = 0
  /\ queue = <<>>
  /\ timers = {}
  /\ status = [p \in Callers |-> "idle"]
  /\ jobs = <<>>

-----------------------------------------------------------------------------
(* The environment: code outside the class that queues jobs.               *)

\* Some code is about to call run(task) (kind "calling") or tryRun(task).
Call(p, kind) ==
  /\ status[p] = "idle"
  /\ status' = [status EXCEPT ![p] = kind]
  /\ jobs' = Append(jobs, p)
  /\ UNCHANGED <<currentCount, queue, timers>>

\* The promise of p's task settles, fulfilled or rejected: finally runs anyway.
Settle(p) ==
  /\ status[p] = "running"
  /\ status' = [status EXCEPT ![p] = "settling"]
  /\ jobs' = Append(jobs, p)
  /\ UNCHANGED <<currentCount, queue, timers>>

-----------------------------------------------------------------------------
(* Jobs: the code of the class between two awaits.                         *)

Job(p, kind) == jobs # <<>> /\ Head(jobs) = p /\ status[p] = kind

\* currentCount++ and the call of task()
StartTask(p) ==
  /\ currentCount' = currentCount + 1
  /\ status' = [status EXCEPT ![p] = "running"]
  /\ jobs' = Tail(jobs)
  /\ UNCHANGED <<queue, timers>>

\* run below capacity: no await before the count is taken.
RunNow(p) ==
  /\ Job(p, "calling")
  /\ currentCount < MaxConcurrent
  /\ StartTask(p)

\* Mutated form of WaitForSlot: no timeout is armed.
WaitForSlotUntimed(p) ==
  /\ Job(p, "calling")
  /\ currentCount >= MaxConcurrent
  /\ queue' = Append(queue, p)
  /\ status' = [status EXCEPT ![p] = "waiting"]
  /\ jobs' = Tail(jobs)
  /\ UNCHANGED <<currentCount, timers>>

\* run at capacity: waitForSlot pushes an entry and arms its timeout.
WaitForSlot(p) ==
  /\ Job(p, "calling")
  /\ currentCount >= MaxConcurrent
  /\ queue' = Append(queue, p)
  /\ timers' = IF QueueTimeout THEN timers \union {p} ELSE timers
  /\ status' = [status EXCEPT ![p] = "waiting"]
  /\ jobs' = Tail(jobs)
  /\ UNCHANGED currentCount

\* run after `await this.waitForSlot()': the capacity is not tested again.
Resume(p) == Job(p, "woken") /\ StartTask(p)

\* tryRun: null at capacity, else run, whose own test then sees the same count.
TryRun(p) ==
  /\ Job(p, "trying")
  /\ \/ currentCount < MaxConcurrent /\ StartTask(p)
     \/ /\ currentCount >= MaxConcurrent
        /\ status' = [status EXCEPT ![p] = "idle"]
        /\ jobs' = Tail(jobs)
        /\ UNCHANGED <<currentCount, queue, timers>>

\* Mutated form of Finish: nobody is woken.
FinishWithoutWake(p) ==
  /\ Job(p, "settling")
  /\ currentCount' = currentCount - 1
  /\ status' = [status EXCEPT ![p] = "idle"]
  /\ jobs' = Tail(jobs)
  /\ UNCHANGED <<queue, timers>>

\* The end of p's task when the caller h is woken, and the count becomes n.
WakeUp(p, h, n) ==
  /\ currentCount' = n
  /\ timers' = timers \ {h}
  /\ status' = [status EXCEPT ![p] = "idle", ![h] = "woken"]
  /\ jobs' = Append(Tail(jobs), h)

\* Mutated form of Finish: the caller that was parked last is woken.
FinishLifo(p) ==
  \/ queue = <<>> /\ FinishWithoutWake(p)
  \/ /\ Job(p, "settling") /\ queue # <<>>
     /\ WakeUp(p, Last(queue), currentCount - 1)
     /\ queue' = Front(queue)

\* Mutated form of Finish: the count is left to the caller that is woken.
FinishTransfer(p) ==
  \/ queue = <<>> /\ FinishWithoutWake(p)
  \/ /\ Job(p, "settling") /\ queue # <<>>
     /\ WakeUp(p, Head(queue), currentCount)
     /\ queue' = Tail(queue)

\* The finally of run: the slot is given back, then the oldest waiter is woken.
Finish(p) ==
  /\ Job(p, "settling")
  /\ currentCount' = currentCount - 1
  /\ \/ /\ queue = <<>>
        /\ status' = [status EXCEPT ![p] = "idle"]
        /\ jobs' = Tail(jobs)
        /\ UNCHANGED <<queue, timers>>
     \/ /\ queue # <<>>
        /\ queue' = Tail(queue)
        /\ timers' = timers \ {Head(queue)}
        /\ status' = [status EXCEPT ![p] = "idle", ![Head(queue)] = "woken"]
        /\ jobs' = Append(Tail(jobs), Head(queue))

\* run rethrows the CapacityExceededError to its caller.
Throw(p) ==
  /\ Job(p, "rejected")
  /\ status' = [status EXCEPT ![p] = "idle"]
  /\ jobs' = Tail(jobs)
  /\ UNCHANGED <<currentCount, queue, timers>>

-----------------------------------------------------------------------------
(* Timer callbacks, and the operation that empties the queue.              *)

IndexIn(s, p) == CHOOSE i \in DOMAIN s : s[i] = p   \* indexOf; p is in s

\* Mutated form of TimeoutWait: the entry stays in the queue.
TimeoutWithoutSplice(p) ==
  /\ p \in timers
  /\ jobs = <<>>
  /\ timers' = timers \ {p}
  /\ status' = [status EXCEPT ![p] = "rejected"]
  /\ jobs' = Append(jobs, p)
  /\ UNCHANGED <<currentCount, queue>>

\* The setTimeout callback of waitForSlot; timers fire between two drains of
\* the microtask queue.  Rejecting a promise that is settled has no effect.
TimeoutWait(p) ==
  /\ p \in timers
  /\ jobs = <<>>
  /\ timers' = timers \ {p}
  /\ queue' = IF p \in ToSet(queue) THEN RemoveAt(queue, IndexIn(queue, p)) ELSE queue
  /\ IF status[p] = "waiting"
     THEN /\ status' = [status EXCEPT ![p] = "rejected"]
          /\ jobs' = Append(jobs, p)
     ELSE UNCHANGED <<status, jobs>>
  /\ UNCHANGED currentCount

\* clearQueue: every entry is shifted, its timeout cancelled, its wait rejected.
ClearQueue ==
  /\ queue # <<>>
  /\ queue' = <<>>
  /\ timers' = timers \ ToSet(queue)
  /\ status' = [p \in Callers |-> IF p \in ToSet(queue) THEN "rejected" ELSE status[p]]
  /\ jobs' = jobs \o queue
  /\ UNCHANGED currentCount

-----------------------------------------------------------------------------
RunJob == \E p \in Callers : RunNow(p) \/ WaitForSlot(p) \/ Resume(p)
                             \/ TryRun(p) \/ Finish(p) \/ Throw(p)

Next ==
  \/ \E p \in Callers : Call(p, "calling")
  \/ \E p \in Callers : Call(p, "trying")
  \/ \E p \in Callers : Settle(p)
  \/ RunJob
  \/ \E p \in Callers : TimeoutWait(p)
  \/ ClearQueue

Spec == Init /\ [][Next]_vars

\* The engine drains the microtask queue, and every task ends; a timeout may
\* fire or not.
LimiterFairness == WF_vars(RunJob) /\ \A p \in Callers : WF_vars(Settle(p))

-----------------------------------------------------------------------------
TypeOK ==
  /\ currentCount \in Nat
  /\ queue \in Seq(Callers)
  /\ timers \subseteq Callers
  /\ status \in [Callers -> Status]
  /\ jobs \in Seq(Callers)

\* The counter never drifts from the tasks whose slot is taken, although it
\* is read in one job and written in others.
CountIsRunning ==
  currentCount = Cardinality(InStatus({"running", "settling"}))

\* Work conservation: while a caller is parked, no slot is free that is not
\* already promised to a woken caller; no wake-up is ever lost.
NoStrandedWaiter ==
  queue # <<>> => currentCount + Cardinality(InStatus({"woken"})) >= MaxConcurrent

\* An entry is in the queue exactly while its caller is parked, once; its
\* timeout is armed for exactly that time.  A wake-up of a dead entry, or a
\* timeout of a served one, would break this.
QueueIsWaiting ==
  /\ ToSet(queue) = InStatus({"waiting"})
  /\ IsInjective(queue)
  /\ timers = IF QueueTimeout THEN InStatus({"waiting"}) ELSE {}

\* The microtask queue holds exactly the callers that have a job, once each.
JobsMatchStatus ==
  /\ ToSet(jobs) = InStatus(JobStatus)
  /\ IsInjective(jobs)

\* The promise of the class comment, "runs at most `maxConcurrent` at once".
AtMostMaxConcurrent == currentCount <= MaxConcurrent

\* What holds in its place.  Slots taken or promised exceed MaxConcurrent only through
\* a call that starts at once between the wake-up of a parked caller and its resumption;
\* nothing else that happens, a hand-over least of all, takes a slot too many.
Taken == currentCount + Cardinality(InStatus({"woken"}))
OnlyOvertakingExceeds ==
  [][Taken' > MaxConcurrent /\ Taken' > Taken =>
       /\ InStatus({"woken"}) # {}
       /\ \E p \in Callers : status[p] \in {"calling", "trying"} /\ status'[p] = "running"]_vars

\* First come, first served among the parked: a caller is woken only when
\* nobody who parked before it stays parked.
WokenInOrder ==
  [][\A p, q \in Callers :
       (/\ \E i, j \in DOMAIN queue : i < j /\ queue[i] = p /\ queue[j] = q
        /\ status'[q] = "woken") => status'[p] # "waiting"]_vars

\* The callers that parked before p and are parked still.
Ahead(p) == {q \in Callers : \E i, j \in DOMAIN queue : i < j /\ queue[i] = q /\ queue[j] = p}

\* A parked caller moves up: nobody who parks later gets ahead of it, and each end of
\* a task takes one away from those ahead, until its own turn comes.
EveryEndAdvances ==
  [][\A p \in Callers : status[p] = "waiting" /\ status'[p] = "waiting" =>
       /\ Ahead(p)' \subseteq Ahead(p)
       /\ currentCount' < currentCount => Ahead(p)' # Ahead(p)]_vars

\* If tasks end, a parked caller runs or is told that it will not, even if no
\* timeout ever fires and newcomers keep taking the slots.
EveryWaiterServed ==
  \A p \in Callers : status[p] = "waiting" ~> status[p] \in {"running", "rejected"}
=============================================================================
