----------------------- MODULE ConcurrencyLimiterProofs -----------------------
(***************************************************************************)
(* The limiter keeps its promises for any number of callers, any capacity  *)
(* and any schedule.  None of its invariants is inductive alone: that the  *)
(* counter is right depends on a finishing job being the only job of its   *)
(* caller, that a woken caller was parked depends on the queue, and so on. *)
(* Their conjunction IInv is.                                              *)
(***************************************************************************)
EXTENDS ConcurrencyLimiter, SequenceLemmas, FiniteSetTheorems

IInv ==
  /\ TypeOK
  /\ JobsMatchStatus
  /\ QueueIsWaiting
  /\ CountIsRunning
  /\ NoStrandedWaiter

\* The conjuncts about the two queues, and those about the counter.
Shape == TypeOK /\ JobsMatchStatus /\ QueueIsWaiting
Count == CountIsRunning /\ NoStrandedWaiter

-----------------------------------------------------------------------------
\* Changing the status of one caller moves that caller, and no other.
LEMMA OneMoves ==
  ASSUME NEW p \in Callers, NEW v \in Status, NEW X,
         status \in [Callers -> Status], status' = [status EXCEPT ![p] = v]
  PROVE  /\ status' \in [Callers -> Status]
         /\ InStatus(X)' = IF v \in X THEN InStatus(X) \union {p} ELSE InStatus(X) \ {p}
BY DEF InStatus

\* The caller whose job is at the head of the microtask queue.
LEMMA HeadJob ==
  ASSUME Shape, NEW p \in Callers, NEW k, Job(p, k)
  PROVE  /\ status[p] = k
         /\ Tail(jobs) \in Seq(Callers)
         /\ ToSet(Tail(jobs)) = InStatus(JobStatus) \ {p}
         /\ IsInjective(Tail(jobs))
  BY TailLemma DEF Shape, TypeOK, JobsMatchStatus, Job

\* The cardinalities of the sets the counter is compared with.
LEMMA Counting ==
  ASSUME NEW p \in Callers, NEW X
  PROVE  /\ Cardinality(InStatus(X)) \in Nat
         /\ p \notin InStatus(X) => Cardinality(InStatus(X) \union {p}) = Cardinality(InStatus(X)) + 1
         /\ p \in InStatus(X) => /\ Cardinality(InStatus(X) \ {p}) = Cardinality(InStatus(X)) - 1
                                 /\ Cardinality(InStatus(X)) > 0
         /\ p \notin InStatus(X) => InStatus(X) \ {p} = InStatus(X)
<1>1. IsFiniteSet(InStatus(X))
  BY LimiterAssumption, FS_Subset DEF InStatus
<1>2. Cardinality(InStatus(X)) \in Nat /\ Cardinality(InStatus(X) \ {p}) \in Nat
  BY <1>1, FS_CardinalityType, FS_RemoveElement
<1>3. p \notin InStatus(X) => Cardinality(InStatus(X) \union {p}) = Cardinality(InStatus(X)) + 1
  BY <1>1, FS_AddElement
<1>4. p \in InStatus(X) => Cardinality(InStatus(X) \ {p}) = Cardinality(InStatus(X)) - 1
  BY <1>1, FS_RemoveElement
<1>5. p \notin InStatus(X) => InStatus(X) \ {p} = InStatus(X)
  OBVIOUS
<1> HIDE DEF InStatus
<1>q. QED BY <1>2, <1>3, <1>4, <1>5

-----------------------------------------------------------------------------
\* A fresh limiter satisfies the invariant: nobody runs, waits or has a job.
LEMMA InitIInv == Init => IInv
<1>1. SUFFICES ASSUME Init PROVE IInv
  OBVIOUS
<1>2. \A X : "idle" \notin X => InStatus(X) = {}
  BY <1>1 DEF Init, InStatus
<1>3. TypeOK
  BY <1>1, EmptySeq DEF Init, TypeOK, Status
<1>4. ToSet(<<>>) = {} /\ IsInjective(<<>>)
  BY DEF ToSet, IsInjective
<1>5. InStatus(JobStatus) = {} /\ InStatus({"waiting"}) = {} /\ InStatus({"running", "settling"}) = {}
  BY <1>2 DEF JobStatus
<1>6. JobsMatchStatus /\ QueueIsWaiting
  BY <1>1, <1>4, <1>5 DEF Init, JobsMatchStatus, QueueIsWaiting
<1>7. CountIsRunning /\ NoStrandedWaiter
  BY <1>1, <1>5, FS_EmptySet DEF Init, CountIsRunning, NoStrandedWaiter
<1>q. QED BY <1>3, <1>6, <1>7 DEF IInv

-----------------------------------------------------------------------------
(* The two queues.                                                         *)

\* A call or a settled promise queues a job for a caller that has none.
LEMMA QueueingShape ==
  ASSUME Shape, NEW p \in Callers, NEW v \in JobStatus, status[p] \in {"idle", "running"},
         status' = [status EXCEPT ![p] = v], jobs' = Append(jobs, p),
         UNCHANGED <<currentCount, queue, timers>>
  PROVE  Shape'
<1>1. v \in Status /\ v # "waiting"
  BY DEF JobStatus, Status
<1>2. status' \in [Callers -> Status] /\ InStatus(JobStatus)' = InStatus(JobStatus) \union {p}
      /\ InStatus({"waiting"})' = InStatus({"waiting"})
  BY <1>1 DEF Shape, TypeOK, InStatus
<1>3. p \notin ToSet(jobs)
  BY DEF Shape, JobsMatchStatus, InStatus, JobStatus
<1>4. jobs' \in Seq(Callers) /\ ToSet(jobs') = ToSet(jobs) \union {p} /\ IsInjective(jobs')
  BY <1>3, AppendLemma DEF Shape, TypeOK, JobsMatchStatus
<1>q. QED BY <1>2, <1>4 DEF Shape, TypeOK, JobsMatchStatus, QueueIsWaiting

\* A job that ends with its caller neither parked nor in need of another job.
LEMMA JobDoneShape ==
  ASSUME Shape, NEW p \in Callers, NEW k \in JobStatus, Job(p, k),
         NEW v \in {"idle", "running"},
         status' = [status EXCEPT ![p] = v], jobs' = Tail(jobs),
         currentCount' \in Nat, UNCHANGED <<queue, timers>>
  PROVE  Shape'
<1>1. status' \in [Callers -> Status] /\ InStatus(JobStatus)' = InStatus(JobStatus) \ {p}
      /\ InStatus({"waiting"})' = InStatus({"waiting"})
  BY HeadJob DEF Shape, TypeOK, InStatus, JobStatus, Status
<1>q. QED BY <1>1, HeadJob DEF Shape, TypeOK, JobsMatchStatus, QueueIsWaiting

\* Parking a caller adds one queue entry, one timeout, and takes away one job.
LEMMA WaitForSlotShape == ASSUME Shape, NEW p \in Callers, WaitForSlot(p) PROVE Shape'
<1>1. /\ Job(p, "calling") /\ status[p] = "calling"
      /\ status' = [status EXCEPT ![p] = "waiting"]
      /\ queue' = Append(queue, p) /\ jobs' = Tail(jobs) /\ currentCount' = currentCount
      /\ timers' = IF QueueTimeout THEN timers \union {p} ELSE timers
  BY DEF WaitForSlot, Job
<1>2. status' \in [Callers -> Status] /\ InStatus(JobStatus)' = InStatus(JobStatus) \ {p}
      /\ InStatus({"waiting"})' = InStatus({"waiting"}) \union {p}
  BY <1>1 DEF Shape, TypeOK, InStatus, JobStatus, Status
<1>3. p \notin ToSet(queue)
  BY <1>1 DEF Shape, QueueIsWaiting, InStatus
<1>4. queue' \in Seq(Callers) /\ ToSet(queue') = ToSet(queue) \union {p} /\ IsInjective(queue')
  BY <1>1, <1>3, AppendLemma DEF Shape, TypeOK, QueueIsWaiting
<1>q. QED BY <1>1, <1>2, <1>4, HeadJob DEF Shape, TypeOK, JobsMatchStatus, QueueIsWaiting

\* The finally of run hands the slot to the caller h that was parked first.
LEMMA HandOver ==
  ASSUME Shape, NEW p \in Callers, Finish(p), queue # <<>>, NEW h, h = Head(queue)
  PROVE  /\ h \in Callers /\ h # p /\ status[h] = "waiting" /\ status[p] = "settling"
         /\ status' \in [Callers -> Status]
         /\ \A q \in Callers : status'[q] = IF q = h THEN "woken"
                                            ELSE IF q = p THEN "idle" ELSE status[q]
         /\ queue' = Tail(queue) /\ jobs' = Append(Tail(jobs), h) /\ timers' = timers \ {h}
         /\ currentCount' = currentCount - 1
<1>1. h \in Callers /\ h \in ToSet(queue)
  BY TailLemma DEF Shape, TypeOK, QueueIsWaiting
<1>2. status[h] = "waiting"
  BY <1>1 DEF Shape, QueueIsWaiting, InStatus
<1>3. /\ status[p] = "settling"
      /\ status' = [status EXCEPT ![p] = "idle", ![h] = "woken"]
      /\ queue' = Tail(queue) /\ jobs' = Append(Tail(jobs), h) /\ timers' = timers \ {h}
      /\ currentCount' = currentCount - 1
  BY DEF Finish, Job
<1>q. QED BY <1>1, <1>2, <1>3 DEF Shape, TypeOK, Status, JobStatus

\* The finally of run, with or without somebody parked.
LEMMA FinishShape ==
  ASSUME Shape, NEW p \in Callers, Finish(p), currentCount' \in Nat PROVE Shape'
<1>1. Job(p, "settling") /\ "settling" \in JobStatus
  BY DEF Finish, JobStatus
<1>2. CASE queue = <<>>
  BY <1>1, <1>2, JobDoneShape DEF Finish
<1>3. CASE queue # <<>>
  <2>0. PICK h : h = Head(queue)
    OBVIOUS
  <2>1. /\ h \in Callers /\ h # p /\ status[h] = "waiting" /\ status[p] = "settling"
        /\ status' \in [Callers -> Status]
        /\ \A q \in Callers : status'[q] = IF q = h THEN "woken"
                                           ELSE IF q = p THEN "idle" ELSE status[q]
        /\ queue' = Tail(queue) /\ jobs' = Append(Tail(jobs), h) /\ timers' = timers \ {h}
    BY <1>3, <2>0, HandOver
  <2>2. /\ Tail(queue) \in Seq(Callers) /\ IsInjective(Tail(queue))
        /\ ToSet(Tail(queue)) = ToSet(queue) \ {h}
    BY <1>3, <2>0, TailLemma DEF Shape, TypeOK, QueueIsWaiting
  <2>3. InStatus(JobStatus)' = (InStatus(JobStatus) \ {p}) \union {h}
    BY <2>1 DEF InStatus, JobStatus
  <2>4. InStatus({"waiting"})' = InStatus({"waiting"}) \ {h}
    BY <2>1 DEF InStatus
  <2>5. h \notin ToSet(Tail(jobs))
    BY <1>1, <2>1, HeadJob DEF InStatus, JobStatus
  <2>6. jobs' \in Seq(Callers) /\ ToSet(jobs') = ToSet(Tail(jobs)) \union {h} /\ IsInjective(jobs')
    <3>1. ASSUME NEW t \in Seq(Callers), IsInjective(t), h \notin ToSet(t)
          PROVE  /\ Append(t, h) \in Seq(Callers)
                 /\ ToSet(Append(t, h)) = ToSet(t) \union {h}
                 /\ IsInjective(Append(t, h))
      <4>1. h \in Callers
        BY <2>1
      <4>q. QED BY <3>1, <4>1, AppendLemma
    <3>2. Tail(jobs) \in Seq(Callers) /\ IsInjective(Tail(jobs))
      BY <1>1, HeadJob
    <3>q. QED BY <2>1, <2>5, <3>1, <3>2, Zenon
  <2>7. JobsMatchStatus'
    BY <1>1, <2>3, <2>6, HeadJob DEF JobsMatchStatus
  <2>8. QueueIsWaiting'
    BY <2>1, <2>2, <2>4 DEF Shape, QueueIsWaiting
  <2>9. TypeOK'
    BY <2>1, <2>2, <2>6 DEF Shape, TypeOK
  <2>q. QED BY <2>7, <2>8, <2>9 DEF Shape
<1>q. QED BY <1>2, <1>3

\* The timeout callback takes out the entry of the caller it rejects, no other.
LEMMA TimeoutShape == ASSUME Shape, NEW p \in Callers, TimeoutWait(p) PROVE Shape'
<1>1. p \in ToSet(queue) /\ status[p] = "waiting" /\ QueueTimeout
  BY DEF TimeoutWait, Shape, QueueIsWaiting, InStatus
<1>2. /\ status' = [status EXCEPT ![p] = "rejected"] /\ jobs' = Append(jobs, p)
      /\ timers' = timers \ {p} /\ queue' = RemoveAt(queue, IndexIn(queue, p))
      /\ currentCount' = currentCount
  BY <1>1 DEF TimeoutWait
<1>3. queue' \in Seq(Callers) /\ ToSet(queue') = ToSet(queue) \ {p} /\ IsInjective(queue')
  BY <1>1, <1>2, RemoveLemma DEF Shape, TypeOK, QueueIsWaiting, IndexIn
<1>4. status' \in [Callers -> Status] /\ InStatus(JobStatus)' = InStatus(JobStatus) \union {p}
      /\ InStatus({"waiting"})' = InStatus({"waiting"}) \ {p}
  BY <1>1, <1>2 DEF Shape, TypeOK, InStatus, JobStatus, Status
<1>5. p \notin ToSet(jobs)
  BY <1>1 DEF Shape, JobsMatchStatus, InStatus, JobStatus
<1>6. jobs' \in Seq(Callers) /\ ToSet(jobs') = ToSet(jobs) \union {p} /\ IsInjective(jobs')
  BY <1>2, <1>5, AppendLemma DEF Shape, TypeOK, JobsMatchStatus
<1>q. QED BY <1>1, <1>2, <1>3, <1>4, <1>6 DEF Shape, TypeOK, JobsMatchStatus, QueueIsWaiting

\* clearQueue turns every parked caller into a rejected one, with a job each.
LEMMA ClearQueueShape == ASSUME Shape, ClearQueue PROVE Shape'
<1>1. /\ queue' = <<>> /\ jobs' = jobs \o queue /\ currentCount' = currentCount
      /\ timers' = timers \ ToSet(queue)
      /\ status' = [p \in Callers |-> IF p \in ToSet(queue) THEN "rejected" ELSE status[p]]
  BY DEF ClearQueue
<1>2. ToSet(queue) = InStatus({"waiting"}) /\ ToSet(jobs) = InStatus(JobStatus)
  BY DEF Shape, QueueIsWaiting, JobsMatchStatus
<1>3. status' \in [Callers -> Status] /\ InStatus({"waiting"})' = {}
      /\ InStatus(JobStatus)' = InStatus(JobStatus) \union InStatus({"waiting"})
  BY <1>1, <1>2 DEF Shape, TypeOK, InStatus, JobStatus, Status
<1>4. ToSet(jobs) \intersect ToSet(queue) = {}
  BY <1>2 DEF InStatus, JobStatus
<1>5. jobs' \in Seq(Callers) /\ ToSet(jobs') = ToSet(jobs) \union ToSet(queue) /\ IsInjective(jobs')
  BY <1>1, <1>4, ConcatLemma DEF Shape, TypeOK, JobsMatchStatus, QueueIsWaiting
<1>6. queue' \in Seq(Callers) /\ ToSet(queue') = {} /\ IsInjective(queue')
  BY <1>1, EmptySeq DEF ToSet, IsInjective
<1>7. timers' \subseteq Callers /\ timers' = {}
  BY <1>1, <1>2 DEF Shape, TypeOK, QueueIsWaiting
<1>q. QED BY <1>1, <1>2, <1>3, <1>5, <1>6, <1>7 DEF Shape, TypeOK, JobsMatchStatus, QueueIsWaiting
\* Every step keeps the queues and the statuses in agreement, as long as the
\* counter stays a natural number.
LEMMA StepShape == ASSUME Shape, Next, currentCount' \in Nat PROVE Shape'
<1>1. ASSUME NEW p \in Callers, NEW k \in {"calling", "trying"}, Call(p, k) PROVE Shape'
  BY <1>1, QueueingShape DEF Call, JobStatus
<1>2. ASSUME NEW p \in Callers, Settle(p) PROVE Shape'
  BY <1>2, QueueingShape DEF Settle, JobStatus
<1>3. ASSUME NEW p \in Callers, NEW k \in JobStatus, Job(p, k), StartTask(p) PROVE Shape'
  BY <1>3, JobDoneShape DEF StartTask
<1>4. ASSUME NEW p \in Callers, RunNow(p) \/ Resume(p) PROVE Shape'
  BY <1>3, <1>4 DEF RunNow, Resume, JobStatus
<1>5. ASSUME NEW p \in Callers, TryRun(p) PROVE Shape'
  <2>1. Job(p, "trying") /\ "trying" \in JobStatus
    BY <1>5 DEF TryRun, JobStatus
  <2>2. CASE StartTask(p)
    BY <1>3, <2>1, <2>2
  <2>3. CASE status' = [status EXCEPT ![p] = "idle"] /\ jobs' = Tail(jobs)
             /\ UNCHANGED <<currentCount, queue, timers>>
    BY <2>1, <2>3, JobDoneShape
  <2>q. QED BY <1>5, <2>2, <2>3 DEF TryRun
<1>6. ASSUME NEW p \in Callers, Throw(p) PROVE Shape'
  BY <1>6, JobDoneShape DEF Throw, JobStatus
<1>7. ASSUME NEW p \in Callers, WaitForSlot(p) PROVE Shape'
  BY <1>7, WaitForSlotShape
<1>8. ASSUME NEW p \in Callers, Finish(p) PROVE Shape'
  BY <1>8, FinishShape
<1>9. ASSUME NEW p \in Callers, TimeoutWait(p) PROVE Shape'
  BY <1>9, TimeoutShape
<1>q. QED BY <1>1, <1>2, <1>4, <1>5, <1>6, <1>7, <1>8, <1>9, ClearQueueShape DEF Next, RunJob

-----------------------------------------------------------------------------
(* The counter.                                                            *)

Held  == InStatus({"running", "settling"})   \* the callers that hold a slot
Woken == InStatus({"woken"})                 \* the callers promised one

\* Starting a task moves its caller into Held, and out of Woken if it was there.
LEMMA StartTaskCount ==
  ASSUME Shape, Count, NEW p \in Callers, NEW k \in JobStatus \ {"settling"}, Job(p, k),
         StartTask(p)
  PROVE  Count' /\ currentCount' \in Nat
<1>1. /\ status[p] = k /\ status' = [status EXCEPT ![p] = "running"]
      /\ currentCount' = currentCount + 1 /\ queue' = queue
  BY DEF StartTask, Job
<1>2. Held' = Held \union {p} /\ Woken' = Woken \ {p} /\ p \notin Held
  BY <1>1 DEF Held, Woken, Shape, TypeOK, InStatus, JobStatus
<1>3. Cardinality(Held)' = Cardinality(Held) + 1 /\ Cardinality(Held) \in Nat
  BY <1>2, Counting DEF Held
<1>4. Cardinality(Woken)' >= Cardinality(Woken) - 1 /\ Cardinality(Woken) \in Nat
      /\ Cardinality(Woken)' \in Nat
  <2>1. /\ Cardinality(Woken) \in Nat
        /\ p \in Woken => Cardinality(Woken \ {p}) = Cardinality(Woken) - 1 /\ Cardinality(Woken) > 0
        /\ p \notin Woken => Woken \ {p} = Woken
    BY Counting DEF Woken
  <2>2. CASE p \in Woken
    <3>1. Cardinality(Woken)' = Cardinality(Woken) - 1
      BY <1>2, <2>1, <2>2
    <3>q. QED BY <2>1, <2>2, <3>1
  <2>3. CASE p \notin Woken
    <3>1. Cardinality(Woken)' = Cardinality(Woken)
      BY <1>2, <2>1, <2>3
    <3>q. QED BY <2>1, <3>1
  <2>q. QED BY <2>2, <2>3
<1>5. CountIsRunning'
  BY <1>1, <1>3 DEF Count, CountIsRunning, Held
<1>6. NoStrandedWaiter'
  BY <1>1, <1>3, <1>4, LimiterAssumption DEF Count, CountIsRunning, NoStrandedWaiter, Held, Woken
<1>q. QED BY <1>1, <1>3, <1>5, <1>6 DEF Count, CountIsRunning, Held
\* Any step that moves no caller into or out of Held and Woken, and parks
\* nobody while a slot is free.
LEMMA QuietCount ==
  ASSUME Shape, Count, currentCount' = currentCount,
         status' \in [Callers -> Status],
         \A q \in Callers :
           /\ status'[q] \in {"running", "settling"} <=> status[q] \in {"running", "settling"}
           /\ status'[q] = "woken" <=> status[q] = "woken",
         queue' # <<>> => queue # <<>> \/ currentCount >= MaxConcurrent
  PROVE  Count' /\ currentCount' \in Nat
<1>1. Held' = Held /\ Woken' = Woken
  BY DEF Held, Woken, InStatus
<1>2. Cardinality(Woken) \in Nat /\ currentCount \in Nat
  <2>1. IsFiniteSet(Woken)
    BY LimiterAssumption, FS_Subset DEF Woken, InStatus
  <2>q. QED BY <2>1, FS_CardinalityType DEF Shape, TypeOK
<1>q. QED BY <1>1, <1>2, LimiterAssumption
          DEF Count, CountIsRunning, NoStrandedWaiter, Held, Woken

\* A finishing task gives its slot back; if somebody is parked, the slot is
\* promised to that caller in the same step.
LEMMA FinishCount ==
  ASSUME Shape, Count, NEW p \in Callers, Finish(p)
  PROVE  Count' /\ currentCount' \in Nat
<1>1. status[p] = "settling" /\ currentCount' = currentCount - 1 /\ p \in Held
  BY DEF Finish, Job, Held, InStatus
<1>2. /\ Cardinality(Held) \in Nat /\ Cardinality(Held) > 0
      /\ Cardinality(Held \ {p}) = Cardinality(Held) - 1
  BY <1>1, Counting DEF Held
<1>3. CASE queue = <<>>
  <2>1. status' = [status EXCEPT ![p] = "idle"] /\ queue' = <<>>
    BY <1>3 DEF Finish
  <2>2. Held' = Held \ {p}
    BY <2>1 DEF Held, InStatus, Shape, TypeOK
  <2>3. Cardinality(Held)' = Cardinality(Held) - 1
    BY <1>2, <2>2
  <2>4. CountIsRunning' /\ currentCount' \in Nat
    BY <1>1, <1>2, <2>3 DEF Count, CountIsRunning, Held
  <2>q. QED BY <2>1, <2>4 DEF Count, NoStrandedWaiter
<1>4. CASE queue # <<>>
  <2>1. PICK h : h = Head(queue)
    OBVIOUS
  <2>2. /\ h \in Callers /\ h # p /\ status[h] = "waiting"
        /\ \A q \in Callers : status'[q] = IF q = h THEN "woken"
                                           ELSE IF q = p THEN "idle" ELSE status[q]
    BY <1>4, <2>1, HandOver
  <2>3. Held' = Held \ {p} /\ Woken' = Woken \union {h} /\ h \notin Woken
    BY <1>1, <2>2 DEF Held, Woken, InStatus
  <2>4. Cardinality(Woken)' = Cardinality(Woken) + 1 /\ Cardinality(Woken) \in Nat
    BY <2>2, <2>3, Counting, ZenonT(60) DEF Woken
  <2>5. Cardinality(Held)' = Cardinality(Held) - 1
    BY <1>2, <2>3
  <2>6. CountIsRunning' /\ currentCount' \in Nat
    BY <1>1, <1>2, <2>5 DEF Count, CountIsRunning, Held
  <2>7. currentCount + Cardinality(Woken) >= MaxConcurrent /\ currentCount \in Nat
    BY <1>4 DEF Count, NoStrandedWaiter, Woken, Shape, TypeOK
  <2>8. NoStrandedWaiter'
    BY <1>1, <2>4, <2>7, LimiterAssumption DEF NoStrandedWaiter, Woken
  <2>q. QED BY <2>6, <2>8 DEF Count
<1>q. QED BY <1>3, <1>4

\* Every step keeps the counter equal to the slots taken, and no slot idle
\* while a caller is parked.
LEMMA StepCount == ASSUME Shape, Count, Next PROVE Count' /\ currentCount' \in Nat
<1> DEFINE G == Count' /\ currentCount' \in Nat
<1>1. ASSUME NEW p \in Callers, NEW k \in JobStatus \ {"settling"}, Job(p, k), StartTask(p) PROVE G
  BY <1>1, StartTaskCount
<1>2. ASSUME NEW p \in Callers, NEW v \in Status \ {"woken", "running", "settling"},
             status[p] \notin {"woken", "running", "settling"},
             status' = [status EXCEPT ![p] = v], currentCount' = currentCount,
             queue' # <<>> => queue # <<>> \/ currentCount >= MaxConcurrent
      PROVE  G
  <2>1. status' \in [Callers -> Status]
    BY <1>2 DEF Shape, TypeOK
  <2>2. \A q \in Callers : status'[q] = IF q = p THEN v ELSE status[q]
    BY <1>2 DEF Shape, TypeOK
  <2>q. QED BY <1>2, <2>1, <2>2, QuietCount
<1>3. ASSUME NEW p \in Callers, NEW k \in {"calling", "trying"}, Call(p, k) PROVE G
  BY <1>2, <1>3 DEF Call, Status, JobStatus
<1>4. ASSUME NEW p \in Callers, Settle(p) PROVE G
  <2>1. /\ status[p] = "running" /\ status' = [status EXCEPT ![p] = "settling"]
        /\ currentCount' = currentCount /\ queue' = queue
    BY <1>4 DEF Settle
  <2>2. status' \in [Callers -> Status]
        /\ \A q \in Callers : status'[q] = IF q = p THEN "settling" ELSE status[q]
    BY <2>1 DEF Shape, TypeOK, Status, JobStatus
  <2>q. QED BY <2>1, <2>2, QuietCount
<1>5. ASSUME NEW p \in Callers, RunNow(p) \/ Resume(p) PROVE G
  BY <1>1, <1>5 DEF RunNow, Resume, JobStatus
<1>6. ASSUME NEW p \in Callers, TryRun(p) PROVE G
  <2>1. Job(p, "trying") /\ status[p] = "trying" /\ "trying" \in JobStatus \ {"settling"}
    BY <1>6 DEF TryRun, Job, JobStatus
  <2>2. CASE StartTask(p)
    BY <1>1, <2>1, <2>2
  <2>3. CASE status' = [status EXCEPT ![p] = "idle"] /\ UNCHANGED <<currentCount, queue, timers>>
    BY <1>2, <2>1, <2>3 DEF Status, JobStatus
  <2>q. QED BY <1>6, <2>2, <2>3 DEF TryRun
<1>7. ASSUME NEW p \in Callers, Throw(p) PROVE G
  BY <1>2, <1>7 DEF Throw, Job, Status, JobStatus
<1>8. ASSUME NEW p \in Callers, WaitForSlot(p) PROVE G
  BY <1>2, <1>8 DEF WaitForSlot, Job, Status, JobStatus
<1>9. ASSUME NEW p \in Callers, TimeoutWait(p) PROVE G
  <2>1. /\ p \in ToSet(queue) /\ status[p] = "waiting"
        /\ status' = [status EXCEPT ![p] = "rejected"] /\ currentCount' = currentCount
    BY <1>9 DEF TimeoutWait, Shape, QueueIsWaiting, InStatus
  <2>2. queue # <<>>
    BY <2>1, ToSetBound DEF Shape, TypeOK
  <2>q. QED BY <1>2, <2>1, <2>2 DEF Status, JobStatus
<1>10. ASSUME ClearQueue PROVE G
  <2>1. /\ queue # <<>> /\ currentCount' = currentCount
        /\ status' = [q \in Callers |-> IF q \in ToSet(queue) THEN "rejected" ELSE status[q]]
    BY <1>10 DEF ClearQueue
  <2>2. \A q \in ToSet(queue) : status[q] = "waiting"
    BY DEF Shape, QueueIsWaiting, InStatus
  <2>3. status' \in [Callers -> Status]
    BY <2>1 DEF Shape, TypeOK, Status, JobStatus
  <2>4. \A q \in Callers :
          /\ status'[q] \in {"running", "settling"} <=> status[q] \in {"running", "settling"}
          /\ status'[q] = "woken" <=> status[q] = "woken"
    BY <2>1, <2>2
  <2>q. QED BY <2>1, <2>3, <2>4, QuietCount
<1>q. QED BY <1>3, <1>4, <1>5, <1>6, <1>7, <1>8, <1>9, <1>10, FinishCount DEF Next, RunJob

-----------------------------------------------------------------------------
\* Every step preserves the conjunction.
THEOREM NextIInv == IInv /\ [Next]_vars => IInv'
<1>1. SUFFICES ASSUME IInv, [Next]_vars PROVE IInv'
  OBVIOUS
<1>2. CASE Next
  BY <1>1, <1>2, StepShape, StepCount DEF IInv, Shape, Count
<1>3. CASE UNCHANGED vars
  BY <1>1, <1>3 DEF vars, IInv, TypeOK, JobsMatchStatus, QueueIsWaiting, CountIsRunning,
                    NoStrandedWaiter, InStatus
<1>q. QED BY <1>1, <1>2, <1>3

\* All invariants of the limiter hold in every reachable state.
THEOREM LimiterInvariant == Spec => []IInv
BY InitIInv, NextIInv, PTL DEF Spec

\* The variables keep their types; in particular the counter never goes below 0.
THEOREM LimiterTypeCorrect == Spec => []TypeOK
BY LimiterInvariant, PTL DEF IInv

\* currentCount is the number of tasks that hold a slot, for every schedule.
THEOREM CounterExact == Spec => []CountIsRunning
BY LimiterInvariant, PTL DEF IInv

\* While a caller is parked no slot is left unused, for every schedule.
THEOREM WorkConserving == Spec => []NoStrandedWaiter
BY LimiterInvariant, PTL DEF IInv

\* Queue entries, parked callers and armed timeouts agree, for every schedule.
THEOREM QueueExact == Spec => []QueueIsWaiting
BY LimiterInvariant, PTL DEF IInv

\* A caller is woken only by the step that takes it from the head of the queue.
LEMMA OnlyHeadIsWoken ==
  ASSUME Shape, Next, NEW q \in Callers, status[q] = "waiting", status'[q] = "woken"
  PROVE  queue # <<>> /\ q = Head(queue)
<1>1. status \in [Callers -> Status]
  BY DEF Shape, TypeOK
<1>2. ASSUME NEW p \in Callers, Finish(p) PROVE queue # <<>> /\ q = Head(queue)
  <2>1. CASE queue = <<>>
    BY <1>1, <1>2, <2>1 DEF Finish
  <2>2. CASE queue # <<>>
    BY <1>1, <1>2, <2>2, HandOver
  <2>q. QED BY <2>1, <2>2
<1>3. ASSUME NEW p \in Callers, NEW v, v # "woken", status' = [status EXCEPT ![p] = v]
      PROVE  FALSE
  BY <1>1, <1>3
<1>4. ~ClearQueue
  BY <1>1 DEF ClearQueue
<1>5. ASSUME NEW p \in Callers PROVE ~RunNow(p) /\ ~Resume(p) /\ ~TryRun(p)
  BY <1>3 DEF RunNow, Resume, TryRun, StartTask
<1>6. ASSUME NEW p \in Callers PROVE ~Call(p, "calling") /\ ~Call(p, "trying") /\ ~Settle(p)
  BY <1>3 DEF Call, Settle
<1>7. ASSUME NEW p \in Callers PROVE ~WaitForSlot(p) /\ ~Throw(p) /\ ~TimeoutWait(p)
  BY <1>3 DEF WaitForSlot, Throw, TimeoutWait
<1>q. QED BY <1>2, <1>4, <1>5, <1>6, <1>7 DEF Next, RunJob

\* First come, first served among the parked callers, for every schedule.
THEOREM FirstComeFirstServed == Spec => WokenInOrder
<1> DEFINE Fifo == \A p, q \in Callers :
             (/\ \E i, j \in DOMAIN queue : i < j /\ queue[i] = p /\ queue[j] = q
              /\ status'[q] = "woken") => status'[p] # "waiting"
<1>1. IInv /\ [Next]_vars => Fifo
  <2>1. SUFFICES ASSUME IInv, [Next]_vars, NEW p \in Callers, NEW q \in Callers,
                        NEW i \in DOMAIN queue, NEW j \in DOMAIN queue,
                        i < j, queue[i] = p, queue[j] = q, status'[q] = "woken"
                 PROVE  FALSE
    OBVIOUS
  <2>2. Shape /\ status[q] = "waiting" /\ DOMAIN queue = 1 .. Len(queue) /\ Len(queue) \in Nat
    BY <2>1, LenProperties DEF IInv, Shape, TypeOK, QueueIsWaiting, InStatus, ToSet
  <2>3. Next
    BY <2>1, <2>2 DEF vars
  <2>4. q = Head(queue)
    BY <2>1, <2>2, <2>3, OnlyHeadIsWoken
  <2>5. Head(queue) = queue[1] /\ 1 \in DOMAIN queue
    BY <2>2, HeadTailProperties DEF Shape, TypeOK
  <2>6. j = 1
    BY <2>1, <2>4, <2>5 DEF IInv, QueueIsWaiting, IsInjective
  <2>q. QED BY <2>1, <2>2, <2>6
<1>q. QED BY <1>1, LimiterInvariant, PTL DEF Spec, WokenInOrder

-----------------------------------------------------------------------------
(* The overshoot.  A woken caller does not test the capacity again, so the  *)
(* counter may exceed MaxConcurrent; these lemmas say who is to blame.      *)

\* The step is a call that starts at once although a woken caller holds a promise.
Overtakes ==
  /\ InStatus({"woken"}) # {}
  /\ \E p \in Callers : status[p] \in {"calling", "trying"} /\ status'[p] = "running"

\* A call that starts below capacity stays within it unless somebody was woken.
LEMMA StartAtOnce ==
  ASSUME Shape, NEW p \in Callers, NEW k \in {"calling", "trying"}, Job(p, k),
         currentCount < MaxConcurrent, StartTask(p), Taken' > MaxConcurrent
  PROVE  Overtakes
<1>1. /\ status[p] = k /\ status' = [status EXCEPT ![p] = "running"]
      /\ currentCount' = currentCount + 1
  BY DEF StartTask, Job
<1>2. status'[p] = "running"
  BY <1>1 DEF Shape, TypeOK
<1>3. Woken' = Woken
  BY <1>1 DEF Woken, Shape, TypeOK, InStatus
<1>4. SUFFICES ASSUME Woken = {} PROVE FALSE
  BY <1>1, <1>2 DEF Overtakes, Woken
<1>5. Cardinality(Woken)' = 0
  BY <1>3, <1>4, FS_EmptySet
<1>6. Taken' = currentCount + 1 /\ currentCount \in Nat
  BY <1>1, <1>5 DEF Taken, Woken, Shape, TypeOK
<1>q. QED BY <1>6, LimiterAssumption

\* A woken caller turns its promise into a slot.
LEMMA ResumeKeepsTaken ==
  ASSUME Shape, NEW p \in Callers, Resume(p)
  PROVE  Taken' = Taken
<1>1. /\ p \in Woken /\ status' = [status EXCEPT ![p] = "running"]
      /\ currentCount' = currentCount + 1
  BY DEF Resume, StartTask, Job, Woken, InStatus
<1>2. Woken' = Woken \ {p}
  BY <1>1 DEF Woken, Shape, TypeOK, InStatus
<1>3. /\ Cardinality(Woken \ {p}) = Cardinality(Woken) - 1
      /\ Cardinality(Woken) \in Nat
  BY <1>1, Counting DEF Woken
<1>4. Cardinality(Woken)' = Cardinality(Woken) - 1
  BY <1>2, <1>3
<1>q. QED BY <1>1, <1>3, <1>4 DEF Taken, Woken, Shape, TypeOK

\* A finishing task promises at most the slot that it gives back.
LEMMA FinishPromisesOne ==
  ASSUME Shape, NEW p \in Callers, Finish(p)
  PROVE  ~(Taken' > Taken)
<1>1. status[p] = "settling" /\ currentCount' = currentCount - 1 /\ currentCount \in Nat
  BY DEF Finish, Job, Shape, TypeOK
<1>2. Cardinality(Woken) \in Nat
  BY Counting DEF Woken
<1>3. CASE queue = <<>>
  <2>1. Woken' = Woken
    BY <1>1, <1>3 DEF Finish, Woken, InStatus, Shape, TypeOK
  <2>2. Cardinality(Woken)' = Cardinality(Woken)
    BY <2>1
  <2>q. QED BY <1>1, <1>2, <2>2 DEF Taken, Woken
<1>4. CASE queue # <<>>
  <2>1. PICK h : h = Head(queue)
    OBVIOUS
  <2>2. /\ h \in Callers /\ status[h] = "waiting"
        /\ \A q \in Callers : status'[q] = IF q = h THEN "woken"
                                           ELSE IF q = p THEN "idle" ELSE status[q]
    BY <1>4, <2>1, HandOver
  <2>3. Woken' = Woken \union {h} /\ h \notin Woken
    BY <1>1, <2>2 DEF Woken, InStatus
  <2>4. Cardinality(Woken \union {h}) = Cardinality(Woken) + 1
    BY <2>2, <2>3, Counting DEF Woken
  <2>5. Cardinality(Woken)' = Cardinality(Woken) + 1
    BY <2>3, <2>4
  <2>q. QED BY <1>1, <1>2, <2>5 DEF Taken, Woken
<1>q. QED BY <1>3, <1>4

\* Nothing else takes a slot or promises one.
LEMMA QuietKeepsTaken ==
  ASSUME currentCount' = currentCount,
         \A q \in Callers : status'[q] = "woken" <=> status[q] = "woken"
  PROVE  Taken' = Taken
<1>1. Woken' = Woken
  BY DEF Woken, InStatus
<1>q. QED BY <1>1 DEF Taken, Woken

\* The number of slots taken or promised is a natural number.
LEMMA TakenType == ASSUME Shape PROVE Taken \in Nat
<1>1. IsFiniteSet(Woken)
  BY LimiterAssumption, FS_Subset DEF Woken, InStatus
<1>q. QED BY <1>1, FS_CardinalityType DEF Taken, Woken, Shape, TypeOK

\* Every step that takes or promises a slot beyond the capacity overtakes.
LEMMA StepTaken ==
  ASSUME Shape, Next, Taken' > MaxConcurrent, Taken' > Taken
  PROVE  Overtakes
<1>0. status \in [Callers -> Status]
  BY DEF Shape, TypeOK
<1>1. Taken' # Taken
  BY TakenType
<1>2. ASSUME NEW p \in Callers, NEW v \in Status \ {"woken"}, status[p] # "woken",
             status' = [status EXCEPT ![p] = v], currentCount' = currentCount
      PROVE  FALSE
  BY <1>0, <1>1, <1>2, QuietKeepsTaken
<1>3. ASSUME NEW p \in Callers, NEW k \in {"calling", "trying"}, Call(p, k) PROVE FALSE
  BY <1>2, <1>3 DEF Call, Status, JobStatus
<1>4. ASSUME NEW p \in Callers, Settle(p) PROVE FALSE
  BY <1>2, <1>4 DEF Settle, Status, JobStatus
<1>5. ASSUME NEW p \in Callers, RunNow(p) PROVE Overtakes
  BY <1>5, StartAtOnce DEF RunNow
<1>6. ASSUME NEW p \in Callers, TryRun(p) PROVE Overtakes
  <2>1. Job(p, "trying") /\ status[p] = "trying"
    BY <1>6 DEF TryRun, Job
  <2>2. CASE currentCount < MaxConcurrent /\ StartTask(p)
    BY <2>1, <2>2, StartAtOnce
  <2>3. CASE status' = [status EXCEPT ![p] = "idle"] /\ currentCount' = currentCount
    BY <1>2, <2>1, <2>3 DEF Status
  <2>q. QED BY <1>6, <2>2, <2>3 DEF TryRun
<1>7. ASSUME NEW p \in Callers, Resume(p) \/ Finish(p) PROVE FALSE
  BY <1>1, <1>7, ResumeKeepsTaken, FinishPromisesOne
<1>8. ASSUME NEW p \in Callers, Throw(p) PROVE FALSE
  BY <1>2, <1>8 DEF Throw, Job, Status
<1>9. ASSUME NEW p \in Callers, WaitForSlot(p) PROVE FALSE
  BY <1>2, <1>9 DEF WaitForSlot, Job, Status
<1>10. ASSUME NEW p \in Callers, TimeoutWait(p) PROVE FALSE
  <2>1. /\ status[p] = "waiting" /\ currentCount' = currentCount
        /\ status' = [status EXCEPT ![p] = "rejected"]
    BY <1>10 DEF TimeoutWait, Shape, QueueIsWaiting, InStatus
  <2>q. QED BY <1>2, <2>1 DEF Status, JobStatus
<1>11. ASSUME ClearQueue PROVE FALSE
  <2>1. \A q \in ToSet(queue) : status[q] = "waiting"
    BY DEF Shape, QueueIsWaiting, InStatus
  <2>2. /\ currentCount' = currentCount
        /\ \A q \in Callers : status'[q] = "woken" <=> status[q] = "woken"
    BY <1>11, <2>1 DEF ClearQueue
  <2>q. QED BY <1>1, <2>2, QuietKeepsTaken
<1>q. QED BY <1>3, <1>4, <1>5, <1>6, <1>7, <1>8, <1>9, <1>10, <1>11 DEF Next, RunJob

\* Slots taken or promised exceed maxConcurrent only when a call starts at once
\* between the wake-up of a parked caller and its resumption, for every schedule.
THEOREM CapacityExceededOnlyByOvertaking == Spec => OnlyOvertakingExceeds
<1> DEFINE Within == Taken' > MaxConcurrent /\ Taken' > Taken => Overtakes
<1>1. IInv /\ [Next]_vars => Within
  <2>1. SUFFICES ASSUME IInv, [Next]_vars, Taken' > MaxConcurrent, Taken' > Taken
                 PROVE  Overtakes
    OBVIOUS
  <2>2. Next
    <3>1. SUFFICES ASSUME UNCHANGED vars PROVE FALSE
      BY <2>1
    <3>2. Taken' = Taken /\ Taken \in Nat
      BY <2>1, <3>1, QuietKeepsTaken, TakenType DEF vars, IInv, Shape
    <3>q. QED BY <2>1, <3>2
  <2>q. QED BY <2>1, <2>2, StepTaken DEF IInv, Shape
<1>q. QED BY <1>1, LimiterInvariant, PTL DEF Spec, OnlyOvertakingExceeds, Overtakes

-----------------------------------------------------------------------------
(* Bounded waiting.                                                        *)

\* A newcomer is parked behind everybody.
LEMMA NewcomerIsBehind ==
  ASSUME Shape, NEW c \in Callers, c \notin ToSet(queue), queue' = Append(queue, c),
         NEW p \in ToSet(queue)
  PROVE  Ahead(p)' \subseteq Ahead(p)
<1>1. /\ DOMAIN queue = 1 .. Len(queue) /\ Len(queue) \in Nat
      /\ DOMAIN queue' = 1 .. Len(queue) + 1
      /\ \A i \in 1 .. Len(queue) : queue'[i] = queue[i]
      /\ queue'[Len(queue) + 1] = c
  BY AppendProperties, LenProperties DEF Shape, TypeOK
<1>2. SUFFICES ASSUME NEW i \in DOMAIN queue', NEW j \in DOMAIN queue', i < j, queue'[j] = p
               PROVE  \E k, l \in DOMAIN queue : k < l /\ queue[k] = queue'[i] /\ queue[l] = p
  BY DEF Ahead
<1>3. p # c
  OBVIOUS
<1>4. j \in DOMAIN queue /\ i \in DOMAIN queue
  BY <1>1, <1>2, <1>3
<1>q. QED BY <1>1, <1>2, <1>4

\* The caller woken by the end of a task was ahead of everybody else.
LEMMA HeadLeaves ==
  ASSUME Shape, queue # <<>>, queue' = Tail(queue), NEW p \in ToSet(queue), p # Head(queue)
  PROVE  Ahead(p)' \subseteq Ahead(p) \ {Head(queue)} /\ Head(queue) \in Ahead(p)
<1>1. /\ Head(queue) \in Callers
      /\ Len(queue) \in Nat \ {0}
      /\ DOMAIN queue = 1 .. Len(queue)
      /\ DOMAIN queue' = 1 .. Len(queue) - 1
      /\ \A i \in 1 .. Len(queue) - 1 : queue'[i] = queue[i + 1]
      /\ Head(queue) = queue[1]
  BY HeadTailProperties, LenProperties, EmptySeq DEF Shape, TypeOK
<1>2. ASSUME NEW i \in DOMAIN queue', NEW j \in DOMAIN queue', i < j
      PROVE  /\ i + 1 \in DOMAIN queue /\ j + 1 \in DOMAIN queue /\ i + 1 < j + 1
             /\ queue'[i] = queue[i + 1] /\ queue'[j] = queue[j + 1]
             /\ queue'[i] # Head(queue)
  <2>1. /\ i + 1 \in DOMAIN queue /\ j + 1 \in DOMAIN queue /\ i + 1 < j + 1
        /\ queue'[i] = queue[i + 1] /\ queue'[j] = queue[j + 1]
        /\ i + 1 # 1 /\ 1 \in DOMAIN queue
    BY <1>1, <1>2
  <2>2. queue[i + 1] # queue[1]
    BY <2>1 DEF Shape, QueueIsWaiting, IsInjective
  <2>q. QED BY <1>1, <2>1, <2>2
<1>3. Ahead(p)' \subseteq Ahead(p) \ {Head(queue)}
  <2>1. SUFFICES ASSUME NEW q \in Callers, NEW i \in DOMAIN queue', NEW j \in DOMAIN queue',
                        i < j, queue'[i] = q, queue'[j] = p
                 PROVE  q \in Ahead(p) /\ q # Head(queue)
    BY DEF Ahead
  <2>q. QED BY <1>2, <2>1 DEF Ahead
<1>4. Head(queue) \in Ahead(p)
  <2>1. PICK j \in DOMAIN queue : queue[j] = p
    BY DEF ToSet
  <2>2. 1 \in DOMAIN queue /\ 1 < j
    BY <1>1, <2>1
  <2>q. QED BY <1>1, <2>1, <2>2 DEF Ahead
<1>q. QED BY <1>3, <1>4

\* Who gives up lets those behind move up.
LEMMA OneGivesUp ==
  ASSUME Shape, NEW n \in Nat, n = Len(queue), NEW k \in 1 .. n, queue' = RemoveAt(queue, k),
         NEW p
  PROVE  Ahead(p)' \subseteq Ahead(p)
<1>1. /\ queue' \in Seq(Callers) /\ Len(queue') = n - 1
      /\ \A i \in 1 .. n - 1 : queue'[i] = IF i < k THEN queue[i] ELSE queue[i + 1]
  <2>1. queue \in Seq(Callers)
    BY DEF Shape, TypeOK
  <2>2. queue' \in Seq(Callers)
    BY <2>1, SpliceIndex
  <2>3. Len(queue') = n - 1
    BY <2>1, SpliceIndex
  <2>4. \A i \in 1 .. n - 1 : queue'[i] = IF i < k THEN queue[i] ELSE queue[i + 1]
    BY <2>1, SpliceIndex
  <2>q. QED BY <2>2, <2>3, <2>4
<1>2. DOMAIN queue' = 1 .. n - 1 /\ DOMAIN queue = 1 .. n
  BY <1>1, LenProperties DEF Shape, TypeOK
<1> DEFINE old(i) == IF i < k THEN i ELSE i + 1
<1>3. \A i \in 1 .. n - 1 : old(i) \in 1 .. n /\ queue'[i] = queue[old(i)]
  BY <1>1
<1>4. \A i, j \in 1 .. n - 1 : i < j => old(i) < old(j)
  OBVIOUS
<1> HIDE DEF old
<1>5. SUFFICES ASSUME NEW q \in Callers, NEW i \in DOMAIN queue', NEW j \in DOMAIN queue',
                      i < j, queue'[i] = q, queue'[j] = p
               PROVE  q \in Ahead(p)
  BY DEF Ahead
<1>q. QED BY <1>2, <1>3, <1>4, <1>5 DEF Ahead

\* The counter goes down only when a task ends.
LEMMA StepAdvances ==
  ASSUME Shape, Next, NEW p \in Callers, status[p] = "waiting", status'[p] = "waiting"
  PROVE  /\ Ahead(p)' \subseteq Ahead(p)
         /\ currentCount' < currentCount => Ahead(p)' # Ahead(p)
<1> DEFINE G == /\ Ahead(p)' \subseteq Ahead(p)
                /\ currentCount' < currentCount => Ahead(p)' # Ahead(p)
<1>0. /\ p \in ToSet(queue) /\ currentCount \in Nat /\ status \in [Callers -> Status]
      /\ queue # <<>>
  <2>1. p \in ToSet(queue) /\ currentCount \in Nat /\ status \in [Callers -> Status]
    BY DEF Shape, TypeOK, QueueIsWaiting, InStatus
  <2>q. QED BY <2>1, ToSetBound DEF Shape, TypeOK
<1>1. ASSUME queue' = queue, currentCount' \in {currentCount, currentCount + 1} PROVE G
  BY <1>0, <1>1 DEF Ahead
<1>2. ASSUME NEW q \in Callers,
             Call(q, "calling") \/ Call(q, "trying") \/ Settle(q) \/ RunNow(q) \/ Resume(q)
               \/ TryRun(q) \/ Throw(q)
      PROVE  G
  BY <1>1, <1>2 DEF Call, Settle, RunNow, Resume, TryRun, Throw, StartTask
<1>3. ASSUME NEW q \in Callers, WaitForSlot(q) PROVE G
  <2>1. q \notin ToSet(queue) /\ queue' = Append(queue, q) /\ currentCount' = currentCount
    BY <1>3 DEF WaitForSlot, Job, Shape, QueueIsWaiting, InStatus
  <2>q. QED BY <1>0, <2>1, NewcomerIsBehind
<1>4. ASSUME NEW q \in Callers, Finish(q) PROVE G
  <2>1. queue' = Tail(queue) /\ status'[Head(queue)] = "woken"
    BY <1>0, <1>4, HandOver DEF Finish
  <2>q. QED BY <1>0, <2>1, HeadLeaves
<1>5. ASSUME NEW q \in Callers, TimeoutWait(q) PROVE G
  <2>1. q \in ToSet(queue) /\ currentCount' = currentCount /\ queue' = RemoveAt(queue, IndexIn(queue, q))
    BY <1>5 DEF TimeoutWait, Shape, QueueIsWaiting, InStatus
  <2>2. PICK n \in Nat : n = Len(queue) /\ DOMAIN queue = 1 .. n
    BY LenProperties DEF Shape, TypeOK
  <2>3. IndexIn(queue, q) \in 1 .. n
    BY <2>1, <2>2 DEF IndexIn, ToSet
  <2>q. QED BY <1>0, <2>1, <2>2, <2>3, OneGivesUp
<1>6. ~ClearQueue
  BY <1>0 DEF ClearQueue
<1>q. QED BY <1>2, <1>3, <1>4, <1>5, <1>6 DEF Next, RunJob

\* Bounded waiting, for every schedule: nobody who parks later gets ahead of a parked
\* caller, and each end of a task takes one away from those ahead of it.  So it is woken
\* or refused by the time that one task more has ended than callers were ahead.
THEOREM EveryEndMovesUp == Spec => EveryEndAdvances
<1> DEFINE Up == \A p \in Callers : status[p] = "waiting" /\ status'[p] = "waiting" =>
             /\ Ahead(p)' \subseteq Ahead(p)
             /\ currentCount' < currentCount => Ahead(p)' # Ahead(p)
<1>1. IInv /\ [Next]_vars => Up
  <2>1. SUFFICES ASSUME IInv, [Next]_vars PROVE Up
    OBVIOUS
  <2>2. CASE Next
    BY <2>1, <2>2, StepAdvances DEF IInv, Shape
  <2>3. CASE UNCHANGED vars
    BY <2>1, <2>3 DEF vars, Ahead, IInv, TypeOK
  <2>q. QED BY <2>1, <2>2, <2>3
<1>q. QED BY <1>1, LimiterInvariant, PTL DEF Spec, EveryEndAdvances
=============================================================================
