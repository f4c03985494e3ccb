-------------------------- MODULE HttpServerProofs --------------------------
(***************************************************************************)
(* The servers use their limiter and the task registry as the modules of   *)
(* these assume they are used.  So the invariants proved there hold here,  *)
(* and relate the two: a task is listed as running only while its request  *)
(* holds a slot.                                                           *)
(***************************************************************************)
EXTENDS HttpServer, FiniteSetTheorems, TLAPS

LP == INSTANCE ConcurrencyLimiterProofs WITH Callers <- Requests, QueueTimeout <- TRUE
TP == INSTANCE TaskLifecycleProofs
  WITH TaskIds <- Sends, run <- [s \in Sends |-> RunOf(s)]

Phases == {"new", "limited", "working", "done", "replied"}

\* Where the handler of a request is tells where its caller is in the limiter.
\* Nobody calls tryRun.
StatusIn(p) ==
  CASE p = "limited" -> {"calling", "waiting", "woken", "rejected"}
    [] p = "working" -> {"running", "settling"}
    [] OTHER -> {"idle"}

HandlersFollowLimiter ==
  /\ phase \in [Requests -> Phases]
  /\ \A r \in Requests : status[r] \in StatusIn(phase[r])

\* A reply is the last thing a handler does.
RepliesComeLast ==
  /\ DOMAIN reply = Requests
  /\ \A r \in Requests : phase[r] # "replied" => reply[r] = "none"

\* The invariants of the two components join in: what tasks/send replies with,
\* for one, depends on the registry.
ServerInv ==
  /\ HandlersFollowLimiter
  /\ RepliesComeLast
  /\ LP!IInv
  /\ TP!IInv

-----------------------------------------------------------------------------
(* The components' assumptions, and their operators under the two names.   *)

LEMMA LimiterMayBeUsed == LP!LimiterAssumption
BY ServerAssumption DEF LP!LimiterAssumption, LP!IsFiniteSet, IsFiniteSet

LEMMA RegistryMayBeUsed == TP!RegistryAssumption
<1>1. IsFiniteSet(Sends)
  BY ServerAssumption, FS_Subset DEF Requests
<1> QED
  BY <1>1, ServerAssumption DEF TP!RegistryAssumption, TP!IsFiniteSet, IsFiniteSet

\* What a request asks of the limiter is a step of the limiter.
LimiterStep(r) ==
  \/ L!Call(r, "calling") \/ L!WaitForSlot(r) \/ L!RunNow(r) \/ L!Resume(r)
  \/ L!Settle(r) \/ L!Finish(r) \/ L!TimeoutWait(r) \/ L!Throw(r)

LEMMA LimiterSteps ==
  ASSUME NEW r \in Requests, LimiterStep(r)
  PROVE  LP!Next
<1>1. CASE L!Call(r, "calling") \/ L!Settle(r)
  BY <1>1 DEF L!Call, L!Settle, LP!Call, LP!Settle, LP!Next
<1>2. CASE L!WaitForSlot(r) \/ L!Throw(r)
  BY <1>2 DEF L!WaitForSlot, L!Throw, L!Job, LP!WaitForSlot, LP!Throw, LP!Job, LP!Next, LP!RunJob
<1>3. CASE L!RunNow(r) \/ L!Resume(r)
  BY <1>3 DEF L!RunNow, L!Resume, L!Job, L!StartTask,
              LP!RunNow, LP!Resume, LP!Job, LP!StartTask, LP!Next, LP!RunJob
<1>4. CASE L!Finish(r)
  BY <1>4 DEF L!Finish, L!Job, LP!Finish, LP!Job, LP!Next, LP!RunJob
<1>5. CASE L!TimeoutWait(r)
  <2>1. LP!TimeoutWait(r)
    BY <1>5 DEF L!TimeoutWait, L!IndexIn, L!ToSet, L!RemoveAt,
                LP!TimeoutWait, LP!IndexIn, LP!ToSet, LP!RemoveAt
  <2> QED
    BY <2>1 DEF LP!Next
<1> QED
  BY <1>1, <1>2, <1>3, <1>4, <1>5 DEF LimiterStep

\* What one step of the limiter does to the callers' statuses.
LEMMA LimiterMoves ==
  ASSUME NEW r \in Requests, LP!IInv
  PROVE  /\ status \in [Requests -> LP!Status]
         /\ L!Call(r, "calling") => status' = [status EXCEPT ![r] = "calling"]
         /\ L!WaitForSlot(r) => status' = [status EXCEPT ![r] = "waiting"]
         /\ L!RunNow(r) \/ L!Resume(r) => status' = [status EXCEPT ![r] = "running"]
         /\ L!Settle(r) => status' = [status EXCEPT ![r] = "settling"]
         /\ L!Throw(r) => status[r] = "rejected" /\ status' = [status EXCEPT ![r] = "idle"]
         /\ L!TimeoutWait(r) => status' = [status EXCEPT ![r] = "rejected"]
         /\ L!Finish(r) =>
              /\ status[r] = "settling"
              /\ \/ status' = [status EXCEPT ![r] = "idle"]
                 \/ \E h \in Requests : /\ h # r /\ status[h] = "waiting"
                                        /\ status' = [status EXCEPT ![r] = "idle", ![h] = "woken"]
<1>1. status \in [Requests -> LP!Status]
  BY DEF LP!IInv, LP!TypeOK
<1>2. ASSUME L!TimeoutWait(r) PROVE status' = [status EXCEPT ![r] = "rejected"]
  <2>1. status[r] = "waiting"
    BY <1>2 DEF L!TimeoutWait, LP!IInv, LP!QueueIsWaiting, LP!InStatus
  <2> QED
    BY <1>2, <2>1 DEF L!TimeoutWait
<1>3. ASSUME L!Finish(r)
      PROVE  /\ status[r] = "settling"
             /\ \/ status' = [status EXCEPT ![r] = "idle"]
                \/ \E h \in Requests : /\ h # r /\ status[h] = "waiting"
                                       /\ status' = [status EXCEPT ![r] = "idle", ![h] = "woken"]
  <2>1. status[r] = "settling"
    BY <1>3 DEF L!Finish, L!Job
  <2>2. CASE queue = <<>>
    BY <1>3, <2>1, <2>2 DEF L!Finish
  <2>3. CASE queue # <<>>
    <3>1. LP!ToSet(queue) = LP!InStatus({"waiting"}) /\ queue \in Seq(Requests)
      BY DEF LP!IInv, LP!QueueIsWaiting, LP!TypeOK
    <3>2. Head(queue) \in LP!ToSet(queue)
      BY <2>3, <3>1 DEF LP!ToSet
    <3>3. Head(queue) \in Requests /\ status[Head(queue)] = "waiting"
      BY <3>1, <3>2 DEF LP!InStatus
    <3> QED
      BY <1>3, <2>1, <2>3, <3>3 DEF L!Finish
  <2> QED
    BY <2>2, <2>3
<1> QED
  BY <1>1, <1>2, <1>3 DEF L!Call, L!WaitForSlot, L!RunNow, L!Resume, L!StartTask, L!Settle,
                          L!Throw, L!Job

\* The registry's operators.
LEMMA SameRegistry ==
  ASSUME NEW reg, NEW id, NEW kind
  PROVE  /\ R!StatusUpdated(R!Created(reg, id), id, kind) = TP!StatusUpdated(TP!Created(reg, id), id, kind)
         /\ R!ResultSet(reg, id, kind) = TP!ResultSet(reg, id, kind)
         /\ R!SetResultOutcome(reg, id) = TP!SetResultOutcome(reg, id)
         /\ R!Cancelled(reg, id) = TP!Cancelled(reg, id)
         /\ R!ResultKind = TP!ResultKind
<1>1. R!Created(reg, id) = TP!Created(reg, id)
  BY DEF R!Created, R!Inserted, R!Evicted, R!Deleted, R!OldestTask, R!Without, R!RemoveAt, R!ToSet,
         TP!Created, TP!Inserted, TP!Evicted, TP!Deleted, TP!OldestTask, TP!Without, TP!RemoveAt, TP!ToSet
<1>2. \A g : R!StatusUpdated(g, id, kind) = TP!StatusUpdated(g, id, kind)
  BY DEF R!StatusUpdated, TP!StatusUpdated
<1>3. R!SetResultOutcome(reg, id) = TP!SetResultOutcome(reg, id)
  BY DEF R!SetResultOutcome, TP!SetResultOutcome, R!Terminal, TP!Terminal
<1>4. R!ResultSet(reg, id, kind) = TP!ResultSet(reg, id, kind)
  BY <1>3 DEF R!ResultSet, TP!ResultSet
<1>5. R!Cancelled(reg, id) = TP!Cancelled(reg, id) /\ R!ResultKind = TP!ResultKind
  BY DEF R!Cancelled, TP!Cancelled, R!Cancellable, TP!Cancellable, R!ResultKind, TP!ResultKind
<1> QED
  BY <1>1, <1>2, <1>3, <1>4, <1>5

LEMMA SameLifecycle == (TP!LifecycleNext <=> Lifecycle!LifecycleNext) /\ TP!lifecycleVars = Lifecycle!lifecycleVars
<1>1. ASSUME NEW reg, NEW id
      PROVE  TP!Created(reg, id) = Lifecycle!Created(reg, id) /\ TP!Deleted(reg, id) = Lifecycle!Deleted(reg, id)
  BY DEF TP!Created, TP!Inserted, TP!Evicted, TP!Deleted, TP!OldestTask, TP!Without, TP!RemoveAt, TP!ToSet,
         Lifecycle!Created, Lifecycle!Inserted, Lifecycle!Evicted, Lifecycle!Deleted, Lifecycle!OldestTask,
         Lifecycle!Without, Lifecycle!RemoveAt, Lifecycle!ToSet
<1>2. \A reg, id, s : TP!StatusUpdated(reg, id, s) = Lifecycle!StatusUpdated(reg, id, s)
  BY DEF TP!StatusUpdated, Lifecycle!StatusUpdated
<1>3. \A reg, id : TP!SetResultOutcome(reg, id) = Lifecycle!SetResultOutcome(reg, id)
  BY DEF TP!SetResultOutcome, Lifecycle!SetResultOutcome, TP!Terminal, Lifecycle!Terminal
<1>4. \A reg, id, kind : TP!ResultSet(reg, id, kind) = Lifecycle!ResultSet(reg, id, kind)
  BY <1>3 DEF TP!ResultSet, Lifecycle!ResultSet
<1>5. \A reg, id : TP!Cancelled(reg, id) = Lifecycle!Cancelled(reg, id)
  BY DEF TP!Cancelled, Lifecycle!Cancelled, TP!Cancellable, Lifecycle!Cancellable
<1>6. ASSUME NEW t \in Sends
      PROVE  (TP!Start(t) \/ TP!FinishRun(t) \/ TP!Cancel(t) \/ TP!Delete(t))
               <=> (Lifecycle!Start(t) \/ Lifecycle!FinishRun(t) \/ Lifecycle!Cancel(t) \/ Lifecycle!Delete(t))
  BY <1>1, <1>2, <1>3, <1>4, <1>5
     DEF TP!Start, TP!FinishRun, TP!Cancel, TP!Delete, TP!ResultKind,
         Lifecycle!Start, Lifecycle!FinishRun, Lifecycle!Cancel, Lifecycle!Delete, Lifecycle!ResultKind
<1> QED
  BY <1>6 DEF TP!LifecycleNext, Lifecycle!LifecycleNext, TP!lifecycleVars, Lifecycle!lifecycleVars

-----------------------------------------------------------------------------
LEMMA InitServerInv == Init => ServerInv /\ TP!LifecycleInit
<1>1. SUFFICES ASSUME Init PROVE ServerInv /\ TP!LifecycleInit
  OBVIOUS
<1>2. LP!Init
  BY <1>1 DEF Init, L!Init, LP!Init
<1>3. LP!IInv
  BY <1>2, LimiterMayBeUsed, LP!InitIInv
<1>4. TP!LifecycleInit
  <2>1. \A s \in Sends : RunOf(s) = "new"
    BY <1>1 DEF Init, RunOf, Requests
  <2> QED
    BY <1>1, <2>1 DEF Init, R!EmptyRegistry, TP!LifecycleInit, TP!EmptyRegistry
<1>5. TP!IInv
  BY <1>4, RegistryMayBeUsed, TP!InitIInv
<1>6. HandlersFollowLimiter /\ RepliesComeLast
  BY <1>1 DEF Init, L!Init, HandlersFollowLimiter, RepliesComeLast, StatusIn, Phases
<1> QED
  BY <1>3, <1>4, <1>5, <1>6 DEF ServerInv

\* The limiter's invariants carry over.
LEMMA LimiterInvKept ==
  ASSUME LP!IInv, [Next]_vars
  PROVE  LP!IInv'
<1>1. ASSUME NEW r \in Requests, LimiterStep(r) PROVE LP!IInv'
  BY <1>1, LimiterSteps, LimiterMayBeUsed, LP!NextIInv
<1>2. ASSUME UNCHANGED limiterVars PROVE LP!IInv'
  BY <1>2, LimiterMayBeUsed, LP!NextIInv DEF limiterVars, LP!vars
<1>3. ASSUME NEW r \in Requests, Receive(r) \/ Park(r) \/ Admit(r) \/ WorkEnds(r) \/ Release(r)
                                 \/ QueueTimeoutFires(r) \/ Refuse(r)
      PROVE  LP!IInv'
  BY <1>1, <1>3 DEF Receive, Park, Admit, WorkEnds, Release, QueueTimeoutFires, Refuse, LimiterStep
<1>4. ASSUME NEW r \in Requests, ReplySend(r) \/ ReplyInvoke(r) PROVE LP!IInv'
  BY <1>2, <1>4 DEF ReplySend, ReplyInvoke
<1>5. ASSUME NEW t \in Sends, CancelTask(t) PROVE LP!IInv'
  BY <1>2, <1>5 DEF CancelTask
<1> QED
  BY <1>2, <1>3, <1>4, <1>5 DEF Next, vars, limiterVars

\* Handlers go through their phases with their callers.
LEMMA HandlersKept ==
  ASSUME ServerInv, Next
  PROVE  HandlersFollowLimiter' /\ RepliesComeLast'
<1> USE DEF ServerInv, HandlersFollowLimiter, RepliesComeLast, StatusIn, Phases
<1> DEFINE G == HandlersFollowLimiter' /\ RepliesComeLast'
<1>1. ASSUME NEW r \in Requests, Receive(r) \/ Park(r) PROVE G
  <2>1. CASE Receive(r)
    <3>1. status \in [Requests -> LP!Status] /\ status' = [status EXCEPT ![r] = "calling"]
      BY <2>1, LimiterMoves DEF Receive
    <3> QED
      BY <2>1, <3>1 DEF Receive, To
  <2>2. CASE Park(r)
    <3>1. /\ status \in [Requests -> LP!Status] /\ status[r] = "calling"
          /\ status' = [status EXCEPT ![r] = "waiting"]
      BY <2>2, LimiterMoves DEF Park, L!WaitForSlot, L!Job
    <3> QED
      BY <2>2, <3>1 DEF Park
  <2> QED
    BY <1>1, <2>1, <2>2
<1>2. ASSUME NEW r \in Requests, Admit(r) PROVE G
  <2>1. /\ status \in [Requests -> LP!Status] /\ status[r] \in {"calling", "woken"}
        /\ status' = [status EXCEPT ![r] = "running"]
    BY <1>2, LimiterMoves DEF Admit, L!RunNow, L!Resume, L!Job
  <2> QED
    BY <1>2, <2>1 DEF Admit, To
<1>3. ASSUME NEW r \in Requests, WorkEnds(r) PROVE G
  <2>1. status \in [Requests -> LP!Status] /\ status' = [status EXCEPT ![r] = "settling"]
    BY <1>3, LimiterMoves DEF WorkEnds
  <2> QED
    BY <1>3, <2>1 DEF WorkEnds
<1>4. ASSUME NEW r \in Requests, Release(r) PROVE G
  <2>1. /\ status \in [Requests -> LP!Status] /\ status[r] = "settling"
        /\ \/ status' = [status EXCEPT ![r] = "idle"]
           \/ \E h \in Requests : /\ h # r /\ status[h] = "waiting"
                                  /\ status' = [status EXCEPT ![r] = "idle", ![h] = "woken"]
    BY <1>4, LimiterMoves DEF Release
  <2>2. phase' = [phase EXCEPT ![r] = "done"] /\ reply' = reply
    BY <1>4 DEF Release, To
  <2> QED
    BY <2>1, <2>2
<1>5. ASSUME NEW r \in Requests, QueueTimeoutFires(r) PROVE G
  <2>1. status \in [Requests -> LP!Status] /\ status' = [status EXCEPT ![r] = "rejected"]
    BY <1>5, LimiterMoves DEF QueueTimeoutFires
  <2>2. status[r] = "waiting"
    BY <1>5 DEF QueueTimeoutFires, L!TimeoutWait, LP!IInv, LP!QueueIsWaiting, LP!InStatus
  <2> QED
    BY <1>5, <2>1, <2>2 DEF QueueTimeoutFires
<1>6. ASSUME NEW r \in Requests, Refuse(r) PROVE G
  <2>1. /\ status \in [Requests -> LP!Status] /\ status[r] = "rejected"
        /\ status' = [status EXCEPT ![r] = "idle"]
    BY <1>6, LimiterMoves DEF Refuse
  <2> QED
    BY <1>6, <2>1 DEF Refuse, To
<1>7. ASSUME NEW r \in Requests, ReplySend(r) \/ ReplyInvoke(r) PROVE G
  BY <1>7 DEF ReplySend, ReplyInvoke, To, limiterVars
<1>8. ASSUME NEW t \in Sends, CancelTask(t) PROVE G
  BY <1>8 DEF CancelTask, limiterVars
<1> QED
  BY <1>1, <1>2, <1>3, <1>4, <1>5, <1>6, <1>7, <1>8 DEF Next

-----------------------------------------------------------------------------
(* The refinement.                                                         *)

\* What keeps the progress of a run.
LEMMA SameRun ==
  ASSUME NEW s \in Sends, phase'[s] = phase[s], reply'[s] = reply[s],
         phase[s] = "working" => status'[s] = status[s]
  PROVE  RunOf(s)' = RunOf(s)
BY DEF RunOf

LEMMA RunsStutter ==
  ASSUME \A s \in Sends : RunOf(s)' = RunOf(s), UNCHANGED <<registry, outcome>>
  PROVE  UNCHANGED TP!lifecycleVars
BY DEF TP!lifecycleVars

\* Every step of the servers is one of TaskLifecycle, or leaves its variables alone.
LEMMA StepIsLifecycleStep ==
  ASSUME ServerInv, Next
  PROVE  [TP!LifecycleNext]_(TP!lifecycleVars)
<1> USE DEF ServerInv, HandlersFollowLimiter, RepliesComeLast, StatusIn
<1> DEFINE SameRuns == \A s \in Sends : RunOf(s)' = RunOf(s)
<1>0. Sends \subseteq Requests /\ \A r \in Requests : status[r] = "running" => phase[r] = "working"
  BY DEF Requests
<1>1. ASSUME NEW r \in Requests, Receive(r) PROVE SameRuns
  <2>1. status' = [status EXCEPT ![r] = "calling"] /\ phase[r] = "new"
    BY <1>1, LimiterMoves DEF Receive
  <2> QED
    BY <1>0, <1>1, <2>1, SameRun DEF Receive, To, RunOf
<1>2. ASSUME NEW r \in Requests, Park(r) PROVE SameRuns
  <2>1. status' = [status EXCEPT ![r] = "waiting"] /\ status[r] = "calling"
    BY <1>2, LimiterMoves DEF Park, L!WaitForSlot, L!Job
  <2>2. phase[r] # "working"
    BY <2>1
  <2> QED
    BY <1>0, <1>2, <2>1, <2>2, SameRun DEF Park
<1>3. ASSUME NEW r \in Requests, Admit(r) PROVE [TP!LifecycleNext]_(TP!lifecycleVars)
  <2>1. /\ status' = [status EXCEPT ![r] = "running"] /\ status[r] \in {"calling", "woken"}
        /\ phase' = [phase EXCEPT ![r] = "working"] /\ reply' = reply /\ outcome' = outcome
        /\ status \in [Requests -> LP!Status]
    BY <1>3, LimiterMoves DEF Admit, L!RunNow, L!Resume, L!Job, To
  <2>2. phase[r] = "limited" /\ reply[r] = "none"
    BY <2>1 DEF Phases
  <2>3. \A s \in Sends \ {r} : RunOf(s)' = RunOf(s)
    BY <1>0, <2>1, SameRun
  <2>4. CASE r \in Sends
    <3>1. RunOf(r) = "new" /\ RunOf(r)' = "active"
      BY <2>1, <2>2, <1>0 DEF RunOf
    <3>2. registry' = TP!StatusUpdated(TP!Created(registry, r), r, "running")
      BY <1>3, <2>4, SameRegistry DEF Admit
    <3>3. TP!Start(r)
      BY <2>1, <2>3, <2>4, <3>1, <3>2 DEF TP!Start
    <3> QED
      BY <2>4, <3>3 DEF TP!LifecycleNext
  <2>5. CASE r \notin Sends
    BY <1>3, <2>1, <2>3, <2>5, RunsStutter DEF Admit
  <2> QED
    BY <2>4, <2>5
<1>4. ASSUME NEW r \in Requests, WorkEnds(r) PROVE [TP!LifecycleNext]_(TP!lifecycleVars)
  <2>1. /\ status' = [status EXCEPT ![r] = "settling"] /\ status[r] = "running"
        /\ phase[r] = "working" /\ phase' = phase /\ reply' = reply
        /\ status \in [Requests -> LP!Status]
    BY <1>4, LimiterMoves DEF WorkEnds, L!Settle
  <2>2. \A s \in Sends \ {r} : RunOf(s)' = RunOf(s)
    BY <1>0, <2>1, SameRun
  <2>3. CASE r \in Sends
    <3>1. RunOf(r) = "active" /\ RunOf(r)' = "ended"
      BY <2>1, <2>3, <1>0 DEF RunOf
    <3>2. \E kind \in TP!ResultKind : registry' = TP!ResultSet(registry, r, kind)
      BY <1>4, <2>3, SameRegistry DEF WorkEnds
    <3>3. outcome' = [outcome EXCEPT ![r] = TP!SetResultOutcome(registry, r)]
      BY <1>4, <2>3, SameRegistry DEF WorkEnds
    <3>4. TP!FinishRun(r)
      BY <2>2, <2>3, <3>1, <3>2, <3>3 DEF TP!FinishRun
    <3> QED
      BY <2>3, <3>4 DEF TP!LifecycleNext
  <2>4. CASE r \notin Sends
    BY <1>4, <2>2, <2>4, RunsStutter DEF WorkEnds
  <2> QED
    BY <2>3, <2>4
<1>5. ASSUME NEW r \in Requests, Release(r) PROVE SameRuns
  <2>1. /\ status \in [Requests -> LP!Status] /\ status[r] = "settling"
        /\ \/ status' = [status EXCEPT ![r] = "idle"]
           \/ \E h \in Requests : /\ h # r /\ status[h] = "waiting"
                                  /\ status' = [status EXCEPT ![r] = "idle", ![h] = "woken"]
        /\ phase' = [phase EXCEPT ![r] = "done"] /\ reply' = reply
    BY <1>5, LimiterMoves DEF Release, To
  <2>2. phase[r] = "working" /\ reply[r] = "none"
    BY <2>1 DEF Phases
  <2>3. \A s \in Sends \ {r} : phase[s] = "working" => status'[s] = status[s]
    BY <1>0, <2>1
  <2>4. \A s \in Sends \ {r} : RunOf(s)' = RunOf(s)
    BY <1>0, <2>1, <2>3, SameRun
  <2>5. r \in Sends => RunOf(r) = "ended" /\ RunOf(r)' = "ended"
    BY <2>1, <2>2 DEF RunOf
  <2> QED
    BY <2>4, <2>5
<1>6. ASSUME NEW r \in Requests, QueueTimeoutFires(r) PROVE SameRuns
  <2>1. /\ status' = [status EXCEPT ![r] = "rejected"] /\ status[r] = "waiting"
        /\ phase' = phase /\ reply' = reply
    BY <1>6, LimiterMoves DEF QueueTimeoutFires, L!TimeoutWait, LP!IInv, LP!QueueIsWaiting, LP!InStatus
  <2>2. phase[r] # "working"
    BY <2>1
  <2> QED
    BY <1>0, <2>1, <2>2, SameRun
<1>7. ASSUME NEW r \in Requests, Refuse(r) PROVE SameRuns
  <2>1. /\ status' = [status EXCEPT ![r] = "idle"] /\ status[r] = "rejected"
        /\ phase' = [phase EXCEPT ![r] = "replied"] /\ reply' = [reply EXCEPT ![r] = "capacity"]
    BY <1>7, LimiterMoves DEF Refuse, To
  <2>2. phase[r] = "limited"
    BY <2>1 DEF Phases
  <2>3. \A s \in Sends \ {r} : RunOf(s)' = RunOf(s)
    BY <1>0, <2>1, SameRun
  <2>4. r \in Sends => RunOf(r) = "new" /\ RunOf(r)' = "new"
    BY <2>1, <2>2 DEF RunOf
  <2> QED
    BY <2>3, <2>4
<1>8. ASSUME NEW r \in Requests, ReplySend(r) \/ ReplyInvoke(r) PROVE SameRuns
  <2>1. PICK answer : /\ reply' = [reply EXCEPT ![r] = answer] /\ (r \in Sends => answer # "capacity")
                      /\ phase[r] = "done" /\ phase' = [phase EXCEPT ![r] = "replied"]
                      /\ status' = status
    <3>1. registry.order \in Seq(Sends)
      BY DEF TP!IInv, TP!LifecycleTypeOK, TP!Registry
    <3>2. R!LastListed(registry) # "capacity"
      <4>1. registry.order # <<>> => registry.order[Len(registry.order)] \in Sends
        BY <3>1
      <4> QED
        BY <4>1, ServerAssumption DEF R!LastListed
    <3>3. CASE ReplySend(r)
      BY <3>2, <3>3 DEF ReplySend, To, limiterVars
    <3>4. CASE ReplyInvoke(r)
      BY <3>4 DEF ReplyInvoke, To, limiterVars
    <3> QED
      BY <1>8, <3>3, <3>4
  <2>2. reply[r] = "none"
    BY <2>1
  <2>3. \A s \in Sends \ {r} : RunOf(s)' = RunOf(s)
    BY <1>0, <2>1, SameRun
  <2>4. r \in Sends => RunOf(r) = "ended" /\ RunOf(r)' = "ended"
    BY <2>1, <2>2 DEF RunOf
  <2> QED
    BY <2>3, <2>4
<1>9. ASSUME NEW t \in Sends, CancelTask(t) PROVE [TP!LifecycleNext]_(TP!lifecycleVars)
  <2>1. t \in TP!Present(registry)
    BY <1>9 DEF CancelTask, R!Cancellable, TP!Present
  <2>2. RunOf(t) # "new"
    BY <2>1 DEF TP!IInv, TP!StatusMatchesRun
  <2>3. \A s \in Sends : RunOf(s)' = RunOf(s)
    BY <1>9, SameRun DEF CancelTask, limiterVars
  <2>4. TP!Cancel(t)
    BY <1>9, <2>2, <2>3, SameRegistry DEF CancelTask, TP!Cancel
  <2> QED
    BY <2>4 DEF TP!LifecycleNext
<1>10. ASSUME NEW r \in Requests, Receive(r) \/ Park(r) \/ Release(r) \/ QueueTimeoutFires(r)
                                  \/ Refuse(r) \/ ReplySend(r) \/ ReplyInvoke(r)
       PROVE  UNCHANGED TP!lifecycleVars
  <2>1. SameRuns
    BY <1>1, <1>2, <1>5, <1>6, <1>7, <1>8, <1>10
  <2>2. UNCHANGED <<registry, outcome>>
    BY <1>10 DEF Receive, Park, Release, QueueTimeoutFires, Refuse, ReplySend, ReplyInvoke
  <2> QED
    BY <2>1, <2>2, RunsStutter
<1> QED
  BY <1>3, <1>4, <1>9, <1>10 DEF Next

-----------------------------------------------------------------------------
LEMMA StepServerInv ==
  ASSUME ServerInv, [Next]_vars
  PROVE  ServerInv' /\ [TP!LifecycleNext]_(TP!lifecycleVars)
<1>1. LP!IInv'
  BY LimiterInvKept DEF ServerInv
<1>2. CASE UNCHANGED vars
  <2>1. UNCHANGED TP!lifecycleVars
    BY <1>2, SameRun, RunsStutter DEF vars, limiterVars
  <2>2. TP!IInv'
    BY <2>1, RegistryMayBeUsed, TP!NextIInv DEF ServerInv
  <2>3. HandlersFollowLimiter' /\ RepliesComeLast'
    BY <1>2 DEF ServerInv, vars, limiterVars, HandlersFollowLimiter, RepliesComeLast
  <2> QED
    BY <1>1, <2>1, <2>2, <2>3 DEF ServerInv
<1>3. CASE Next
  <2>1. [TP!LifecycleNext]_(TP!lifecycleVars)
    BY <1>3, StepIsLifecycleStep
  <2>2. TP!IInv'
    BY <2>1, RegistryMayBeUsed, TP!NextIInv DEF ServerInv
  <2> QED
    BY <1>1, <1>3, <2>1, <2>2, HandlersKept DEF ServerInv
<1> QED
  BY <1>2, <1>3

\* Limiter, registry and handlers agree in every reachable state of the servers.
THEOREM ServerInvariant == Spec => []ServerInv
BY InitServerInv, StepServerInv, PTL DEF Spec

\* http.ts and enterpriseHttp.ts implement TaskLifecycle: whatever requests wait,
\* time out, are refused or cancelled, a task is created, set running and finished
\* by its run alone, in that order, each once.
THEOREM ServersUseRegistry == Spec => UsesRegistry
<1>1. TP!LifecycleInit => Lifecycle!LifecycleInit
  BY DEF TP!LifecycleInit, TP!EmptyRegistry, Lifecycle!LifecycleInit, Lifecycle!EmptyRegistry
<1>2. [TP!LifecycleNext]_(TP!lifecycleVars) => [Lifecycle!LifecycleNext]_(Lifecycle!lifecycleVars)
  BY SameLifecycle DEF TP!lifecycleVars, Lifecycle!lifecycleVars
<1> QED
  BY <1>1, <1>2, InitServerInv, StepServerInv, PTL DEF Spec, UsesRegistry, Lifecycle!LifecycleSpec

\* /health: every task listed as running holds a slot of the limiter, so there are
\* never more of them than the count the limiter reports.
THEOREM RunningTasksAreLimited == Spec => []RunningTasksHoldSlots
<1>1. ServerInv => RunningTasksHoldSlots
  <2>1. SUFFICES ASSUME ServerInv PROVE RunningTasksHoldSlots
    OBVIOUS
  <2> DEFINE Running == {s \in Sends : registry.status[s] = "running"}
  <2>2. ASSUME NEW s \in Running PROVE s \in L!InStatus({"running"})
    <3>1. s \in TP!Present(registry)
      BY DEF TP!Present
    <3>2. RunOf(s) \in {"new", "active", "ended"}
      BY DEF RunOf
    <3>3. RunOf(s) = "active"
      BY <2>1, <3>1, <3>2 DEF ServerInv, TP!IInv, TP!StatusMatchesRun, TP!Terminal
    <3> QED
      BY <3>3 DEF RunOf, L!InStatus, Requests
  <2>3. Running \subseteq LP!InStatus({"running", "settling"})
    BY <2>2 DEF L!InStatus, LP!InStatus
  <2>4. currentCount = Cardinality(LP!InStatus({"running", "settling"}))
    BY <2>1 DEF ServerInv, LP!IInv, LP!CountIsRunning, LP!Cardinality, Cardinality
  <2>5. IsFiniteSet(LP!InStatus({"running", "settling"}))
    BY ServerAssumption, FS_Subset DEF LP!InStatus
  <2>6. Cardinality(Running) <= currentCount
    BY <2>3, <2>4, <2>5, FS_Subset
  <2> QED
    BY <2>2, <2>6 DEF RunningTasksHoldSlots
<1> QED
  BY <1>1, ServerInvariant, PTL

-----------------------------------------------------------------------------
(* What the servers' requests inherit from the limiter.                    *)

\* Each step of the servers is a step of the limiter, or leaves it alone.
LEMMA StepIsLimiterStep == ASSUME [Next]_vars PROVE [LP!Next]_(LP!vars)
<1>1. ASSUME NEW r \in Requests, Receive(r) \/ Park(r) \/ Admit(r) \/ WorkEnds(r) \/ Release(r)
                                 \/ QueueTimeoutFires(r) \/ Refuse(r)
      PROVE  LP!Next
  <2>1. LimiterStep(r)
    BY <1>1 DEF Receive, Park, Admit, WorkEnds, Release, QueueTimeoutFires, Refuse, LimiterStep
  <2> QED
    BY <2>1, LimiterSteps
<1>2. ASSUME NEW r \in Requests, ReplySend(r) \/ ReplyInvoke(r) PROVE UNCHANGED limiterVars
  BY <1>2 DEF ReplySend, ReplyInvoke
<1>3. ASSUME NEW t \in Sends, CancelTask(t) PROVE UNCHANGED limiterVars
  BY <1>3 DEF CancelTask
<1>4. UNCHANGED limiterVars => UNCHANGED LP!vars
  BY DEF limiterVars, LP!vars
<1> QED
  BY <1>1, <1>2, <1>3, <1>4 DEF Next, vars

\* The handlers of http.ts and enterpriseHttp.ts use the ingress limiter as its module
\* assumes, so each parked request is woken in its turn, moves up whenever another is
\* done, and does not stay parked while a slot is unused; and only a request that arrives
\* between the wake-up of another and its resumption makes the server work on more than
\* maxConcurrent.
THEOREM RequestsServedInTurn ==
  Spec => /\ LP!WokenInOrder /\ LP!EveryEndAdvances
          /\ []LP!NoStrandedWaiter /\ LP!OnlyOvertakingExceeds
<1>1. Init => LP!Init
  BY DEF Init, L!Init, LP!Init
<1>2. Spec => LP!Spec
  BY <1>1, StepIsLimiterStep, PTL DEF Spec, LP!Spec
<1>3. LP!Spec => LP!WokenInOrder /\ LP!OnlyOvertakingExceeds
  BY LimiterMayBeUsed, LP!FirstComeFirstServed, LP!CapacityExceededOnlyByOvertaking
<1>4. LP!Spec => []LP!NoStrandedWaiter /\ LP!EveryEndAdvances
  BY LimiterMayBeUsed, LP!WorkConserving, LP!EveryEndMovesUp
<1> QED
  BY <1>2, <1>3, <1>4, PTL
=============================================================================
