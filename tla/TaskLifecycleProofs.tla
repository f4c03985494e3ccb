------------------------- MODULE TaskLifecycleProofs -------------------------
(***************************************************************************)
(* The task registry stays consistent under any interleaving of runs,      *)
(* cancels, deletions and evictions, whatever the ids and the capacity.    *)
(***************************************************************************)
EXTENDS TaskLifecycle, SequenceLemmas

\* What MapsAgree says, of any registry value.
Good(reg) ==
  /\ reg \in Registry
  /\ ToSet(reg.order) = Present(reg)
  /\ IsInjective(reg.order)
  /\ reg.controllers = Present(reg)

-----------------------------------------------------------------------------
(* The operations of the registry.                                         *)

\* What the definition of a well-formed registry says, field by field.
LEMMA GoodFields ==
  ASSUME NEW reg, Good(reg)
  PROVE  /\ reg.order \in Seq(TaskIds) /\ Len(reg.order) \in Nat
         /\ reg.status \in [TaskIds -> TaskStatus \union {"absent"}]
         /\ reg.result \in [TaskIds -> ResultKind \union {"none"}]
         /\ reg.controllers \subseteq TaskIds
         /\ reg.aborted \subseteq TaskIds
  BY LenProperties DEF Good, Registry

\* delete takes one task out of all the maps, and no other.
LEMMA DeletedGood ==
  ASSUME NEW reg, Good(reg), NEW id \in TaskIds
  PROVE  /\ Good(Deleted(reg, id))
         /\ Len(Deleted(reg, id).order)
              = IF id \in Present(reg) THEN Len(reg.order) - 1 ELSE Len(reg.order)
<1> DEFINE d == Deleted(reg, id)
<1>1. /\ d.order = Without(reg.order, id)
      /\ d.status = [reg.status EXCEPT ![id] = "absent"]
      /\ d.result = [reg.result EXCEPT ![id] = "none"]
      /\ d.controllers = reg.controllers \ {id}
      /\ d.aborted = reg.aborted
  BY DEF Deleted
<1>2. Present(d) = Present(reg) \ {id}
  BY <1>1, GoodFields DEF Present
<1>3. /\ Without(reg.order, id) \in Seq(TaskIds)
      /\ ToSet(Without(reg.order, id)) = ToSet(reg.order) \ {id}
      /\ IsInjective(Without(reg.order, id))
      /\ Len(Without(reg.order, id))
           = IF id \in ToSet(reg.order) THEN Len(reg.order) - 1 ELSE Len(reg.order)
  <2>1. reg.order \in Seq(TaskIds) /\ IsInjective(reg.order)
    BY GoodFields DEF Good
  <2>2. CASE id \in ToSet(reg.order)
    <3>1. PICK k : k = CHOOSE i \in DOMAIN reg.order : reg.order[i] = id
      OBVIOUS
    <3>2. Without(reg.order, id) = RemoveAt(reg.order, k)
      BY <2>2, <3>1 DEF Without
    <3>3. /\ RemoveAt(reg.order, k) \in Seq(TaskIds)
          /\ Len(RemoveAt(reg.order, k)) = Len(reg.order) - 1
          /\ ToSet(RemoveAt(reg.order, k)) = ToSet(reg.order) \ {id}
          /\ IsInjective(RemoveAt(reg.order, k))
      BY <2>1, <2>2, <3>1, RemoveLemma, ZenonT(60)
    <3>q. QED BY <2>2, <3>2, <3>3
  <2>3. CASE id \notin ToSet(reg.order)
    <3>1. Without(reg.order, id) = reg.order
      BY <2>3 DEF Without
    <3>q. QED BY <2>1, <2>3, <3>1
  <2>q. QED BY <2>2, <2>3
<1>4. d \in Registry
  <2>1. /\ d.status \in [TaskIds -> TaskStatus \union {"absent"}]
        /\ d.result \in [TaskIds -> ResultKind \union {"none"}]
        /\ d.controllers \subseteq TaskIds /\ d.aborted \subseteq TaskIds
        /\ d.order \in Seq(TaskIds)
    BY <1>1, <1>3, GoodFields
  <2>2. d = [order |-> d.order, status |-> d.status, result |-> d.result,
             controllers |-> d.controllers, aborted |-> d.aborted]
    BY DEF Deleted
  <2> HIDE DEF d
  <2>q. QED BY <2>1, <2>2 DEF Registry
<1>5. Good(d)
  BY <1>1, <1>2, <1>3, <1>4 DEF Good
<1>6. id \in ToSet(reg.order) <=> id \in Present(reg)
  BY DEF Good
<1>q. QED BY <1>1, <1>3, <1>5, <1>6

\* The first in insertion order is there when the registry is not empty.
LEMMA OldestPresent ==
  ASSUME NEW reg, Good(reg), Len(reg.order) > 0
  PROVE  OldestTask(reg) \in Present(reg)
<1>1. reg.order # <<>>
  BY GoodFields, EmptySeq
<1>q. QED BY <1>1, GoodFields, TailLemma DEF Good, OldestTask

\* create makes room first, and then adds one task, which is new.
LEMMA EvictedGood ==
  ASSUME NEW reg, Good(reg), Len(reg.order) <= MaxTasks
  PROVE  /\ Good(Evicted(reg)) /\ Len(Evicted(reg).order) < MaxTasks
         /\ Evicted(reg).aborted = reg.aborted
         /\ \A t \in TaskIds : \/ /\ Evicted(reg).status[t] = reg.status[t]
                                  /\ Evicted(reg).result[t] = reg.result[t]
                               \/ Evicted(reg).status[t] = "absent"
<1>1. CASE Len(reg.order) >= MaxTasks
  <2>1. PICK o : o = OldestTask(reg)
    OBVIOUS
  <2>2. o \in Present(reg) /\ o \in TaskIds
    BY <1>1, <2>1, OldestPresent, GoodFields, RegistryAssumption DEF Present
  <2>3. Evicted(reg) = Deleted(reg, o)
    BY <1>1, <2>1 DEF Evicted
  <2>4. Good(Deleted(reg, o)) /\ Len(Deleted(reg, o).order) = Len(reg.order) - 1
    BY <2>2, DeletedGood
  <2>5. \A t \in TaskIds : \/ /\ Deleted(reg, o).status[t] = reg.status[t]
                              /\ Deleted(reg, o).result[t] = reg.result[t]
                           \/ Deleted(reg, o).status[t] = "absent"
    BY <2>2, GoodFields DEF Deleted
  <2>6. Deleted(reg, o).aborted = reg.aborted
    BY DEF Deleted
  <2>q. QED BY <2>3, <2>4, <2>5, <2>6, GoodFields, RegistryAssumption
<1>2. CASE ~(Len(reg.order) >= MaxTasks)
  BY <1>2, GoodFields, RegistryAssumption DEF Evicted
<1>q. QED BY <1>1, <1>2

\* The insertion half of create, for an id the registry does not hold.
LEMMA InsertedGood ==
  ASSUME NEW reg, Good(reg), NEW id \in TaskIds, id \notin Present(reg)
  PROVE  Good(Inserted(reg, id)) /\ Len(Inserted(reg, id).order) = Len(reg.order) + 1
<1> DEFINE n == Inserted(reg, id)
<1>1. /\ n.order = Append(reg.order, id)
      /\ n.status = [reg.status EXCEPT ![id] = "pending"]
      /\ n.result = [reg.result EXCEPT ![id] = "none"]
      /\ n.controllers = reg.controllers \union {id}
      /\ n.aborted = reg.aborted
  BY DEF Inserted
<1>2. Present(n) = Present(reg) \union {id}
  BY <1>1, GoodFields DEF Present
<1>3. id \notin ToSet(reg.order) /\ reg.order \in Seq(TaskIds) /\ IsInjective(reg.order)
  BY GoodFields DEF Good
<1>4. /\ Append(reg.order, id) \in Seq(TaskIds)
      /\ ToSet(Append(reg.order, id)) = ToSet(reg.order) \union {id}
      /\ IsInjective(Append(reg.order, id))
      /\ Len(Append(reg.order, id)) = Len(reg.order) + 1
  BY <1>3, AppendLemma, AppendProperties
<1>5. n \in Registry
  <2>1. /\ n.status \in [TaskIds -> TaskStatus \union {"absent"}]
        /\ n.result \in [TaskIds -> ResultKind \union {"none"}]
        /\ n.controllers \subseteq TaskIds /\ n.aborted \subseteq TaskIds
        /\ n.order \in Seq(TaskIds)
    BY <1>1, <1>4, GoodFields DEF TaskStatus
  <2>2. n = [order |-> n.order, status |-> n.status, result |-> n.result,
             controllers |-> n.controllers, aborted |-> n.aborted]
    BY DEF Inserted
  <2> HIDE DEF n
  <2>q. QED BY <2>1, <2>2 DEF Registry
<1>6. Good(n)
  BY <1>1, <1>2, <1>4, <1>5 DEF Good
<1>q. QED BY <1>1, <1>4, <1>6

\* The operations that only change the status and the result of a task, or
\* fire its signal, leave the maps as they are.
LEMMA SameMapsGood ==
  ASSUME NEW reg, Good(reg), NEW new, new.order = reg.order, new.controllers = reg.controllers,
         new \in Registry,
         \A t \in TaskIds : new.status[t] = "absent" <=> reg.status[t] = "absent"
  PROVE  Good(new)
BY DEF Good, Present

\* create followed by updateStatus(id, "running"), for a new id.
LEMMA StartedGood ==
  ASSUME NEW reg, Good(reg), Len(reg.order) <= MaxTasks, NEW id \in TaskIds, id \notin Present(reg),
         NEW new, new = StatusUpdated(Created(reg, id), id, "running")
  PROVE  /\ Good(new) /\ Len(new.order) <= MaxTasks
         /\ new.aborted = reg.aborted
         /\ new.status[id] = "running" /\ new.result[id] = "none"
         /\ \A t \in TaskIds \ {id} : \/ /\ new.status[t] = reg.status[t]
                                         /\ new.result[t] = reg.result[t]
                                      \/ new.status[t] = "absent"
<1>1. PICK e : e = Evicted(reg)
  OBVIOUS
<1>2. /\ Good(e) /\ Len(e.order) < MaxTasks /\ e.aborted = reg.aborted
      /\ \A t \in TaskIds : \/ e.status[t] = reg.status[t] /\ e.result[t] = reg.result[t]
                            \/ e.status[t] = "absent"
  BY <1>1, EvictedGood
<1>3. id \notin Present(e)
  BY <1>2 DEF Present
<1>4. PICK c : c = Inserted(e, id)
  OBVIOUS
<1>5. Good(c) /\ Len(c.order) = Len(e.order) + 1
  BY <1>2, <1>3, <1>4, InsertedGood
<1>6. /\ c.status = [e.status EXCEPT ![id] = "pending"]
      /\ c.result = [e.result EXCEPT ![id] = "none"]
      /\ c.aborted = e.aborted
  BY <1>4 DEF Inserted
<1>7. c.status[id] = "pending" /\ c.result[id] = "none"
  BY <1>2, <1>6, GoodFields
<1>8. new = [c EXCEPT !.status = [c.status EXCEPT ![id] = "running"]]
  BY <1>1, <1>4, <1>7 DEF StatusUpdated, Created
<1>9. /\ new.order = c.order /\ new.controllers = c.controllers /\ new.aborted = c.aborted
      /\ new.result = c.result /\ new.status = [c.status EXCEPT ![id] = "running"]
      /\ new \in Registry
  <2>1. c \in Registry
    BY <1>5 DEF Good
  <2>q. QED BY <1>8, <2>1 DEF Registry, TaskStatus
<1>10. Good(new)
  <2>1. \A t \in TaskIds : new.status[t] = "absent" <=> c.status[t] = "absent"
    BY <1>5, <1>7, <1>9, GoodFields
  <2>q. QED BY <1>5, <1>9, <2>1, SameMapsGood
<1>11. Len(new.order) <= MaxTasks
  BY <1>2, <1>5, <1>9, GoodFields, RegistryAssumption
<1>12. \A t \in TaskIds \ {id} : new.status[t] = e.status[t] /\ new.result[t] = e.result[t]
  BY <1>2, <1>5, <1>6, <1>9, GoodFields
<1>13. new.status[id] = "running"
  BY <1>5, <1>9, GoodFields
<1>q. QED BY <1>2, <1>6, <1>7, <1>9, <1>10, <1>11, <1>12, <1>13, ZenonT(60)

-----------------------------------------------------------------------------
(* The inductive invariant.                                                *)

\* Ids are used once: before its run starts, nothing is known of a task.
Fresh == \A t \in TaskIds : run[t] = "new" => t \notin registry.aborted /\ outcome[t] = "none"

IInv ==
  /\ LifecycleTypeOK
  /\ MapsAgree
  /\ Bounded
  /\ StatusMatchesData
  /\ StatusMatchesRun
  /\ ResultLostOnlyIfCancelledOrGone
  /\ Fresh

\* The part of the invariant that is about the registry alone.
LEMMA GoodRegistry == IInv => Good(registry) /\ Len(registry.order) <= MaxTasks
BY DEF IInv, LifecycleTypeOK, MapsAgree, Bounded, Good

\* The invariant from its per-task form, which the proofs of the steps use.
TaskOK(t) ==
  /\ registry.status[t] # "absent" =>
       /\ registry.status[t] = "failed" <=> registry.result[t] = "error"
       /\ registry.status[t] \in {"completed", "failed"} <=> registry.result[t] # "none"
       /\ registry.status[t] = "cancelled" <=> t \in registry.aborted
       /\ run[t] = "active" => registry.status[t] \in {"running", "cancelled"}
       /\ run[t] = "ended"  => registry.status[t] \in Terminal
       /\ run[t] # "new"
  /\ outcome[t] = "already_terminal" => t \in registry.aborted
  /\ outcome[t] = "not_found" => registry.status[t] = "absent"
  /\ outcome[t] = "set" => registry.status[t] \in {"absent", "completed", "failed"}
  /\ outcome[t] # "idempotent"
  /\ run[t] = "new" => t \notin registry.aborted /\ outcome[t] = "none"
  /\ run[t] \in {"new", "active", "ended"}
  /\ outcome[t] \in {"none", "set", "idempotent", "already_terminal", "not_found"}

\* The invariant is a well-formed, bounded registry and a condition per task.
LEMMA ByTask ==
  IInv <=> /\ Good(registry) /\ Len(registry.order) <= MaxTasks
           /\ run = [t \in TaskIds |-> run[t]] /\ outcome = [t \in TaskIds |-> outcome[t]]
           /\ \A t \in TaskIds : TaskOK(t)
<1>1. ASSUME IInv
      PROVE  /\ run = [t \in TaskIds |-> run[t]] /\ outcome = [t \in TaskIds |-> outcome[t]]
             /\ \A t \in TaskIds : TaskOK(t)
  BY <1>1 DEF IInv, LifecycleTypeOK, StatusMatchesData, StatusMatchesRun,
              ResultLostOnlyIfCancelledOrGone, Fresh, TaskOK, Present
<1>2. ASSUME Good(registry), Len(registry.order) <= MaxTasks,
             run = [t \in TaskIds |-> run[t]], outcome = [t \in TaskIds |-> outcome[t]],
             \A t \in TaskIds : TaskOK(t)
      PROVE  IInv
  <2>1. LifecycleTypeOK
    BY <1>2 DEF TaskOK, LifecycleTypeOK, Good
  <2>2. MapsAgree /\ Bounded
    BY <1>2 DEF Good, MapsAgree, Bounded
  <2>3. StatusMatchesData /\ StatusMatchesRun
    BY <1>2 DEF TaskOK, StatusMatchesData, StatusMatchesRun, Present
  <2>4. ResultLostOnlyIfCancelledOrGone /\ Fresh
    BY <1>2 DEF TaskOK, ResultLostOnlyIfCancelledOrGone, Fresh, Present
  <2>q. QED BY <2>1, <2>2, <2>3, <2>4 DEF IInv
<1>q. QED BY <1>1, <1>2, GoodRegistry

\* The same for the next state, in the direction the steps need.
LEMMA ByTaskNext ==
  ASSUME Good(registry'), Len(registry'.order) <= MaxTasks,
         run' = [t \in TaskIds |-> run'[t]], outcome' = [t \in TaskIds |-> outcome'[t]],
         \A t \in TaskIds : TaskOK(t)'
  PROVE  IInv'
<1>1. LifecycleTypeOK'
  BY DEF TaskOK, LifecycleTypeOK, Good
<1>2. MapsAgree' /\ Bounded'
  BY DEF Good, MapsAgree, Bounded
<1>3. StatusMatchesData' /\ StatusMatchesRun'
  BY DEF TaskOK, StatusMatchesData, StatusMatchesRun, Present
<1>4. ResultLostOnlyIfCancelledOrGone' /\ Fresh'
  BY DEF TaskOK, ResultLostOnlyIfCancelledOrGone, Fresh, Present
<1>q. QED BY <1>1, <1>2, <1>3, <1>4 DEF IInv

\* The empty registry, before any run, satisfies the invariant.
LEMMA InitIInv == LifecycleInit => IInv
<1>1. SUFFICES ASSUME LifecycleInit PROVE IInv
  OBVIOUS
<1>2. Good(registry) /\ Len(registry.order) <= MaxTasks
  <2>1. <<>> \in Seq(TaskIds) /\ Len(<<>>) = 0 /\ ToSet(<<>>) = {} /\ IsInjective(<<>>)
    BY EmptySeq DEF ToSet, IsInjective
  <2>2. Present(EmptyRegistry) = {}
    BY DEF EmptyRegistry, Present
  <2>3. EmptyRegistry \in Registry
    BY <2>1 DEF EmptyRegistry, Registry
  <2>4. /\ EmptyRegistry.order = <<>> /\ EmptyRegistry.controllers = {}
    BY DEF EmptyRegistry
  <2>5. Good(EmptyRegistry)
    BY <2>1, <2>2, <2>3, <2>4 DEF Good
  <2>q. QED BY <1>1, <2>1, <2>4, <2>5, RegistryAssumption DEF LifecycleInit
<1>3. \A t \in TaskIds : TaskOK(t)
  BY <1>1 DEF LifecycleInit, EmptyRegistry, TaskOK
<1>q. QED BY <1>1, <1>2, <1>3, ByTask DEF LifecycleInit

\* A task that a step does not touch stays as it should be.
LEMMA Untouched ==
  ASSUME NEW u \in TaskIds, TaskOK(u), run'[u] = run[u], outcome'[u] = outcome[u],
         registry'.status[u] = registry.status[u], registry'.result[u] = registry.result[u],
         u \in registry'.aborted <=> u \in registry.aborted
  PROVE  TaskOK(u)'
BY DEF TaskOK

\* Starting a run, which may evict another task, preserves the invariant.
LEMMA StartStep == ASSUME IInv, NEW t \in TaskIds, Start(t) PROVE IInv'
<1>1. /\ Good(registry) /\ Len(registry.order) <= MaxTasks
      /\ run = [u \in TaskIds |-> run[u]]
      /\ \A u \in TaskIds : TaskOK(u)
  BY ByTask
<1>2. t \notin Present(registry)
  BY <1>1 DEF Start, TaskOK, Present
<1>3. /\ Good(registry') /\ Len(registry'.order) <= MaxTasks
      /\ registry'.aborted = registry.aborted
      /\ registry'.status[t] = "running" /\ registry'.result[t] = "none"
      /\ \A u \in TaskIds \ {t} : \/ /\ registry'.status[u] = registry.status[u]
                                    /\ registry'.result[u] = registry.result[u]
                                 \/ registry'.status[u] = "absent"
  BY <1>1, <1>2, StartedGood DEF Start
<1>4. run[t] = "new" /\ run' = [run EXCEPT ![t] = "active"] /\ outcome' = outcome
  BY DEF Start
<1>5. TaskOK(t)'
  BY <1>1, <1>3, <1>4 DEF TaskOK
<1>6. ASSUME NEW u \in TaskIds \ {t} PROVE TaskOK(u)'
  BY <1>1, <1>3, <1>4 DEF TaskOK, Terminal
<1>q. QED BY <1>1, <1>3, <1>4, <1>5, <1>6, ByTask, ByTaskNext

\* finishRun preserves the invariant, whatever setResult answers.
LEMMA FinishStep == ASSUME IInv, NEW t \in TaskIds, FinishRun(t) PROVE IInv'
<1>1. /\ Good(registry) /\ Len(registry.order) <= MaxTasks
      /\ run = [u \in TaskIds |-> run[u]] /\ outcome = [u \in TaskIds |-> outcome[u]]
      /\ \A u \in TaskIds : TaskOK(u)
  BY ByTask
<1>2. /\ run[t] = "active" /\ run' = [run EXCEPT ![t] = "ended"]
      /\ outcome' = [outcome EXCEPT ![t] = SetResultOutcome(registry, t)]
  BY DEF FinishRun
<1>3. PICK kind \in ResultKind : registry' = ResultSet(registry, t, kind)
  BY DEF FinishRun
<1>4. registry.status[t] \in {"absent", "running", "cancelled"}
  BY <1>1, <1>2, GoodFields DEF TaskOK
<1>5. CASE registry.status[t] = "running"
  <2>1. SetResultOutcome(registry, t) = "set"
    BY <1>5 DEF SetResultOutcome, Terminal
  <2>2. registry' = [registry EXCEPT
                       !.result = [registry.result EXCEPT ![t] = kind],
                       !.status = [registry.status EXCEPT
                                     ![t] = IF kind = "error" THEN "failed" ELSE "completed"]]
    BY <1>3, <2>1 DEF ResultSet
  <2>3. /\ registry'.order = registry.order /\ registry'.controllers = registry.controllers
        /\ registry'.aborted = registry.aborted
        /\ registry'.result = [registry.result EXCEPT ![t] = kind]
        /\ registry'.status = [registry.status EXCEPT
                                 ![t] = IF kind = "error" THEN "failed" ELSE "completed"]
        /\ registry' \in Registry
    BY <1>1, <2>2 DEF Good, Registry, TaskStatus
  <2>4. Good(registry') /\ Len(registry'.order) <= MaxTasks
    BY <1>1, <1>5, <2>3, SameMapsGood, GoodFields
  <2>5. TaskOK(t)'
    BY <1>1, <1>2, <1>3, <1>5, <2>1, <2>3, GoodFields DEF TaskOK, Terminal, ResultKind
  <2>6. ASSUME NEW u \in TaskIds \ {t} PROVE TaskOK(u)'
    <3>1. /\ TaskOK(u) /\ run'[u] = run[u] /\ outcome'[u] = outcome[u]
          /\ registry'.status[u] = registry.status[u] /\ registry'.result[u] = registry.result[u]
          /\ u \in registry'.aborted <=> u \in registry.aborted
      BY <1>1, <1>2, <2>3, GoodFields
    <3>q. QED BY <3>1, Untouched
  <2>q. QED BY <1>1, <1>2, <2>4, <2>5, <2>6, ByTaskNext
<1>6. CASE registry.status[t] # "running"
  <2>1. SetResultOutcome(registry, t)
          = IF registry.status[t] = "absent" THEN "not_found" ELSE "already_terminal"
    BY <1>1, <1>4, <1>6 DEF SetResultOutcome, Terminal, TaskOK
  <2>2. registry' = registry
    BY <1>3, <2>1 DEF ResultSet
  <2>3. TaskOK(t)'
    <3>1. run'[t] = "ended" /\ outcome'[t] = SetResultOutcome(registry, t)
      BY <1>1, <1>2
    <3>2. CASE registry.status[t] = "absent"
      BY <1>1, <2>1, <2>2, <3>1, <3>2 DEF TaskOK
    <3>3. CASE registry.status[t] = "cancelled"
      BY <1>1, <2>1, <2>2, <3>1, <3>3 DEF TaskOK, Terminal
    <3>q. QED BY <1>4, <1>6, <3>2, <3>3
  <2>4. ASSUME NEW u \in TaskIds \ {t} PROVE TaskOK(u)'
    <3>1. TaskOK(u) /\ run'[u] = run[u] /\ outcome'[u] = outcome[u]
      BY <1>1, <1>2
    <3>q. QED BY <2>2, <3>1, Untouched
  <2>q. QED BY <1>1, <1>2, <2>2, <2>3, <2>4, ByTaskNext
<1>q. QED BY <1>5, <1>6

\* tasks/cancel preserves the invariant.
LEMMA CancelStep == ASSUME IInv, NEW t \in TaskIds, Cancel(t) PROVE IInv'
<1>1. /\ Good(registry) /\ Len(registry.order) <= MaxTasks
      /\ run = [u \in TaskIds |-> run[u]] /\ outcome = [u \in TaskIds |-> outcome[u]]
      /\ \A u \in TaskIds : TaskOK(u)
  BY ByTask
<1>2. run[t] # "new" /\ run' = run /\ outcome' = outcome /\ registry' = Cancelled(registry, t)
  BY DEF Cancel
<1>3. CASE ~Cancellable(registry, t)
  <2>1. registry' = registry
    BY <1>2, <1>3 DEF Cancelled
  <2>q. QED BY <1>1, <1>2, <2>1, ByTaskNext DEF TaskOK
<1>4. CASE Cancellable(registry, t)
  <2>1. registry.status[t] = "running" /\ run[t] = "active" /\ t \in registry.controllers
    BY <1>1, <1>4 DEF Cancellable, TaskOK, Terminal, Good, Present
  <2>2. registry' = [registry EXCEPT !.status = [registry.status EXCEPT ![t] = "cancelled"],
                                     !.aborted = registry.aborted \union {t}]
    BY <1>2, <1>4, <2>1 DEF Cancelled
  <2>3. /\ registry'.order = registry.order /\ registry'.controllers = registry.controllers
        /\ registry'.aborted = registry.aborted \union {t}
        /\ registry'.result = registry.result
        /\ registry'.status = [registry.status EXCEPT ![t] = "cancelled"]
        /\ registry' \in Registry
    BY <1>1, <2>2 DEF Good, Registry, TaskStatus
  <2>4. Good(registry') /\ Len(registry'.order) <= MaxTasks
    BY <1>1, <2>1, <2>3, SameMapsGood, GoodFields
  <2>5. TaskOK(t)'
    BY <1>1, <1>2, <2>1, <2>3, GoodFields DEF TaskOK, Terminal
  <2>6. ASSUME NEW u \in TaskIds \ {t} PROVE TaskOK(u)'
    <3>1. /\ TaskOK(u) /\ run'[u] = run[u] /\ outcome'[u] = outcome[u]
          /\ registry'.status[u] = registry.status[u] /\ registry'.result[u] = registry.result[u]
          /\ u \in registry'.aborted <=> u \in registry.aborted
      BY <1>1, <1>2, <2>3, GoodFields
    <3>q. QED BY <3>1, Untouched
  <2>q. QED BY <1>1, <1>2, <2>4, <2>5, <2>6, ByTaskNext
<1>q. QED BY <1>3, <1>4

\* The exported delete preserves the invariant.
LEMMA DeleteStep == ASSUME IInv, NEW t \in TaskIds, Delete(t) PROVE IInv'
<1>1. /\ Good(registry) /\ Len(registry.order) <= MaxTasks
      /\ run = [u \in TaskIds |-> run[u]] /\ outcome = [u \in TaskIds |-> outcome[u]]
      /\ \A u \in TaskIds : TaskOK(u)
  BY ByTask
<1>2. run[t] # "new" /\ run' = run /\ outcome' = outcome /\ registry' = Deleted(registry, t)
  BY DEF Delete
<1>3. Good(registry') /\ Len(registry'.order) <= MaxTasks
  BY <1>1, <1>2, DeletedGood, GoodFields, RegistryAssumption
<1>4. /\ registry'.aborted = registry.aborted
      /\ registry'.status = [registry.status EXCEPT ![t] = "absent"]
      /\ registry'.result = [registry.result EXCEPT ![t] = "none"]
  BY <1>2 DEF Deleted
<1>5. TaskOK(t)'
  BY <1>1, <1>2, <1>4, GoodFields DEF TaskOK
<1>6. ASSUME NEW u \in TaskIds \ {t} PROVE TaskOK(u)'
  <2>1. /\ TaskOK(u) /\ run'[u] = run[u] /\ outcome'[u] = outcome[u]
        /\ registry'.status[u] = registry.status[u] /\ registry'.result[u] = registry.result[u]
        /\ u \in registry'.aborted <=> u \in registry.aborted
    BY <1>1, <1>2, <1>4, GoodFields
  <2>q. QED BY <2>1, Untouched
<1>q. QED BY <1>1, <1>2, <1>3, <1>5, <1>6, ByTaskNext

-----------------------------------------------------------------------------
\* Every step of a run, a cancel, a deletion preserves the invariant.
THEOREM NextIInv == IInv /\ [LifecycleNext]_lifecycleVars => IInv'
<1>1. ASSUME IInv, UNCHANGED lifecycleVars PROVE IInv'
  BY <1>1 DEF lifecycleVars, IInv, LifecycleTypeOK, MapsAgree, Bounded, StatusMatchesData, StatusMatchesRun,
              ResultLostOnlyIfCancelledOrGone, Fresh
<1>q. QED BY <1>1, StartStep, FinishStep, CancelStep, DeleteStep DEF LifecycleNext

\* All invariants of the registry and its runs hold in every reachable state.
THEOREM RegistryInvariant == LifecycleSpec => []IInv
BY InitIInv, NextIInv, PTL DEF LifecycleSpec

\* The registry, the runs and their outcomes keep their types.
THEOREM RegistryTypeCorrect == LifecycleSpec => []LifecycleTypeOK
BY RegistryInvariant, PTL DEF IInv

\* The registry never holds more than MaxTasks tasks.
THEOREM RegistryBounded == LifecycleSpec => []Bounded
BY RegistryInvariant, PTL DEF IInv

\* The two Maps and the insertion order agree, and no status contradicts the
\* result, the signal or the run of its task (run and finishRun are the only
\* writers of "running", "completed" and "failed").
THEOREM RegistryAlwaysConsistent == LifecycleSpec => []RegistryConsistent
<1>1. IInv => RegistryConsistent
  BY DEF IInv, RegistryConsistent
<1>q. QED BY <1>1, RegistryInvariant, PTL

\* A result is refused only for tasks that were cancelled or are gone.
THEOREM ResultsNotLost == LifecycleSpec => []ResultLostOnlyIfCancelledOrGone
BY RegistryInvariant, PTL DEF IInv

\* Completed, failed and cancelled are final, with their result.
THEOREM OutcomesAreFinal == LifecycleSpec => TerminalIsFinal
<1> DEFINE Final == \A t \in TaskIds :
             registry.status[t] \in Terminal /\ registry'.status[t] # "absent"
               => /\ registry'.status[t] = registry.status[t]
                  /\ registry'.result[t] = registry.result[t]
<1>1. IInv /\ [LifecycleNext]_lifecycleVars => Final
  <2>1. SUFFICES ASSUME IInv, [LifecycleNext]_lifecycleVars, NEW u \in TaskIds, registry.status[u] \in Terminal,
                        registry'.status[u] # "absent"
                 PROVE  /\ registry'.status[u] = registry.status[u]
                        /\ registry'.result[u] = registry.result[u]
    OBVIOUS
  <2>2. /\ Good(registry) /\ Len(registry.order) <= MaxTasks /\ TaskOK(u)
        /\ \A t \in TaskIds : TaskOK(t)
    BY <2>1, ByTask
  <2>3. CASE UNCHANGED lifecycleVars
    BY <2>3 DEF lifecycleVars
  <2>4. ASSUME NEW t \in TaskIds, Start(t) PROVE registry'.status[u] = registry.status[u]
                                                /\ registry'.result[u] = registry.result[u]
    <3>1. t \notin Present(registry) /\ u # t
      BY <2>1, <2>2, <2>4 DEF Start, TaskOK, Present, Terminal
    <3>q. QED BY <2>1, <2>2, <2>4, <3>1, StartedGood DEF Start
  <2>5. ASSUME NEW t \in TaskIds, FinishRun(t) PROVE registry'.status[u] = registry.status[u]
                                                 /\ registry'.result[u] = registry.result[u]
    <3>1. PICK kind \in ResultKind : registry' = ResultSet(registry, t, kind)
      BY <2>5 DEF FinishRun
    <3>2. CASE u = t
      BY <2>1, <3>1, <3>2 DEF ResultSet, SetResultOutcome
    <3>3. CASE u # t
      BY <2>2, <3>1, <3>3, GoodFields DEF ResultSet, Good, Registry
    <3>q. QED BY <3>2, <3>3
  <2>6. ASSUME NEW t \in TaskIds, Cancel(t) PROVE registry'.status[u] = registry.status[u]
                                                 /\ registry'.result[u] = registry.result[u]
    BY <2>1, <2>2, <2>6, GoodFields DEF Cancel, Cancelled, Cancellable, Terminal, Good, Registry
  <2>7. ASSUME NEW t \in TaskIds, Delete(t) PROVE registry'.status[u] = registry.status[u]
                                                 /\ registry'.result[u] = registry.result[u]
    BY <2>1, <2>2, <2>7, GoodFields DEF Delete, Deleted
  <2>q. QED BY <2>1, <2>3, <2>4, <2>5, <2>6, <2>7 DEF LifecycleNext
<1>q. QED BY <1>1, RegistryInvariant, PTL DEF LifecycleSpec, TerminalIsFinal
=============================================================================
