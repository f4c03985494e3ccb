---------------------------- MODULE TaskRegistry ----------------------------
(***************************************************************************)
(* src/liku/orchestrator/taskRegistry.ts: the in-memory registry of tasks, *)
(* as operators from one registry value to the next.  Its methods are      *)
(* synchronous, so each runs to its end before any other code; the modules *)
(* that use the registry say who calls them and when.                      *)
(*                                                                         *)
(* A registry is a record:                                                 *)
(*   order        ids of the Map `tasks', in insertion order               *)
(*   status       status of each task, "absent" when the Map has no entry  *)
(*   result       kind of the result stored in the task, "none" without    *)
(*   controllers  ids of the Map `abortControllers'                        *)
(*   aborted      ids whose abort signal has fired; a signal is held by    *)
(*                its run too, so it outlives the entry                    *)
(***************************************************************************)
EXTENDS Naturals, SequencesExt

CONSTANTS
  TaskIds,    \* generateTaskId never returns the same id twice
  MaxTasks    \* maxTasks of the constructor, 1000 in the singleton

ASSUME RegistryAssumption == IsFiniteSet(TaskIds) /\ MaxTasks \in Nat \ {0}

ResultKind == {"ok", "partial", "escalation", "error"}
TaskStatus == {"pending", "running", "completed", "failed", "cancelled"}
Terminal   == {"completed", "failed", "cancelled"}

EmptyRegistry ==
  [order |-> <<>>,
   status |-> [t \in TaskIds |-> "absent"],
   result |-> [t \in TaskIds |-> "none"],
   controllers |-> {},
   aborted |-> {}]

Present(reg) == {t \in TaskIds : reg.status[t] # "absent"}

\* A Map without the entry of id, the others keeping their order.
Without(order, id) ==
  IF id \in ToSet(order)
  THEN RemoveAt(order, CHOOSE i \in DOMAIN order : order[i] = id) ELSE order

\* Mutated form of Deleted: the controller is kept.
DeletedKeepingController(reg, id) ==
  [reg EXCEPT !.order = Without(@, id), !.status[id] = "absent", !.result[id] = "none"]

\* tasks.delete(id) and abortControllers.delete(id)
Deleted(reg, id) ==
  [order |-> Without(reg.order, id),
   status |-> [reg.status EXCEPT ![id] = "absent"],
   result |-> [reg.result EXCEPT ![id] = "none"],
   controllers |-> reg.controllers \ {id},
   aborted |-> reg.aborted]

\* getOldestTask scans in insertion order and keeps the first of the smallest
\* creation times; the clock does not go back, so that is the first entry.
OldestTask(reg) == Head(reg.order)

\* At capacity the oldest task goes, whatever its status, without an abort.
Evicted(reg) ==
  IF Len(reg.order) >= MaxTasks THEN Deleted(reg, OldestTask(reg)) ELSE reg

Inserted(reg, id) ==
  [order |-> Append(reg.order, id),
   status |-> [reg.status EXCEPT ![id] = "pending"],
   result |-> [reg.result EXCEPT ![id] = "none"],
   controllers |-> reg.controllers \union {id},
   aborted |-> reg.aborted]

Created(reg, id) == Inserted(Evicted(reg), id)

\* updateStatus does not look at the status it overwrites.
StatusUpdated(reg, id, s) ==
  IF reg.status[id] = "absent" THEN reg
  ELSE [reg EXCEPT !.status = [reg.status EXCEPT ![id] = s]]

SetResultOutcome(reg, id) ==
  CASE reg.status[id] = "absent" -> "not_found"
    [] reg.status[id] \in Terminal /\ reg.result[id] # "none" -> "idempotent"
    [] reg.status[id] \in Terminal /\ reg.result[id] = "none" -> "already_terminal"
    [] OTHER -> "set"

\* Mutated form of ResultSet: a terminal task is overwritten.
ResultSetOverwriting(reg, id, kind) ==
  IF reg.status[id] = "absent" THEN reg
  ELSE [reg EXCEPT !.result[id] = kind,
                   !.status[id] = IF kind = "error" THEN "failed" ELSE "completed"]

ResultSet(reg, id, kind) ==
  IF SetResultOutcome(reg, id) # "set" THEN reg
  ELSE [reg EXCEPT
          !.result = [reg.result EXCEPT ![id] = kind],
          !.status = [reg.status EXCEPT
                        ![id] = IF kind = "error" THEN "failed" ELSE "completed"]]

\* cancel returns false, and does nothing, for any other status.
Cancellable(reg, id) == reg.status[id] \in {"pending", "running"}

\* Mutated forms of Cancelled: any task is cancelled; the signal does not fire.
CancelledAnyStatus(reg, id) ==
  IF reg.status[id] = "absent" THEN reg
  ELSE [reg EXCEPT !.status[id] = "cancelled", !.aborted = @ \union {id}]
CancelledWithoutAbort(reg, id) ==
  IF ~Cancellable(reg, id) THEN reg ELSE [reg EXCEPT !.status[id] = "cancelled"]

Cancelled(reg, id) ==
  IF ~Cancellable(reg, id) THEN reg
  ELSE [reg EXCEPT
          !.status = [reg.status EXCEPT ![id] = "cancelled"],
          !.aborted = IF id \in reg.controllers THEN @ \union {id} ELSE @]

\* list() and the last element of the array it returns
LastListed(reg) ==
  IF reg.order = <<>> THEN "unknown" ELSE reg.order[Len(reg.order)]

Registry ==
  [order : Seq(TaskIds),
   status : [TaskIds -> TaskStatus \union {"absent"}],
   result : [TaskIds -> ResultKind \union {"none"}],
   controllers : SUBSET TaskIds,
   aborted : SUBSET TaskIds]
=============================================================================
