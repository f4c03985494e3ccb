----------------------------- MODULE AuditReader -----------------------------
(***************************************************************************)
(* query of src/enterprise/audit/store.ts, and a reader that pages through *)
(* the log with afterSequence while entries are appended: it asks for the  *)
(* entries after the newest one it has.  Over HTTP the order is always     *)
(* "desc", as AuditQuerySchema of enterpriseHttp.ts has no such field.     *)
(***************************************************************************)
EXTENDS AuditLog

CONSTANTS
  MaxEntries,  \* bound on the log
  PageLimit    \* limit of the reader's queries

ASSUME ReaderAssumption == MaxEntries \in Nat /\ PageLimit \in Nat \ {0}

VARIABLES
  auditLog,  \* entries of the store; of their content only the outcome counts
  wanted,    \* outcomes the reader filters by
  order,     \* order of its queries
  received,  \* sequence numbers of the entries it got, in the order in which it got them
  cursor,    \* afterSequence of its next query; -1 for none
  cut        \* a page in descending order came back full (history)

readerVars == <<auditLog, wanted, order, received, cursor, cut>>

ReaderInit ==
  /\ auditLog = <<>> /\ received = <<>> /\ cursor = -1 /\ cut = FALSE
  /\ wanted \in (SUBSET {"success", "denied"}) \ {{}}
  /\ order \in {"asc", "desc"}

AppendEntry ==
  /\ Len(auditLog) < MaxEntries
  /\ \E outcome \in {"success", "denied"} : auditLog' = Appended(auditLog, [outcome |-> outcome])
  /\ UNCHANGED <<wanted, order, received, cursor, cut>>

Page == Query(auditLog, wanted, cursor, order, PageLimit)

ReadPage ==
  /\ Page # <<>>
  /\ received' = received \o [i \in DOMAIN Page |-> Page[i].sequence]
  /\ cursor' = Page[IF order = "asc" THEN Len(Page) ELSE 1].sequence
  /\ cut' = (cut \/ (order = "desc" /\ Len(Page) = PageLimit))
  /\ UNCHANGED <<auditLog, wanted, order>>

ReaderNext == AppendEntry \/ ReadPage
ReaderSpec == ReaderInit /\ [][ReaderNext]_readerVars

----------------------------------------------------------------------------
\* A reader that follows the log has every matching entry up to its cursor, once,
\* and when a query comes back empty it has them all, however appends and
\* queries alternate.  In descending order that is lost as soon as a page is
\* full: what was cut off is older than the cursor and never asked for again.
PagesMissNothing ==
  ~cut =>
    LET got == {received[i] : i \in DOMAIN received}
        due == {i - 1 : i \in {j \in DOMAIN auditLog : auditLog[j].content.outcome \in wanted}}
    IN /\ got = {s \in due : s <= cursor}
       /\ Len(received) = Cardinality(got)
       /\ Page = <<>> => got = due
=============================================================================
