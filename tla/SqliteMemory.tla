---------------------------- MODULE SqliteMemory ----------------------------
(***************************************************************************)
(* src/liku/memory/sqliteMemory.ts: an event log kept as a database image  *)
(* in memory and written whole to one file on every change.  Processes of  *)
(* the same repository share the file and nothing else.                    *)
(*                                                                         *)
(* A step is what runs between two awaits, except that writeFileSync is    *)
(* cut in two: it blocks its own process but not the others, and a process *)
(* may be killed inside it.                                                *)
(***************************************************************************)
EXTENDS Naturals, FiniteSets

CONSTANTS
  Processes,   \* processes that open the memory of the repository
  Events       \* ids of events; id() never repeats itself

VARIABLES
  file,      \* the file at dbPath
  image,     \* bundle.db of each process
  degraded,  \* _degraded of each process
  flushing   \* processes inside writeFileSync, and whether another one is, too

memoryVars == <<file, image, degraded, flushing>>

\* A database: absent (no file, or no bundle), torn (what SQLite refuses to read),
\* or readable with a set of events.  An empty file is a readable database.
NoDatabase == [state |-> "absent", events |-> {}]
Torn == [state |-> "torn", events |-> {}]
Readable(events) == [state |-> "readable", events |-> events]
Databases == {NoDatabase, Torn} \union {Readable(s) : s \in SUBSET Events}

MemoryInit ==
  /\ file = NoDatabase
  /\ image = [p \in Processes |-> NoDatabase]
  /\ degraded = [p \in Processes |-> FALSE]
  /\ flushing = [p \in Processes |-> "no"]

\* The bytes openDb reads, as the database it makes of them.
Opened == IF file.state = "absent" THEN Readable({}) ELSE file

\* flush: export gives the image, writeFileSync truncates the file...
FlushBegin(p, db) ==
  /\ image' = [image EXCEPT ![p] = db]
  /\ file' \in {Readable({}), Torn}
  /\ LET others == {q \in Processes \ {p} : flushing[q] # "no"}
     IN flushing' = [q \in Processes |-> IF q \in others THEN "clash"
                                         ELSE IF q = p THEN IF others = {} THEN "alone" ELSE "clash"
                                         ELSE flushing[q]]
  /\ UNCHANGED degraded

\* ... and fills it.  Two processes doing so at once may leave a mixture.
FlushEnd(p) ==
  /\ flushing[p] # "no"
  /\ file' \in {image[p]} \union IF flushing[p] = "clash" THEN {Torn} ELSE {}
  /\ flushing' = [flushing EXCEPT ![p] = "no"]
  /\ UNCHANGED <<image, degraded>>

\* writeFileSync throws: the file stays as far as it was written.
FlushFails(p) ==
  /\ flushing[p] # "no"
  /\ flushing' = [flushing EXCEPT ![p] = "no"]
  /\ UNCHANGED <<file, image>>

\* init cannot load sql.js, or migrate throws on what was opened.
InitFails(p, db) ==
  /\ image' = [image EXCEPT ![p] = db]
  /\ degraded' = [degraded EXCEPT ![p] = TRUE]
  /\ UNCHANGED <<file, flushing>>

\* init after `await openDb': the bundle is replaced, migrated and flushed.
InitTakes(p, db) == IF db.state = "torn" THEN InitFails(p, db) ELSE FlushBegin(p, db)

\* init after `await this.flush()'.
InitSucceeds(p) ==
  /\ degraded' = [degraded EXCEPT ![p] = FALSE]
  /\ UNCHANGED <<file, image, flushing>>

\* logEvent: what it does with an event.
Logs(p)      == ~degraded[p] /\ image[p].state = "readable"
Unprepared(p) == ~degraded[p] /\ image[p].state = "absent"   \* MEMORY_NOT_INITIALIZED

LogBegin(p, e) == Logs(p) /\ FlushBegin(p, Readable(image[p].events \union {e}))

\* The process is gone, its file stays as it is.
MemoryKilled(p) ==
  /\ image' = [image EXCEPT ![p] = NoDatabase]
  /\ degraded' = [degraded EXCEPT ![p] = FALSE]
  /\ flushing' = [flushing EXCEPT ![p] = "no"]
  /\ UNCHANGED file
=============================================================================
