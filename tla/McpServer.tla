----------------------------- MODULE McpServer -----------------------------
(***************************************************************************)
(* src/mcp.ts: MCP servers of one repository, one process per client.      *)
(* main initialises the engine and serves its tools liku.init, liku.invoke *)
(* and liku.search_memory; engine.init (src/liku/engine.ts) builds the     *)
(* directory tree and initialises the memory.  A server has a degraded     *)
(* flag of its own, set by a failed start or an uncaught exception, beside *)
(* the one of its memory; liku.init is the way back.                       *)
(***************************************************************************)
EXTENDS SqliteMemory

CONSTANTS
  Calls,      \* tool calls, each with the event an invoke of it logs
  MaxKills,   \* bound on processes killed
  MaxFaults   \* bound on uncaught exceptions

ASSUME McpAssumption ==
  /\ Events = Calls /\ Calls \intersect Processes = {}
  /\ MaxKills \in Nat /\ MaxFaults \in Nat

\* What runs code: the main of each process, and its calls.
Activities == Processes \union Calls

VARIABLES
  act,             \* where each activity is: its process, stage and opened bytes
  degradedMode,    \* the global flag of each server
  reply,           \* of each call
  kills, faults,   \* so far
  logged,          \* events whose logEvent has written the file (history)
  risky            \* events an overlap of processes or inits may lose (history)

vars == <<memoryVars, act, degradedMode, reply, kills, faults, logged, risky>>

\* Stages: init goes loading, read, writing, flushed, inited; an invoke may be
\* parked by the limiter, is logging while its event is written, then logged; a
\* process is down before its start and serving after it; the end is over.
Idle == [proc |-> "none", stage |-> "down", opened |-> NoDatabase]

Init ==
  /\ MemoryInit
  /\ act = [a \in Activities |-> Idle]
  /\ degradedMode = [p \in Processes |-> FALSE]
  /\ reply = [c \in Calls |-> "none"]
  /\ kills = 0 /\ faults = 0
  /\ logged = {} /\ risky = {}

Over == [Idle EXCEPT !.stage = "over"]

Home(a) == act[a].proc
At(a, stage) == act[a].stage = stage
To(a, stage) == act' = [act EXCEPT ![a].stage = stage]

\* A process executes nothing else while it is inside writeFileSync.
Free(p) == flushing[p] = "no"
Serving(p) == act[p].stage = "serving" /\ Free(p)

End(c) == act' = [act EXCEPT ![c] = Over]
Answer(c, r) == reply' = [reply EXCEPT ![c] = r]

----------------------------------------------------------------------------
\* engine.init

\* The directories are there: the activity goes on to memory.init, which awaits
\* the loading of sql.js.
EnterInit(a, p) == act' = [act EXCEPT ![a] = [proc |-> p, stage |-> "loading", opened |-> NoDatabase]]

LoadFails(a) ==
  /\ At(a, "loading") /\ Free(Home(a))
  /\ InitFails(Home(a), image[Home(a)])
  /\ To(a, "inited")
  /\ UNCHANGED <<degradedMode, reply, kills, faults, logged, risky>>

\* openDb reads the file: what it reads while another process writes is not what
\* was logged.
Open(a) ==
  /\ At(a, "loading") /\ Free(Home(a))
  /\ act' = [act EXCEPT ![a].stage = "read", ![a].opened = Opened]
  /\ risky' = IF \E q \in Processes : ~Free(q) THEN Events ELSE risky
  /\ UNCHANGED <<memoryVars, degradedMode, reply, kills, faults, logged>>

\* Mutated form of Take: init starts from an empty database.
TakeEmpty(a) ==
  /\ At(a, "read") /\ Free(Home(a))
  /\ InitTakes(Home(a), Readable({}))
  /\ act' = [act EXCEPT ![a].stage = "writing", ![a].opened = NoDatabase]
  /\ risky' = IF \E q \in Processes : ~Free(q) THEN Events ELSE risky
  /\ UNCHANGED <<degradedMode, reply, kills, faults, logged>>

Take(a) ==
  /\ At(a, "read") /\ Free(Home(a))
  /\ InitTakes(Home(a), act[a].opened)
  /\ act' = [act EXCEPT ![a].stage = IF act[a].opened = Torn THEN "inited" ELSE "writing",
                        ![a].opened = NoDatabase]
  /\ risky' = IF \E q \in Processes : ~Free(q) THEN Events ELSE risky
  /\ UNCHANGED <<degradedMode, reply, kills, faults, logged>>

\* The end of writeFileSync, for init and for logEvent.
Written(a) ==
  /\ act[a].stage \in {"writing", "logging"}
  /\ FlushEnd(Home(a))
  /\ To(a, IF At(a, "writing") THEN "flushed" ELSE "logged")
  /\ logged' = IF At(a, "logging") THEN logged \union {a} ELSE logged
  /\ UNCHANGED <<degradedMode, reply, kills, faults, risky>>

\* The write fails: init ends in degraded mode, an invoke in an error.
WriteFails(a) ==
  /\ act[a].stage \in {"writing", "logging"}
  /\ FlushFails(Home(a))
  /\ \/ /\ At(a, "writing")
        /\ degraded' = [degraded EXCEPT ![Home(a)] = TRUE]
        /\ To(a, "inited")
        /\ UNCHANGED reply
     \/ /\ At(a, "logging")
        /\ End(a)
        /\ Answer(a, "error")
        /\ UNCHANGED degraded
  /\ risky' = Events
  /\ UNCHANGED <<degradedMode, kills, faults, logged>>

Flushed(a) ==
  /\ At(a, "flushed") /\ Free(Home(a))
  /\ InitSucceeds(Home(a))
  /\ To(a, "inited")
  /\ UNCHANGED <<degradedMode, reply, kills, faults, logged, risky>>

----------------------------------------------------------------------------
\* main

\* A process starts; engine.init throws, or goes on to the memory.
Boot(p) ==
  /\ At(p, "down")
  /\ \/ EnterInit(p, p) /\ UNCHANGED degradedMode
     \/ /\ act' = [act EXCEPT ![p] = [proc |-> p, stage |-> "serving", opened |-> NoDatabase]]
        /\ degradedMode' = [degradedMode EXCEPT ![p] = TRUE]
  /\ UNCHANGED <<memoryVars, reply, kills, faults, logged, risky>>

\* The server connects; a memory in degraded mode is only logged.
Connect(p) ==
  /\ p \in Processes /\ At(p, "inited") /\ Free(p)
  /\ To(p, "serving")
  /\ UNCHANGED <<memoryVars, degradedMode, reply, kills, faults, logged, risky>>

\* The handlers of uncaughtException and unhandledRejection.
Fault(p) ==
  /\ ~At(p, "down") /\ Free(p)
  /\ faults < MaxFaults
  /\ faults' = faults + 1
  /\ degradedMode' = [degradedMode EXCEPT ![p] = TRUE]
  /\ UNCHANGED <<memoryVars, act, reply, kills, logged, risky>>

\* The client closes stdin and main returns, the start fails, or the process dies
\* anywhere; its calls end with it.
Kill(p) ==
  /\ ~At(p, "down")
  /\ kills < MaxKills
  /\ kills' = kills + 1
  /\ MemoryKilled(p)
  /\ act' = [a \in Activities |-> IF a = p THEN Idle
                                  ELSE IF Home(a) = p THEN Over
                                  ELSE act[a]]
  /\ degradedMode' = [degradedMode EXCEPT ![p] = FALSE]
  /\ risky' = IF Free(p) THEN risky ELSE Events
  /\ UNCHANGED <<reply, faults, logged>>

----------------------------------------------------------------------------
\* The tools.  A call is new while its activity is idle.

New(c, p) == At(c, "down") /\ Serving(p)

\* Any tool but liku.init while the server is degraded.
RefuseDegraded(c, p) ==
  /\ New(c, p) /\ degradedMode[p]
  /\ Answer(c, "degraded")
  /\ End(c)
  /\ UNCHANGED <<memoryVars, degradedMode, kills, faults, logged, risky>>

\* Mutated form of CallInit: the flag is reset before the outcome is known.
CallInitResetting(c, p) ==
  /\ New(c, p)
  /\ degradedMode' = [degradedMode EXCEPT ![p] = FALSE]
  /\ \/ EnterInit(c, p) /\ UNCHANGED reply
     \/ End(c) /\ Answer(c, "error")
  /\ UNCHANGED <<memoryVars, kills, faults, logged, risky>>

\* liku.init: engine.init throws, or goes on to the memory.
CallInit(c, p) ==
  /\ New(c, p)
  /\ \/ EnterInit(c, p) /\ UNCHANGED reply
     \/ End(c) /\ Answer(c, "error")
  /\ UNCHANGED <<memoryVars, degradedMode, kills, faults, logged, risky>>

\* liku.init after engine.init: the flag is reset unless the memory is degraded.
FinishInit(c) ==
  /\ c \in Calls /\ At(c, "inited") /\ Free(Home(c))
  /\ degradedMode' = [degradedMode EXCEPT ![Home(c)] = @ /\ degraded[Home(c)]]
  /\ Answer(c, "initialized")
  /\ End(c)
  /\ UNCHANGED <<memoryVars, kills, faults, logged, risky>>

\* memory.search, without an await.
SearchReply(p) == IF Unprepared(p) THEN "unprepared" ELSE IF Logs(p) THEN "ok" ELSE "error"

\* liku.search_memory: bad arguments, or what the memory says.
CallSearch(c, p) ==
  /\ New(c, p) /\ ~degradedMode[p]
  /\ Answer(c, "error") \/ Answer(c, SearchReply(p))
  /\ End(c)
  /\ UNCHANGED <<memoryVars, degradedMode, kills, faults, logged, risky>>

\* Somebody else holds, or is about to hold, an image without the event.
HeldElsewhere(p) ==
  \/ \E q \in Processes \ {p} : image[q].state # "absent"
  \/ \E a \in Activities : At(a, "read")

\* invokeAgentSafe turns what invokeAgent throws into a result: an error, or the
\* complaint of a memory that was never initialised.
Thrown(c, p) ==
  /\ Answer(c, "error") \/ (Unprepared(p) /\ Answer(c, "unprepared"))
  /\ End(c)

\* invokeAgent up to its end or to the await in logEvent; it throws when the
\* residence is not accepted, and a degraded memory logs nothing.
InvokeAgent(c, p) ==
  \/ /\ Logs(p)
     /\ LogBegin(p, c)
     /\ act' = [act EXCEPT ![c] = [proc |-> p, stage |-> "logging", opened |-> NoDatabase]]
     /\ risky' = IF \E q \in Processes : ~Free(q) THEN Events
                 ELSE IF HeldElsewhere(p) THEN risky \union {c} ELSE risky
     /\ UNCHANGED <<reply, degradedMode, kills, faults, logged>>
  \/ /\ Thrown(c, p) \/ (degraded[p] /\ Answer(c, "ok") /\ End(c))
     /\ UNCHANGED <<memoryVars, degradedMode, kills, faults, logged, risky>>

CallInvoke(c, p) == New(c, p) /\ ~degradedMode[p] /\ InvokeAgent(c, p)

\* The limiter of the server parks an invoke; when it is woken, the flag is not
\* looked at again.
Park(c, p) ==
  /\ New(c, p) /\ ~degradedMode[p]
  /\ act' = [act EXCEPT ![c] = [proc |-> p, stage |-> "parked", opened |-> NoDatabase]]
  /\ UNCHANGED <<memoryVars, degradedMode, reply, kills, faults, logged, risky>>

Unpark(c) == At(c, "parked") /\ Free(Home(c)) /\ InvokeAgent(c, Home(c))

RefuseCapacity(c) ==
  /\ At(c, "parked") /\ Free(Home(c))
  /\ Answer(c, "capacity")
  /\ End(c)
  /\ UNCHANGED <<memoryVars, degradedMode, kills, faults, logged, risky>>

\* The rest of invokeAgent, which reads the prompts of the agent, or fails to.
Bundle == {"ok", "error"}

\* The handler of liku.invoke gets the result and replies with it.
FinishInvoke(c) ==
  /\ At(c, "logged") /\ Free(Home(c))
  /\ \E result \in Bundle : Answer(c, result)
  /\ End(c)
  /\ UNCHANGED <<memoryVars, degradedMode, kills, faults, logged, risky>>

----------------------------------------------------------------------------
Next ==
  \/ \E a \in Activities : LoadFails(a) \/ Open(a) \/ Take(a) \/ Written(a) \/ WriteFails(a) \/ Flushed(a)
  \/ \E p \in Processes : Boot(p) \/ Connect(p) \/ Fault(p) \/ Kill(p)
  \/ \E c \in Calls, p \in Processes :
       RefuseDegraded(c, p) \/ CallInit(c, p) \/ CallSearch(c, p) \/ CallInvoke(c, p) \/ Park(c, p)
  \/ \E c \in Calls : FinishInit(c) \/ Unpark(c) \/ RefuseCapacity(c) \/ FinishInvoke(c)

Spec == Init /\ [][Next]_vars

----------------------------------------------------------------------------
\* What was logged stays, in the file and in every image, through restarts,
\* failed loads and re-initialisations, unless one of the overlaps the design is
\* exposed to concerns it: another image without the event was about when it was
\* logged, or the file was read, written or abandoned in the middle of a write.
LogIsDurable ==
  /\ (\A p \in Processes : Free(p)) => logged \ risky \subseteq file.events
  /\ \A p \in Processes : image[p].state = "readable" => logged \ risky \subseteq image[p].events

\* The two flags together: a server that accepts tool calls has a memory that was
\* initialised or says that it is degraded, whichever inits fail or overlap, so
\* no call ever meets an engine that was never initialised.
NeverUnprepared == \A c \in Calls : reply[c] # "unprepared"
=============================================================================
