--------------------------- MODULE McpServerProofs ---------------------------
(***************************************************************************)
(* Two promises of the MCP servers, for any number of processes and calls: *)
(* no tool call meets an engine that was never initialised, and an event   *)
(* once logged stays, unless an overlap of processes concerns it.          *)
(***************************************************************************)
EXTENDS McpServer, TLAPS

Stages == {"down", "loading", "read", "writing", "flushed", "inited", "serving",
           "parked", "logging", "logged", "over"}
Present == {Torn} \union {Readable(s) : s \in SUBSET Events}   \* what openDb may give

Progress == [proc : Processes \union {"none"}, stage : Stages, opened : Databases]

TypeOK ==
  /\ file \in Databases
  /\ image \in [Processes -> Databases]
  /\ degraded \in [Processes -> BOOLEAN]
  /\ flushing \in [Processes -> {"no", "alone", "clash"}]
  /\ act \in [Activities -> Progress]
  /\ degradedMode \in [Processes -> BOOLEAN]
  /\ DOMAIN reply = Calls
  /\ logged \subseteq Calls /\ risky \subseteq Calls

\* An activity under way runs in a process, and the main of a process in its own.
Under(a) == act[a].stage \notin {"down", "over"}

ActivitiesHaveHomes ==
  /\ \A a \in Activities : Under(a) => Home(a) \in Processes
  /\ \A p \in Processes : Under(p) => Home(p) = p
  /\ \A c \in Calls : ~At(c, "serving")
  /\ \A p \in Processes : act[p].stage \notin {"parked", "logging", "logged"}

\* A memory that was initialised says so by its image, or by its degraded flag.
Prepared(p) == degraded[p] \/ image[p].state # "absent"

\* From the moment a file was read until the tools are served again.
InitsPrepare ==
  /\ \A a \in Activities :
       /\ At(a, "read") => act[a].opened \in Present
       /\ act[a].stage \in {"writing", "flushed"} => image[Home(a)].state # "absent"
       /\ act[a].stage \in {"inited", "parked"} => Prepared(Home(a))
  /\ \A p \in Processes : At(p, "serving") /\ ~degradedMode[p] => Prepared(p)

PreparedInv ==
  /\ TypeOK /\ ActivitiesHaveHomes /\ InitsPrepare
  /\ NeverUnprepared

\* Of a process inside writeFileSync one activity waits for it.
Writing(a) == act[a].stage \in {"writing", "logging"}

OneWriter ==
  /\ \A a \in Activities : Writing(a) => ~Free(Home(a))
  /\ \A a, b \in Activities : Writing(a) /\ Writing(b) /\ Home(a) = Home(b) => a = b

\* An event that no overlap concerns: while there is one, files are written by one
\* process at a time.
OneFlusher ==
  \A p \in Processes : ~Free(p) =>
    /\ flushing[p] = "alone" /\ image[p].state = "readable"
    /\ \A q \in Processes \ {p} : Free(q)

\* Once logged, it is in the file between two writes, in every image and in what
\* an init has just read.
Saved(e) ==
  e \in logged =>
    /\ (\A p \in Processes : Free(p)) => e \in file.events
    /\ \A p \in Processes : image[p].state = "readable" => e \in image[p].events
    /\ \A a \in Activities : At(a, "read") => e \in act[a].opened.events

\* While it is being logged, it is in the image of its process, and nobody else
\* has one, or is about to.
BeingSaved(e) ==
  At(e, "logging") =>
    /\ e \in image[Home(e)].events
    /\ \A p \in Processes \ {Home(e)} : image[p].state = "absent"
    /\ \A a \in Activities : ~At(a, "read")

Kept(e) == OneFlusher /\ Saved(e) /\ BeingSaved(e)

DurableInv ==
  /\ PreparedInv
  /\ OneWriter
  /\ \A e \in Calls \ risky : Kept(e)

-----------------------------------------------------------------------------
LEMMA DatabaseFacts ==
  /\ NoDatabase \in Databases /\ Torn \in Present /\ Present \subseteq Databases
  /\ \A s \in SUBSET Events : Readable(s) \in Present
  /\ \A db \in Databases : db.events \in SUBSET Events
  /\ \A db \in Databases : db.state # "absent" => db \in Present
  /\ \A db \in Present : db.state # "absent" /\ (db.state = "torn" <=> db = Torn)
<1>1. NoDatabase \in Databases /\ Torn \in Present /\ Present \subseteq Databases
  BY DEF Databases, Present
<1>2. \A s \in SUBSET Events : Readable(s) \in Present
  BY DEF Present
<1>3. \A db \in Databases : \/ db = NoDatabase \/ db = Torn
                            \/ \E s \in SUBSET Events : db = Readable(s)
  BY DEF Databases
<1>4. /\ NoDatabase.state = "absent" /\ NoDatabase.events = {}
      /\ Torn.state = "torn" /\ Torn.events = {}
      /\ \A s : Readable(s).state = "readable" /\ Readable(s).events = s
  BY DEF NoDatabase, Torn, Readable
<1>5. \A db \in Databases : db.events \in SUBSET Events
  BY <1>3, <1>4
<1>6. \A db \in Databases : db.state # "absent" => db \in Present
  BY <1>1, <1>2, <1>3, <1>4
<1>7. \A db \in Present : db.state # "absent" /\ (db.state = "torn" <=> db = Torn)
  <2>1. SUFFICES ASSUME NEW db \in Present
                 PROVE  db.state # "absent" /\ (db.state = "torn" <=> db = Torn)
    OBVIOUS
  <2>2. db = Torn \/ \E s \in SUBSET Events : db = Readable(s)
    BY DEF Present
  <2> QED
    BY <1>4, <2>2
<1> QED
  BY <1>1, <1>2, <1>5, <1>6, <1>7

LEMMA OpenedPresent ==
  ASSUME file \in Databases
  PROVE  Opened \in Present /\ file.events \subseteq Opened.events
<1>1. {} \in SUBSET Events
  OBVIOUS
<1>2. Readable({}) \in Present
  BY <1>1, DatabaseFacts
<1>3. file.state = "absent" => file.events = {}
  BY DatabaseFacts DEF Databases, NoDatabase, Torn, Readable
<1> QED
  BY <1>2, <1>3, DatabaseFacts DEF Opened

\* What a step about one activity does to the others.
Others(a) == \A b \in Activities \ {a} : act'[b] = act[b]

LEMMA Moves ==
  ASSUME act \in [Activities -> Progress], NEW a \in Activities, NEW r \in Progress,
         act' = [act EXCEPT ![a] = r]
  PROVE  act' \in [Activities -> Progress] /\ act'[a] = r /\ Others(a)
BY DEF Others

LEMMA MovesTo ==
  ASSUME act \in [Activities -> Progress], NEW a \in Activities, NEW s \in Stages, To(a, s)
  PROVE  /\ act' \in [Activities -> Progress] /\ Others(a)
         /\ act'[a].proc = act[a].proc /\ act'[a].stage = s /\ act'[a].opened = act[a].opened
<1>1. act[a] \in Progress
  OBVIOUS
<1>2. [act[a] EXCEPT !.stage = s] \in Progress
  BY <1>1 DEF Progress
<1>3. act' = [act EXCEPT ![a] = [act[a] EXCEPT !.stage = s]]
  BY DEF To
<1>4. /\ [act[a] EXCEPT !.stage = s].proc = act[a].proc
      /\ [act[a] EXCEPT !.stage = s].stage = s
      /\ [act[a] EXCEPT !.stage = s].opened = act[a].opened
  BY <1>1 DEF Progress
<1> QED
  BY <1>2, <1>3, <1>4 DEF Others

LEMMA Ends ==
  ASSUME act \in [Activities -> Progress], NEW c \in Activities, End(c)
  PROVE  act' \in [Activities -> Progress] /\ Others(c) /\ act'[c] = Over
<1>1. Over \in Progress
  BY DatabaseFacts DEF Over, Idle, Progress, Stages
<1> QED
  BY <1>1, Moves DEF End

LEMMA Enters ==
  ASSUME act \in [Activities -> Progress], NEW a \in Activities, NEW p \in Processes,
         NEW s \in Stages, act' = [act EXCEPT ![a] = [proc |-> p, stage |-> s, opened |-> NoDatabase]]
  PROVE  /\ act' \in [Activities -> Progress] /\ Others(a)
         /\ act'[a] = [proc |-> p, stage |-> s, opened |-> NoDatabase]
<1>1. [proc |-> p, stage |-> s, opened |-> NoDatabase] \in Progress
  BY DatabaseFacts DEF Progress
<1> QED
  BY <1>1, Moves

LEMMA InitInv == Init => DurableInv
<1>1. SUFFICES ASSUME Init PROVE DurableInv
  OBVIOUS
<1>2. /\ \A a \in Activities : act[a] = Idle
      /\ \A p \in Processes : flushing[p] = "no"
      /\ logged = {}
  BY <1>1 DEF Init, MemoryInit
<1>3. TypeOK
  BY <1>1, DatabaseFacts DEF Init, MemoryInit, TypeOK, Idle, Progress, Stages
<1>4. PreparedInv
  BY <1>1, <1>2, <1>3 DEF PreparedInv, ActivitiesHaveHomes, InitsPrepare, Under, At, Idle,
                         NeverUnprepared, Init, Activities
<1>5. OneWriter
  BY <1>2 DEF OneWriter, Writing, Idle
<1>6. \A e \in Calls : Kept(e)
  BY <1>2 DEF Kept, OneFlusher, Saved, BeingSaved, Free, At, Idle, Activities
<1> QED
  BY <1>4, <1>5, <1>6 DEF DurableInv

-----------------------------------------------------------------------------
(* Types.                                                                  *)

LEMMA StepType ==
  ASSUME TypeOK, ActivitiesHaveHomes, Next
  PROVE  TypeOK'
<1> USE McpAssumption DEF TypeOK, memoryVars
<1>0. /\ \A s : s \in {"down", "loading", "read", "writing", "flushed", "inited", "serving",
                       "parked", "logging", "logged", "over"} => s \in Stages
      /\ Processes \subseteq Activities /\ Calls \subseteq Activities
      /\ Torn \in Databases /\ NoDatabase \in Databases /\ Readable({}) \in Databases
  <2>1. {} \in SUBSET Events
    OBVIOUS
  <2> QED
    BY <2>1, DatabaseFacts DEF Stages, Activities
<1>1. ASSUME NEW a \in Activities, Home(a) \in Processes,
             LoadFails(a) \/ Open(a) \/ Take(a)
      PROVE  TypeOK'
  <2>1. CASE LoadFails(a)
    BY <1>0, <1>1, <2>1, MovesTo DEF LoadFails, InitFails
  <2>2. CASE Open(a)
    <3>1. act[a] \in Progress /\ Opened \in Databases
      BY OpenedPresent, DatabaseFacts
    <3>2. [act[a] EXCEPT !.stage = "read", !.opened = Opened] \in Progress
      BY <1>0, <3>1 DEF Progress
    <3>3. act' \in [Activities -> Progress]
      BY <2>2, <3>2 DEF Open
    <3> QED
      BY <1>1, <2>2, <3>3 DEF Open
  <2>3. CASE Take(a)
    <3>1. act[a] \in Progress /\ act[a].opened \in Databases
      BY DEF Progress
    <3>2. \A s \in Stages : [act[a] EXCEPT !.stage = s, !.opened = NoDatabase] \in Progress
      BY <1>0, <3>1 DEF Progress
    <3>3. act' \in [Activities -> Progress]
      BY <1>0, <2>3, <3>2 DEF Take
    <3>4. /\ file' \in Databases /\ image' \in [Processes -> Databases]
          /\ degraded' \in [Processes -> BOOLEAN]
          /\ flushing' \in [Processes -> {"no", "alone", "clash"}]
      <4>1. CASE act[a].opened.state = "torn"
        BY <1>1, <2>3, <3>1, <4>1 DEF Take, InitTakes, InitFails
      <4>2. CASE act[a].opened.state # "torn"
        <5>1. /\ image' = [image EXCEPT ![Home(a)] = act[a].opened] /\ UNCHANGED degraded
              /\ file' \in {Readable({}), Torn}
          BY <2>3, <4>2 DEF Take, InitTakes, FlushBegin
        <5>2. flushing' \in [Processes -> {"no", "alone", "clash"}]
          BY <2>3, <4>2 DEF Take, InitTakes, FlushBegin
        <5> QED
          BY <1>0, <1>1, <3>1, <5>1, <5>2
      <4> QED
        BY <4>1, <4>2
    <3> QED
      BY <2>3, <3>3, <3>4 DEF Take
  <2> QED
    BY <1>1, <2>1, <2>2, <2>3
<1>2. ASSUME NEW a \in Activities, Home(a) \in Processes,
             Written(a) \/ WriteFails(a) \/ Flushed(a)
      PROVE  TypeOK'
  <2>1. CASE Written(a)
    <3>1. At(a, "logging") => a \in Calls
      BY <2>1 DEF ActivitiesHaveHomes, At, Written, Activities
    <3> QED
      BY <1>0, <1>2, <2>1, <3>1, MovesTo DEF Written, FlushEnd
  <2>2. CASE WriteFails(a)
    <3>1. act' \in [Activities -> Progress]
      BY <1>0, <2>2, MovesTo, Ends DEF WriteFails
    <3> QED
      BY <1>2, <2>2, <3>1 DEF WriteFails, FlushFails, Answer
  <2>3. CASE Flushed(a)
    BY <1>0, <1>2, <2>3, MovesTo DEF Flushed, InitSucceeds
  <2> QED
    BY <1>2, <2>1, <2>2, <2>3
<1>3. ASSUME NEW a \in Activities, LoadFails(a) \/ Open(a) \/ Take(a) \/ Written(a) \/ WriteFails(a) \/ Flushed(a)
      PROVE  Home(a) \in Processes
  BY <1>3 DEF ActivitiesHaveHomes, Under, LoadFails, Open, Take, Written, WriteFails, Flushed, At
<1>4. ASSUME NEW p \in Processes, Boot(p) \/ Connect(p) \/ Fault(p)
      PROVE  TypeOK'
  <2>1. CASE Boot(p)
    <3>1. act' \in [Activities -> Progress]
      BY <1>0, <2>1, Enters DEF Boot, EnterInit
    <3> QED
      BY <2>1, <3>1 DEF Boot
  <2>2. CASE Connect(p)
    BY <1>0, <2>2, MovesTo DEF Connect
  <2> QED
    BY <1>4, <2>1, <2>2 DEF Fault
<1>5. ASSUME NEW p \in Processes, Kill(p)
      PROVE  TypeOK'
  <2>1. Idle \in Progress /\ Over \in Progress
    BY <1>0 DEF Idle, Over, Progress
  <2> QED
    BY <1>0, <1>5, <2>1 DEF Kill, MemoryKilled
<1>6. ASSUME NEW c \in Calls, NEW p \in Processes,
             RefuseDegraded(c, p) \/ CallInit(c, p) \/ CallSearch(c, p) \/ Park(c, p)
      PROVE  TypeOK'
  <2>1. act' \in [Activities -> Progress]
    BY <1>0, <1>6, Ends, Enters DEF RefuseDegraded, CallInit, CallSearch, Park, EnterInit
  <2> QED
    BY <1>6, <2>1 DEF RefuseDegraded, CallInit, CallSearch, Park, Answer
<1>7. ASSUME NEW c \in Calls, NEW p \in Processes, InvokeAgent(c, p)
      PROVE  TypeOK'
  <2>1. act' \in [Activities -> Progress]
    BY <1>0, <1>7, Ends, Enters DEF InvokeAgent, Thrown
  <2>2. CASE LogBegin(p, c)
    <3>1. image[p].events \union {c} \in SUBSET Events
      BY DatabaseFacts
    <3>2. Readable(image[p].events \union {c}) \in Databases
      BY <3>1, DatabaseFacts
    <3>3. /\ file' \in Databases /\ image' \in [Processes -> Databases]
          /\ degraded' \in [Processes -> BOOLEAN]
          /\ flushing' \in [Processes -> {"no", "alone", "clash"}]
      BY <1>0, <2>2, <3>2 DEF LogBegin, FlushBegin
    <3> QED
      BY <1>7, <2>1, <3>3 DEF InvokeAgent, Thrown, Answer
  <2>3. CASE UNCHANGED memoryVars
    BY <1>7, <2>1, <2>3 DEF InvokeAgent, Thrown, Answer
  <2> QED
    BY <1>7, <2>2, <2>3 DEF InvokeAgent
<1>8. ASSUME NEW c \in Calls, FinishInit(c) \/ RefuseCapacity(c) \/ FinishInvoke(c)
      PROVE  TypeOK'
  <2>1. act' \in [Activities -> Progress]
    BY <1>0, <1>8, Ends DEF FinishInit, RefuseCapacity, FinishInvoke
  <2>2. FinishInit(c) => degraded[Home(c)] \in BOOLEAN
    <3>1. FinishInit(c) => Home(c) \in Processes
      BY <1>0 DEF FinishInit, ActivitiesHaveHomes, Under, At
    <3> QED
      BY <3>1
  <2> QED
    BY <1>8, <2>1, <2>2 DEF FinishInit, RefuseCapacity, FinishInvoke, Answer
<1>9. ASSUME NEW c \in Calls, Unpark(c)
      PROVE  TypeOK'
  <2>1. Home(c) \in Processes
    BY <1>0, <1>9 DEF Unpark, ActivitiesHaveHomes, Under, At
  <2> QED
    BY <1>7, <1>9, <2>1 DEF Unpark
<1> QED
  BY <1>1, <1>2, <1>3, <1>4, <1>5, <1>6, <1>7, <1>8, <1>9 DEF Next, CallInvoke

-----------------------------------------------------------------------------
(* No call meets an engine that was never initialised.                     *)

\* Once prepared, a memory stays so as long as its process lives.
StaysPrepared == \A p \in Processes : Prepared(p) => Prepared(p)'
KeepsImages == \A p \in Processes : image[p].state # "absent" => image'[p].state # "absent"

LEMMA HomeOf ==
  ASSUME PreparedInv, NEW a \in Activities, Under(a)
  PROVE  Home(a) \in Processes /\ (a \in Processes => Home(a) = a)
BY DEF PreparedInv, ActivitiesHaveHomes, Activities

\* The steps of engine.init and of the writes, which have an activity.
LEMMA InitStepsPrepare ==
  ASSUME PreparedInv, NEW a \in Activities,
         LoadFails(a) \/ Open(a) \/ Take(a) \/ Written(a) \/ WriteFails(a) \/ Flushed(a)
  PROVE  /\ StaysPrepared /\ KeepsImages /\ Others(a) /\ UNCHANGED degradedMode
         /\ Home(a)' = Home(a) \/ act'[a] = Over
         /\ act'[a].stage \notin {"serving", "parked", "logging", "down"}
         /\ At(a, "read")' => act'[a].opened \in Present
         /\ act'[a].stage \in {"writing", "flushed"} => image'[Home(a)].state # "absent"
         /\ At(a, "inited")' => Prepared(Home(a))'
         /\ a \in Processes => ~At(a, "logged")' /\ ~At(a, "over")'
         /\ \A c \in Calls : reply'[c] = "unprepared" => reply[c] = "unprepared"
<1> USE McpAssumption DEF PreparedInv, TypeOK, StaysPrepared, KeepsImages, Prepared, At, Home
<1>0. /\ \A s : s \in {"down", "loading", "read", "writing", "flushed", "inited", "serving",
                       "parked", "logging", "logged", "over"} => s \in Stages
      /\ act[a] \in Progress
  BY DEF Stages
<1>1. Under(a) /\ Home(a) \in Processes
  BY HomeOf DEF Under, LoadFails, Open, Take, Written, WriteFails, Flushed
<1>2. CASE LoadFails(a)
  BY <1>0, <1>1, <1>2, MovesTo DEF LoadFails, InitFails
<1>3. CASE Open(a)
  <2>1. Opened \in Present
    BY OpenedPresent
  <2>2. /\ Others(a) /\ act'[a].proc = act[a].proc /\ act'[a].stage = "read" /\ act'[a].opened = Opened
    BY <1>0, <1>3 DEF Open, Others, Progress
  <2> QED
    BY <1>3, <2>1, <2>2 DEF Open, memoryVars
<1>4. CASE Take(a)
  <2>1. act[a].opened \in Present /\ act[a].opened.state # "absent"
    BY <1>4, DatabaseFacts DEF Take, InitsPrepare
  <2>2. /\ Others(a) /\ act'[a].proc = act[a].proc
        /\ act'[a].stage = IF act[a].opened = Torn THEN "inited" ELSE "writing"
    BY <1>0, <1>4 DEF Take, Others, Progress
  <2>3. CASE act[a].opened.state = "torn"
    <3>1. act[a].opened = Torn
      BY <2>1, <2>3, DatabaseFacts
    <3> QED
      BY <1>1, <1>4, <2>1, <2>2, <2>3, <3>1 DEF Take, InitTakes, InitFails
  <2>4. CASE act[a].opened.state # "torn"
    <3>1. act[a].opened # Torn
      BY <2>1, <2>4, DatabaseFacts
    <3> QED
      BY <1>1, <1>4, <2>1, <2>2, <2>4, <3>1 DEF Take, InitTakes, FlushBegin
  <2> QED
    BY <2>3, <2>4
<1>5. CASE Written(a)
  <2>1. /\ Others(a) /\ act'[a].proc = act[a].proc
        /\ act'[a].stage = IF At(a, "writing") THEN "flushed" ELSE "logged"
    BY <1>0, <1>5, MovesTo DEF Written
  <2>2. At(a, "writing") => image[Home(a)].state # "absent"
    BY DEF InitsPrepare
  <2>3. a \in Processes => At(a, "writing")
    BY <1>5 DEF Written, ActivitiesHaveHomes
  <2> QED
    BY <1>1, <1>5, <2>1, <2>2, <2>3 DEF Written, FlushEnd
<1>6. CASE WriteFails(a)
  <2>1. CASE At(a, "writing")
    BY <1>0, <1>1, <1>6, <2>1, MovesTo DEF WriteFails, FlushFails
  <2>2. CASE At(a, "logging")
    <3>1. a \in Calls
      BY <2>2 DEF ActivitiesHaveHomes, Activities
    <3> QED
      BY <1>0, <1>1, <1>6, <2>2, <3>1, Ends DEF WriteFails, FlushFails, Answer, Over, Idle
  <2> QED
    BY <1>6, <2>1, <2>2 DEF WriteFails
<1>7. CASE Flushed(a)
  <2>1. image[Home(a)].state # "absent"
    BY <1>7 DEF Flushed, InitsPrepare
  <2> QED
    BY <1>0, <1>1, <1>7, <2>1, MovesTo DEF Flushed, InitSucceeds
<1> QED
  BY <1>2, <1>3, <1>4, <1>5, <1>6, <1>7

LEMMA PreparedByInitSteps ==
  ASSUME PreparedInv, NEW a \in Activities,
         LoadFails(a) \/ Open(a) \/ Take(a) \/ Written(a) \/ WriteFails(a) \/ Flushed(a)
  PROVE  ActivitiesHaveHomes' /\ InitsPrepare' /\ NeverUnprepared'
<1>1. Under(a) /\ Home(a) \in Processes /\ (a \in Processes => Home(a) = a)
  BY HomeOf DEF Under, LoadFails, Open, Take, Written, WriteFails, Flushed, At
<1>2. ActivitiesHaveHomes'
  BY <1>1, InitStepsPrepare DEF PreparedInv, ActivitiesHaveHomes, Others, Under, Home, At, Over, Idle, Activities
<1>3. InitsPrepare'
  <2>1. ASSUME NEW b \in Activities \ {a}
        PROVE  /\ At(b, "read")' => act'[b].opened \in Present
               /\ act'[b].stage \in {"writing", "flushed"} => image'[Home(b)'].state # "absent"
               /\ act'[b].stage \in {"inited", "parked"} => Prepared(Home(b))'
    <3>1. act'[b] = act[b] /\ KeepsImages /\ StaysPrepared
      BY InitStepsPrepare DEF Others
    <3>2. Under(b) => Home(b) \in Processes
      BY DEF PreparedInv, ActivitiesHaveHomes
    <3> QED
      BY <3>1, <3>2 DEF PreparedInv, InitsPrepare, At, Home, KeepsImages, StaysPrepared, Under, Prepared
  <2>2. /\ At(a, "read")' => act'[a].opened \in Present
        /\ act'[a].stage \in {"writing", "flushed"} => image'[Home(a)'].state # "absent"
        /\ act'[a].stage \in {"inited", "parked"} => Prepared(Home(a))'
    <3>1. act'[a] = Over => act'[a].stage = "over"
      BY DEF Over, Idle
    <3>2. Home(a)' = Home(a) \/ act'[a].stage = "over"
      BY <3>1, InitStepsPrepare
    <3> QED
      BY <3>2, InitStepsPrepare DEF At
  <2>3. \A p \in Processes : At(p, "serving")' /\ ~degradedMode'[p] => Prepared(p)'
    BY InitStepsPrepare DEF PreparedInv, InitsPrepare, At, Others, StaysPrepared, Activities
  <2> QED
    BY <2>1, <2>2, <2>3 DEF InitsPrepare
<1>4. NeverUnprepared'
  BY InitStepsPrepare DEF PreparedInv, NeverUnprepared
<1> QED
  BY <1>2, <1>3, <1>4

\* The steps of main.
LEMMA PreparedByMain ==
  ASSUME PreparedInv, NEW p \in Processes, Boot(p) \/ Connect(p) \/ Fault(p) \/ Kill(p)
  PROVE  ActivitiesHaveHomes' /\ InitsPrepare' /\ NeverUnprepared'
<1> USE McpAssumption DEF PreparedInv, TypeOK
<1>0. /\ \A s : s \in {"loading", "serving"} => s \in Stages
      /\ p \in Activities
      /\ Idle.stage = "down" /\ Over.stage = "over"
  BY DEF Stages, Activities, Idle, Over
<1>1. CASE Boot(p)
  <2>1. Others(p) /\ act'[p].proc = p /\ act'[p].stage \in {"loading", "serving"}
    BY <1>0, <1>1, Enters DEF Boot, EnterInit
  <2>2. act'[p].stage = "serving" => degradedMode'[p]
    BY <1>0, <1>1, Enters DEF Boot, EnterInit
  <2>3. /\ UNCHANGED <<image, degraded, reply>>
        /\ \A q \in Processes : ~degradedMode'[q] => ~degradedMode[q]
    BY <1>1 DEF Boot, memoryVars
  <2>4. ActivitiesHaveHomes'
    BY <2>1 DEF ActivitiesHaveHomes, Others, Under, Home, At, Activities
  <2>5. InitsPrepare'
    BY <2>1, <2>2, <2>3 DEF InitsPrepare, Others, Home, At, Activities, Prepared
  <2> QED
    BY <2>3, <2>4, <2>5 DEF NeverUnprepared
<1>2. CASE Connect(p)
  <2>1. Others(p) /\ act'[p].proc = act[p].proc /\ act'[p].stage = "serving" /\ act[p].stage = "inited"
    BY <1>0, <1>2, MovesTo DEF Connect, At
  <2>2. Home(p) = p
    BY <2>1 DEF ActivitiesHaveHomes, Under
  <2>3. UNCHANGED <<image, degraded, reply, degradedMode>>
    BY <1>2 DEF Connect, memoryVars
  <2>4. ActivitiesHaveHomes'
    BY <2>1, <2>2 DEF ActivitiesHaveHomes, Others, Under, Home, At, Activities
  <2>5. InitsPrepare'
    BY <1>0, <2>1, <2>2, <2>3 DEF InitsPrepare, Others, Home, At, Activities, Prepared
  <2> QED
    BY <2>3, <2>4, <2>5 DEF NeverUnprepared
<1>3. CASE Fault(p)
  BY <1>3 DEF Fault, memoryVars, ActivitiesHaveHomes, InitsPrepare, NeverUnprepared, Under, Home, At, Prepared
<1>4. CASE Kill(p)
  <2>1. \A a \in Activities :
          \/ a = p /\ act'[a] = Idle
          \/ a # p /\ Home(a) = p /\ act'[a] = Over
          \/ a # p /\ Home(a) # p /\ act'[a] = act[a]
    BY <1>4 DEF Kill
  <2>2. \A q \in Processes \ {p} :
          image'[q] = image[q] /\ degraded'[q] = degraded[q] /\ degradedMode'[q] = degradedMode[q]
    BY <1>4 DEF Kill, MemoryKilled
  <2>3. ActivitiesHaveHomes'
    <3>1. \A a \in Activities : Under(a)' => Under(a) /\ act'[a] = act[a]
      BY <1>0, <2>1 DEF Under
    <3>2. \A a \in Activities : act'[a] = act[a] \/ act'[a].stage \in {"down", "over"}
      BY <1>0, <2>1
    <3> QED
      BY <3>1, <3>2 DEF ActivitiesHaveHomes, Under, Home, At, Activities
  <2>4. InitsPrepare'
    <3>1. ASSUME NEW a \in Activities, Under(a)'
          PROVE  Under(a) /\ act'[a] = act[a] /\ Home(a) \in Processes \ {p}
      BY <1>0, <2>1, <3>1 DEF Under, ActivitiesHaveHomes, Home
    <3>2. \A a \in Activities : act'[a].stage \in {"read", "writing", "flushed", "inited", "parked", "serving"}
            => act'[a] = act[a] /\ Home(a) \in Processes \ {p}
      BY <3>1 DEF Under
    <3>3. \A q \in Processes : At(q, "serving")' => q # p /\ At(q, "serving")
      BY <1>0, <2>1, <3>2 DEF At, Activities
    <3>4. \A a \in Activities :
            /\ At(a, "read")' => act'[a].opened \in Present
            /\ act'[a].stage \in {"writing", "flushed"} => image'[Home(a)'].state # "absent"
            /\ act'[a].stage \in {"inited", "parked"} => Prepared(Home(a))'
      BY <2>2, <3>2 DEF InitsPrepare, At, Home, Prepared
    <3>5. \A q \in Processes : At(q, "serving")' /\ ~degradedMode'[q] => Prepared(q)'
      BY <2>2, <3>3 DEF InitsPrepare, Prepared
    <3> QED
      BY <3>4, <3>5 DEF InitsPrepare
  <2> QED
    BY <1>4, <2>3, <2>4 DEF Kill, NeverUnprepared
<1> QED
  BY <1>1, <1>2, <1>3, <1>4

\* What the tools do to the flags and the memory: initialised memories stay so.
LEMMA CallsKeepMemory ==
  ASSUME PreparedInv, NEW c \in Calls, NEW p \in Processes, InvokeAgent(c, p)
  PROVE  /\ KeepsImages /\ UNCHANGED <<degraded, degradedMode>>
         /\ Others(c) /\ act'[c].stage \in {"logging", "over"}
         /\ act'[c].stage = "logging" => act'[c].proc = p
         /\ reply'[c] = "unprepared" => reply[c] = "unprepared" \/ Unprepared(p)
         /\ \A d \in Calls \ {c} : reply'[d] = reply[d]
<1> USE McpAssumption DEF PreparedInv, TypeOK
<1>0. /\ "logging" \in Stages /\ c \in Activities /\ Over.stage = "over"
  BY DEF Stages, Activities, Over, Idle
<1>1. CASE Logs(p) /\ LogBegin(p, c) 
           /\ act' = [act EXCEPT ![c] = [proc |-> p, stage |-> "logging", opened |-> NoDatabase]]
           /\ UNCHANGED <<reply, degradedMode>>
  <2>1. Others(c) /\ act'[c].proc = p /\ act'[c].stage = "logging"
    BY <1>0, <1>1, Enters
  <2>2. image' = [image EXCEPT ![p] = Readable(image[p].events \union {c})] /\ UNCHANGED degraded
    BY <1>1 DEF LogBegin, FlushBegin
  <2>3. Readable(image[p].events \union {c}).state # "absent"
    BY DEF Readable
  <2> QED
    BY <1>1, <2>1, <2>2, <2>3 DEF KeepsImages
<1>2. CASE /\ Thrown(c, p) \/ (degraded[p] /\ Answer(c, "ok") /\ End(c))
           /\ UNCHANGED <<memoryVars, degradedMode>>
  <2>1. Others(c) /\ act'[c].stage = "over"
    BY <1>0, <1>2, Ends DEF Thrown
  <2>2. /\ reply'[c] = "unprepared" => Unprepared(p)
        /\ \A d \in Calls \ {c} : reply'[d] = reply[d]
    BY <1>2 DEF Thrown, Answer
  <2> QED
    BY <1>2, <2>1, <2>2 DEF memoryVars, KeepsImages
<1> QED
  BY <1>1, <1>2 DEF InvokeAgent

\* The steps of the calls.
LEMMA PreparedByCalls ==
  ASSUME PreparedInv, NEW c \in Calls, NEW p \in Processes,
         \/ RefuseDegraded(c, p) \/ CallInit(c, p) \/ CallSearch(c, p) \/ CallInvoke(c, p) \/ Park(c, p)
         \/ FinishInit(c) \/ Unpark(c) \/ RefuseCapacity(c) \/ FinishInvoke(c)
  PROVE  ActivitiesHaveHomes' /\ InitsPrepare' /\ NeverUnprepared'
<1> USE McpAssumption DEF PreparedInv, TypeOK
<1>0. /\ \A s : s \in {"loading", "parked"} => s \in Stages
      /\ c \in Activities /\ Over.stage = "over" /\ c \notin Processes
  BY DEF Stages, Activities, Over, Idle
<1>1. New(c, p) /\ ~degradedMode[p] => Prepared(p)
  BY DEF New, Serving, InitsPrepare, At
<1>2. CASE RefuseDegraded(c, p) \/ CallInit(c, p) \/ CallSearch(c, p) \/ Park(c, p)
  <2>1. /\ Others(c)
        /\ \/ act'[c].stage = "over"
           \/ act'[c].stage = "loading" /\ act'[c].proc = p
           \/ act'[c].stage = "parked" /\ act'[c].proc = p /\ Prepared(p)
    BY <1>0, <1>1, <1>2, Ends, Enters DEF RefuseDegraded, CallInit, CallSearch, Park, EnterInit
  <2>2. UNCHANGED <<image, degraded, degradedMode>>
    BY <1>2 DEF RefuseDegraded, CallInit, CallSearch, Park, memoryVars
  <2>3. \A d \in Calls : reply'[d] = "unprepared" => reply[d] = "unprepared"
    <3>1. CallSearch(c, p) => SearchReply(p) # "unprepared"
      BY <1>1 DEF CallSearch, SearchReply, Unprepared, Prepared
    <3> QED
      BY <1>2, <3>1 DEF RefuseDegraded, CallInit, CallSearch, Park, Answer
  <2>4. ActivitiesHaveHomes'
    BY <1>0, <2>1 DEF ActivitiesHaveHomes, Others, Under, Home, At, Activities
  <2>5. InitsPrepare'
    BY <1>0, <2>1, <2>2 DEF InitsPrepare, Others, Home, At, Activities, Prepared
  <2> QED
    BY <2>3, <2>4, <2>5 DEF NeverUnprepared
<1>3. ASSUME NEW q \in Processes, InvokeAgent(c, q), Prepared(q)
      PROVE  ActivitiesHaveHomes' /\ InitsPrepare' /\ NeverUnprepared'
  <2>1. /\ KeepsImages /\ UNCHANGED <<degraded, degradedMode>>
        /\ Others(c) /\ act'[c].stage \in {"logging", "over"}
        /\ act'[c].stage = "logging" => act'[c].proc = q
        /\ reply'[c] = "unprepared" => reply[c] = "unprepared" \/ Unprepared(q)
        /\ \A d \in Calls \ {c} : reply'[d] = reply[d]
    BY <1>3, CallsKeepMemory
  <2>2. ~Unprepared(q)
    BY <1>3 DEF Unprepared, Prepared
  <2>3. ActivitiesHaveHomes'
    BY <1>0, <2>1 DEF ActivitiesHaveHomes, Others, Under, Home, At, Activities
  <2>4. InitsPrepare'
    <3>1. \A b \in Activities \ {c} : Under(b) => Home(b) \in Processes
      BY DEF ActivitiesHaveHomes
    <3> QED
      BY <1>0, <2>1, <3>1 DEF InitsPrepare, Others, Home, At, Activities, Prepared, KeepsImages, Under
  <2> QED
    BY <2>1, <2>2, <2>3, <2>4 DEF NeverUnprepared
<1>4. CASE CallInvoke(c, p)
  BY <1>1, <1>3, <1>4 DEF CallInvoke
<1>5. CASE Unpark(c)
  <2>1. Home(c) \in Processes /\ Prepared(Home(c))
    BY <1>0, <1>5 DEF Unpark, InitsPrepare, ActivitiesHaveHomes, Under, At
  <2> QED
    BY <1>3, <1>5, <2>1 DEF Unpark
<1>6. CASE FinishInit(c) \/ RefuseCapacity(c) \/ FinishInvoke(c)
  <2>1. Others(c) /\ act'[c].stage = "over"
    BY <1>0, <1>6, Ends DEF FinishInit, RefuseCapacity, FinishInvoke
  <2>2. /\ UNCHANGED <<image, degraded>>
        /\ \A d \in Calls : reply'[d] = "unprepared" => reply[d] = "unprepared"
    BY <1>6 DEF FinishInit, RefuseCapacity, FinishInvoke, memoryVars, Answer, Bundle
  <2>3. \A q \in Processes : ~degradedMode'[q] => ~degradedMode[q] \/ Prepared(q)
    <3>1. CASE FinishInit(c)
      <4>1. Prepared(Home(c)) /\ Home(c) \in Processes
        BY <1>0, <3>1 DEF FinishInit, InitsPrepare, ActivitiesHaveHomes, Under, At
      <4> QED
        BY <3>1, <4>1 DEF FinishInit
    <3>2. CASE RefuseCapacity(c) \/ FinishInvoke(c)
      BY <3>2 DEF RefuseCapacity, FinishInvoke
    <3> QED
      BY <1>6, <3>1, <3>2
  <2>4. ActivitiesHaveHomes'
    BY <1>0, <2>1 DEF ActivitiesHaveHomes, Others, Under, Home, At, Activities
  <2>5. InitsPrepare'
    BY <1>0, <2>1, <2>2, <2>3 DEF InitsPrepare, Others, Home, At, Activities, Prepared
  <2> QED
    BY <2>2, <2>4, <2>5 DEF NeverUnprepared
<1> QED
  BY <1>2, <1>4, <1>5, <1>6

LEMMA StepPrepared ==
  ASSUME PreparedInv, [Next]_vars
  PROVE  PreparedInv'
<1>1. CASE Next
  <2>1. TypeOK'
    BY <1>1, StepType DEF PreparedInv
  <2>2. ActivitiesHaveHomes' /\ InitsPrepare' /\ NeverUnprepared'
    <3>1. ASSUME NEW c \in Calls, FinishInit(c) \/ Unpark(c) \/ RefuseCapacity(c) \/ FinishInvoke(c)
          PROVE  ActivitiesHaveHomes' /\ InitsPrepare' /\ NeverUnprepared'
      <4>1. Home(c) \in Processes
        BY <3>1 DEF PreparedInv, ActivitiesHaveHomes, Under, At, FinishInit, Unpark, RefuseCapacity,
                    FinishInvoke, Activities
      <4> QED
        BY <3>1, <4>1, PreparedByCalls
    <3> QED
      BY <1>1, <3>1, PreparedByInitSteps, PreparedByMain, PreparedByCalls DEF Next
  <2> QED
    BY <2>1, <2>2 DEF PreparedInv
<1>2. CASE UNCHANGED vars
  BY <1>2 DEF vars, memoryVars, PreparedInv, TypeOK, ActivitiesHaveHomes, InitsPrepare, NeverUnprepared,
              Under, Home, At, Prepared
<1> QED
  BY <1>1, <1>2

\* mcp.ts: no call is ever answered with "memory not initialised", whichever starts
\* and inits fail, overlap or are killed, and whatever is thrown in between.
THEOREM CallsFindMemory == Spec => []NeverUnprepared
<1>1. Init => PreparedInv
  BY InitInv DEF DurableInv
<1>2. PreparedInv => NeverUnprepared
  BY DEF PreparedInv
<1> QED
  BY <1>1, <1>2, StepPrepared, PTL DEF Spec

-----------------------------------------------------------------------------
(* The log is durable.                                                     *)

LEMMA FlushBegins ==
  ASSUME PreparedInv, NEW p \in Processes, NEW db, Free(p), FlushBegin(p, db)
  PROVE  /\ ~Free(p)' /\ \A q \in Processes \ {p} : Free(q)' <=> Free(q)
         /\ (\A q \in Processes \ {p} : Free(q)) => flushing'[p] = "alone"
         /\ image'[p] = db /\ \A q \in Processes \ {p} : image'[q] = image[q]
BY DEF PreparedInv, TypeOK, FlushBegin, Free

LEMMA FlushEnds ==
  ASSUME PreparedInv, NEW p \in Processes, FlushEnd(p) \/ FlushFails(p)
  PROVE  /\ Free(p)' /\ \A q \in Processes \ {p} : flushing'[q] = flushing[q]
         /\ UNCHANGED image
BY DEF PreparedInv, TypeOK, FlushEnd, FlushFails, Free

\* Writes begin and end with the activity that waits for them.
LEMMA StepOneWriter ==
  ASSUME PreparedInv, OneWriter, Next
  PROVE  OneWriter'
<1> USE DEF PreparedInv, TypeOK
<1>0. /\ \A s : s \in {"down", "loading", "read", "writing", "flushed", "inited", "serving",
                       "parked", "logging", "logged", "over"} => s \in Stages
      /\ Processes \subseteq Activities /\ Calls \subseteq Activities
      /\ Over.stage = "over" /\ Idle.stage = "down"
      /\ \A a \in Activities : act[a] \in Progress
  BY DEF Stages, Activities, Over, Idle
<1>1. ASSUME NEW a \in Activities, Others(a), UNCHANGED flushing,
             act'[a].stage \notin {"writing", "logging"}
      PROVE  OneWriter'
  BY <1>1 DEF OneWriter, Writing, Others, Home, Free
<1>2. ASSUME NEW a \in Activities, NEW p \in Processes, NEW db, Free(p), FlushBegin(p, db),
             Others(a), act'[a].proc = p
      PROVE  OneWriter'
  <2>1. \A b \in Activities : Writing(b) => Home(b) \in Processes \ {p}
    BY <1>2 DEF OneWriter, ActivitiesHaveHomes, Writing, Under
  <2> QED
    BY <1>2, <2>1, FlushBegins DEF OneWriter, Writing, Others, Home
<1>3. ASSUME NEW a \in Activities, Writing(a), FlushEnd(Home(a)) \/ FlushFails(Home(a)),
             Others(a), act'[a].stage \notin {"writing", "logging"}
      PROVE  OneWriter'
  <2>1. Home(a) \in Processes
    BY <1>3, HomeOf DEF Writing, Under
  <2>2. \A b \in Activities \ {a} : Writing(b) => Home(b) \in Processes \ {Home(a)}
    BY <1>3 DEF OneWriter, ActivitiesHaveHomes, Writing, Under
  <2> QED
    BY <1>3, <2>1, <2>2, FlushEnds DEF OneWriter, Writing, Others, Home, Free
<1>4. ASSUME NEW a \in Activities, LoadFails(a) \/ Open(a) \/ Flushed(a) PROVE OneWriter'
  <2>1. Others(a) /\ act'[a].stage \in {"inited", "read"}
    BY <1>0, <1>4, MovesTo DEF LoadFails, Open, Flushed, Others, Progress
  <2>2. UNCHANGED flushing
    BY <1>4 DEF LoadFails, InitFails, Open, memoryVars, Flushed, InitSucceeds
  <2> QED
    BY <1>1, <2>1, <2>2
<1>5. ASSUME NEW a \in Activities, Take(a) PROVE OneWriter'
  <2>1. /\ Home(a) \in Processes /\ Others(a) /\ act'[a].proc = Home(a)
        /\ act'[a].stage = IF act[a].opened = Torn THEN "inited" ELSE "writing"
    BY <1>0, <1>5, HomeOf DEF Take, At, Under, Others, Progress, Home
  <2>2. act[a].opened \in Present
    BY <1>5 DEF Take, InitsPrepare
  <2>3. CASE act[a].opened = Torn
    <3>1. UNCHANGED flushing
      BY <1>5, <2>2, <2>3, DatabaseFacts DEF Take, InitTakes, InitFails
    <3> QED
      BY <1>1, <2>1, <2>3, <3>1
  <2>4. CASE act[a].opened # Torn
    <3>1. FlushBegin(Home(a), act[a].opened) /\ Free(Home(a))
      BY <1>5, <2>2, <2>4, DatabaseFacts DEF Take, InitTakes
    <3> QED
      BY <1>2, <2>1, <3>1
  <2> QED
    BY <2>3, <2>4
<1>6. ASSUME NEW a \in Activities, Written(a) \/ WriteFails(a) PROVE OneWriter'
  <2>1. Writing(a) /\ (FlushEnd(Home(a)) \/ FlushFails(Home(a)))
    BY <1>6 DEF Written, WriteFails, Writing
  <2>2. Others(a) /\ act'[a].stage \in {"flushed", "logged", "inited", "over"}
    BY <1>0, <1>6, MovesTo, Ends DEF Written, WriteFails
  <2> QED
    BY <1>3, <2>1, <2>2
<1>7. ASSUME NEW p \in Processes, Boot(p) \/ Connect(p) \/ Fault(p) PROVE OneWriter'
  <2>1. UNCHANGED flushing
    BY <1>7 DEF Boot, Connect, Fault, memoryVars
  <2>2. CASE Boot(p) \/ Connect(p)
    <3>1. Others(p) /\ act'[p].stage \in {"loading", "serving"}
      BY <1>0, <2>2, MovesTo, Enters DEF Boot, EnterInit, Connect
    <3> QED
      BY <1>0, <1>1, <2>1, <3>1
  <2>3. CASE Fault(p)
    BY <2>1, <2>3 DEF Fault, OneWriter, Writing, Home, Free
  <2> QED
    BY <1>7, <2>2, <2>3
<1>8. ASSUME NEW p \in Processes, Kill(p) PROVE OneWriter'
  <2>1. \A a \in Activities : Writing(a)' => act'[a] = act[a] /\ Writing(a) /\ Home(a) # p
    <3>1. \A a \in Activities : \/ act'[a] \in {Idle, Over}
                                \/ act'[a] = act[a] /\ Home(a) # p
      BY <1>8 DEF Kill
    <3> QED
      BY <1>0, <3>1 DEF Writing
  <2>2. \A q \in Processes \ {p} : flushing'[q] = flushing[q]
    BY <1>8 DEF Kill, MemoryKilled
  <2>3. \A a \in Activities : Writing(a) => Home(a) \in Processes
    BY DEF ActivitiesHaveHomes, Writing, Under
  <2> QED
    BY <2>1, <2>2, <2>3 DEF OneWriter, Home, Free
<1>9. ASSUME NEW c \in Calls, NEW p \in Processes,
             \/ RefuseDegraded(c, p) \/ CallInit(c, p) \/ CallSearch(c, p) \/ Park(c, p)
             \/ FinishInit(c) \/ RefuseCapacity(c) \/ FinishInvoke(c)
      PROVE  OneWriter'
  <2>1. Others(c) /\ act'[c].stage \in {"over", "loading", "parked"}
    BY <1>0, <1>9, Ends, Enters DEF RefuseDegraded, CallInit, CallSearch, Park, EnterInit,
                                    FinishInit, RefuseCapacity, FinishInvoke
  <2>2. UNCHANGED flushing
    BY <1>9 DEF RefuseDegraded, CallInit, CallSearch, Park, FinishInit, RefuseCapacity, FinishInvoke, memoryVars
  <2> QED
    BY <1>0, <1>1, <2>1, <2>2
<1>10. ASSUME NEW c \in Calls, NEW p \in Processes, Free(p), InvokeAgent(c, p) PROVE OneWriter'
  <2>1. Others(c) /\ act'[c].stage \in {"logging", "over"} /\ (act'[c].stage = "logging" => act'[c].proc = p)
    BY <1>10, CallsKeepMemory
  <2>2. \/ FlushBegin(p, Readable(image[p].events \union {c})) /\ act'[c].stage = "logging"
        \/ UNCHANGED flushing /\ act'[c].stage = "over"
    BY <1>0, <1>10, Ends, Enters DEF InvokeAgent, LogBegin, Thrown, memoryVars
  <2>3. CASE FlushBegin(p, Readable(image[p].events \union {c})) /\ act'[c].stage = "logging"
    BY <1>0, <1>2, <1>10, <2>1, <2>3
  <2>4. CASE UNCHANGED flushing /\ act'[c].stage = "over"
    BY <1>0, <1>1, <2>1, <2>4
  <2> QED
    BY <2>2, <2>3, <2>4
<1>11. ASSUME NEW c \in Calls, Unpark(c) \/ FinishInit(c) \/ RefuseCapacity(c) \/ FinishInvoke(c)
       PROVE  OneWriter'
  <2>1. Home(c) \in Processes
    BY <1>0, <1>11, HomeOf DEF Unpark, FinishInit, RefuseCapacity, FinishInvoke, Under, At
  <2> QED
    BY <1>9, <1>10, <1>11, <2>1 DEF Unpark
<1> QED
  BY <1>4, <1>5, <1>6, <1>7, <1>8, <1>9, <1>10, <1>11 DEF Next, CallInvoke, New, Serving

\* An event a step leaves clear of every overlap was clear of them before.
LEMMA OverlapsAddUp ==
  ASSUME PreparedInv, Next
  PROVE  risky \subseteq risky'
<1> USE McpAssumption DEF PreparedInv, TypeOK
<1>1. ASSUME NEW a \in Activities, LoadFails(a) \/ Open(a) \/ Take(a) \/ Written(a) \/ WriteFails(a) \/ Flushed(a)
      PROVE  risky \subseteq risky'
  BY <1>1 DEF LoadFails, Open, Take, Written, WriteFails, Flushed
<1>2. ASSUME NEW p \in Processes, Boot(p) \/ Connect(p) \/ Fault(p) \/ Kill(p)
      PROVE  risky \subseteq risky'
  BY <1>2 DEF Boot, Connect, Fault, Kill
<1>3. ASSUME NEW c, NEW p, InvokeAgent(c, p)
      PROVE  risky \subseteq risky'
  BY <1>3 DEF InvokeAgent
<1>4. ASSUME NEW c, NEW p,
             \/ RefuseDegraded(c, p) \/ CallInit(c, p) \/ CallSearch(c, p) \/ Park(c, p)
             \/ FinishInit(c) \/ RefuseCapacity(c) \/ FinishInvoke(c)
      PROVE  risky \subseteq risky'
  BY <1>4 DEF RefuseDegraded, CallInit, CallSearch, Park, FinishInit, RefuseCapacity, FinishInvoke
<1> QED
  BY <1>1, <1>2, <1>3, <1>4 DEF Next, CallInvoke, Unpark

\* A step that writes nothing, reads no file and begins to log nothing.
LEMMA KeptByQuietSteps ==
  ASSUME NEW e \in Calls, Kept(e), NEW a \in Activities, Others(a),
         act'[a].stage \notin {"read", "logging"}, UNCHANGED <<file, image, flushing, logged>>
  PROVE  Kept(e)'
<1>1. \A b \in Activities : /\ At(b, "read")' => At(b, "read") /\ act'[b] = act[b]
                            /\ At(b, "logging")' => At(b, "logging") /\ act'[b] = act[b]
  BY DEF Others, At
<1>2. OneFlusher' /\ Saved(e)'
  BY <1>1 DEF Kept, OneFlusher, Saved, Free
<1>3. BeingSaved(e)'
  BY <1>1 DEF Kept, BeingSaved, Home, Activities
<1> QED
  BY <1>2, <1>3 DEF Kept

\* Nobody logs while every process is outside writeFileSync.
LEMMA NobodyLogs ==
  ASSUME PreparedInv, OneWriter, \A q \in Processes : Free(q), NEW e \in Calls
  PROVE  ~At(e, "logging")
BY DEF PreparedInv, ActivitiesHaveHomes, OneWriter, Under, Writing, At, Activities

\* A write that begins while every process is outside writeFileSync.
LEMMA KeptByWrites ==
  ASSUME PreparedInv, OneWriter, NEW e \in Calls, Kept(e), \A q \in Processes : Free(q),
         NEW p \in Processes, NEW db \in Present, db # Torn, FlushBegin(p, db),
         e \in logged => e \in db.events, UNCHANGED logged,
         \A a \in Activities : act'[a].stage = "read" => act'[a] = act[a],
         BeingSaved(e)'
  PROVE  Kept(e)'
<1>1. /\ ~Free(p)' /\ \A q \in Processes \ {p} : Free(q)'
      /\ flushing'[p] = "alone"
      /\ image'[p] = db /\ \A q \in Processes \ {p} : image'[q] = image[q]
  BY FlushBegins
<1>2. db.state = "readable"
  BY DEF Present, Readable
<1>3. OneFlusher'
  BY <1>1, <1>2 DEF OneFlusher
<1>4. Saved(e)'
  BY <1>1 DEF Kept, Saved, At
<1> QED
  BY <1>3, <1>4 DEF Kept

LEMMA KeptByInit ==
  ASSUME PreparedInv, OneWriter, NEW e \in Calls, Kept(e), e \notin risky', NEW a \in Activities,
         LoadFails(a) \/ Open(a) \/ Take(a) \/ Flushed(a)
  PROVE  Kept(e)'
<1> USE McpAssumption DEF PreparedInv, TypeOK
<1>0. /\ \A s : s \in {"inited", "read", "writing", "flushed"} => s \in Stages
      /\ Home(a) \in Processes /\ act[a] \in Progress /\ e \in Activities
  BY HomeOf DEF Stages, LoadFails, Open, Take, Flushed, Under, At, Activities
<1>1. CASE LoadFails(a) \/ Flushed(a)
  <2>1. Others(a) /\ act'[a].stage = "inited"
    BY <1>0, <1>1, MovesTo DEF LoadFails, Flushed
  <2>2. UNCHANGED <<file, image, flushing, logged>>
    BY <1>0, <1>1 DEF LoadFails, Flushed, InitFails, InitSucceeds
  <2> QED
    BY <2>1, <2>2, KeptByQuietSteps
<1>2. CASE Open(a)
  <2>1. /\ \A q \in Processes : Free(q)
        /\ UNCHANGED <<file, image, flushing, logged>>
    BY <1>2 DEF Open, memoryVars
  <2>2. Others(a) /\ act'[a].stage = "read" /\ act'[a].opened = Opened
    BY <1>0, <1>2 DEF Open, Others, Progress
  <2>3. file.events \subseteq Opened.events
    BY OpenedPresent
  <2>4. ~At(e, "logging")'
    BY <1>0, <2>1, <2>2, NobodyLogs DEF Others, At
  <2>5. OneFlusher'
    BY <2>1 DEF OneFlusher, Free
  <2>6. e \in logged => \A b \in Activities : At(b, "read")' => e \in act'[b].opened.events
    BY <2>1, <2>2, <2>3 DEF Kept, Saved, Others, At
  <2>7. Saved(e)'
    BY <2>1, <2>6 DEF Kept, Saved, Free, At
  <2> QED
    BY <2>4, <2>5, <2>7 DEF Kept, BeingSaved
<1>3. CASE Take(a)
  <2>1. /\ \A q \in Processes : Free(q)
        /\ At(a, "read") /\ act[a].opened \in Present /\ UNCHANGED logged
        /\ InitTakes(Home(a), act[a].opened)
    BY <1>3 DEF Take, InitsPrepare
  <2>2. Others(a) /\ act'[a].stage \in {"inited", "writing"}
    BY <1>0, <1>3 DEF Take, Others, Progress
  <2>3. \A b \in Activities : act'[b].stage = "read" => act'[b] = act[b]
    BY <2>2 DEF Others
  <2>4. BeingSaved(e)'
    BY <1>0, <2>1, <2>2, NobodyLogs DEF Others, At, BeingSaved
  <2>5. e \in logged => e \in act[a].opened.events
    BY <2>1 DEF Kept, Saved
  <2>6. CASE act[a].opened = Torn
    <3>1. InitFails(Home(a), Torn)
      BY <2>1, <2>6, DatabaseFacts DEF InitTakes
    <3>2. OneFlusher'
      BY <2>1, <3>1 DEF OneFlusher, InitFails, Free
    <3>3. Saved(e)'
      BY <1>0, <2>1, <2>3, <3>1 DEF Kept, Saved, InitFails, Free, Torn, At
    <3> QED
      BY <2>4, <3>2, <3>3 DEF Kept
  <2>7. CASE act[a].opened # Torn
    <3>1. FlushBegin(Home(a), act[a].opened)
      BY <2>1, <2>7, DatabaseFacts DEF InitTakes
    <3> QED
      BY <1>0, <2>1, <2>3, <2>4, <2>5, <2>7, <3>1, KeptByWrites
  <2> QED
    BY <2>6, <2>7
<1> QED
  BY <1>1, <1>2, <1>3

\* The end of a write: what is logged is in the file.
LEMMA KeptWhenWritten ==
  ASSUME PreparedInv, OneWriter, NEW e \in Calls, Kept(e), NEW a \in Activities, Written(a)
  PROVE  Kept(e)'
<1> USE DEF PreparedInv, TypeOK
<1>0. /\ \A s : s \in {"flushed", "logged"} => s \in Stages
      /\ Writing(a) /\ Home(a) \in Processes /\ FlushEnd(Home(a)) /\ e \in Activities
  BY HomeOf DEF Stages, Written, Writing, Under, Activities
<1>1. Others(a) /\ act'[a].stage \in {"flushed", "logged"}
  BY <1>0, MovesTo DEF Written
<1>2. /\ flushing[Home(a)] = "alone" /\ image[Home(a)].state = "readable"
      /\ \A q \in Processes \ {Home(a)} : Free(q)
  BY <1>0 DEF Kept, OneFlusher, OneWriter
<1>3. file' = image[Home(a)] /\ UNCHANGED image
  BY <1>0, <1>2 DEF FlushEnd
<1>4. \A q \in Processes : Free(q)'
  BY <1>0, <1>2, FlushEnds DEF Free
<1>5. \A b \in Activities : /\ At(b, "read")' => At(b, "read") /\ act'[b] = act[b]
                            /\ At(b, "logging")' => At(b, "logging") /\ act'[b] = act[b]
  BY <1>1 DEF Others, At
<1>6. OneFlusher' /\ BeingSaved(e)'
  BY <1>0, <1>3, <1>4, <1>5 DEF Kept, OneFlusher, BeingSaved, Home
<1>7. CASE e \in logged
  BY <1>0, <1>2, <1>3, <1>5, <1>6, <1>7 DEF Kept, Saved
<1>8. CASE e = a /\ At(a, "logging")
  <2>1. /\ e \in image[Home(a)].events
        /\ \A p \in Processes \ {Home(a)} : image[p].state = "absent"
        /\ \A b \in Activities : ~At(b, "read")
    BY <1>8 DEF Kept, BeingSaved
  <2> QED
    BY <1>3, <1>5, <1>6, <2>1 DEF Kept, Saved
<1>9. CASE e \notin logged'
  BY <1>6, <1>9 DEF Kept, Saved
<1>10. e \in logged' => e \in logged \/ (e = a /\ At(a, "logging"))
  BY DEF Written
<1> QED
  BY <1>7, <1>8, <1>9, <1>10

LEMMA KeptByMain ==
  ASSUME PreparedInv, NEW e \in Calls, Kept(e), e \notin risky', NEW p \in Processes,
         Boot(p) \/ Connect(p) \/ Fault(p) \/ Kill(p)
  PROVE  Kept(e)'
<1> USE McpAssumption DEF PreparedInv, TypeOK
<1>0. /\ \A s : s \in {"loading", "serving"} => s \in Stages
      /\ p \in Activities /\ e \in Activities /\ Idle.stage = "down" /\ Over.stage = "over"
  BY DEF Stages, Activities, Idle, Over
<1>1. CASE Boot(p) \/ Connect(p)
  <2>1. Others(p) /\ act'[p].stage \in {"loading", "serving"}
    BY <1>0, <1>1, MovesTo, Enters DEF Boot, EnterInit, Connect
  <2>2. UNCHANGED <<file, image, flushing, logged>>
    BY <1>1 DEF Boot, Connect, memoryVars
  <2> QED
    BY <1>0, <2>1, <2>2, KeptByQuietSteps
<1>2. CASE Fault(p)
  BY <1>2 DEF Fault, memoryVars, Kept, OneFlusher, Saved, BeingSaved, Free, At, Home
<1>3. CASE Kill(p)
  <2>1. Free(p) /\ UNCHANGED <<file, logged>>
    BY <1>3 DEF Kill, MemoryKilled
  <2>2. /\ image'[p] = NoDatabase /\ UNCHANGED flushing
        /\ \A q \in Processes \ {p} : image'[q] = image[q]
    BY <1>3, <2>1 DEF Kill, MemoryKilled, Free
  <2>3. \A b \in Activities : /\ At(b, "read")' => At(b, "read") /\ act'[b] = act[b]
                              /\ At(b, "logging")' => At(b, "logging") /\ act'[b] = act[b] /\ Home(b) # p
    <3>1. \A b \in Activities : \/ act'[b] \in {Idle, Over}
                                \/ act'[b] = act[b] /\ (b = p \/ Home(b) # p)
      BY <1>3 DEF Kill
    <3>2. act'[p] = Idle
      BY <1>0, <1>3 DEF Kill
    <3> QED
      BY <1>0, <3>1, <3>2 DEF At
  <2>4. NoDatabase.state = "absent"
    BY DEF NoDatabase
  <2>5. OneFlusher'
    BY <2>1, <2>2 DEF Kept, OneFlusher, Free
  <2>6. Saved(e)'
    BY <2>1, <2>2, <2>3, <2>4 DEF Kept, Saved, Free
  <2>7. BeingSaved(e)'
    <3>1. SUFFICES ASSUME At(e, "logging")' PROVE BeingSaved(e)'
      BY DEF BeingSaved
    <3>2. At(e, "logging") /\ Home(e)' = Home(e) /\ Home(e) # p
      BY <1>0, <2>3, <3>1 DEF Home
    <3>3. Home(e) \in Processes
      BY <1>0, <3>2, HomeOf DEF Under, At
    <3> QED
      BY <2>2, <2>3, <2>4, <3>2, <3>3 DEF Kept, BeingSaved
  <2> QED
    BY <2>5, <2>6, <2>7 DEF Kept
<1> QED
  BY <1>1, <1>2, <1>3

LEMMA KeptByInvokes ==
  ASSUME PreparedInv, OneWriter, NEW e \in Calls, Kept(e), e \notin risky',
         NEW c \in Calls, NEW p \in Processes, Free(p), InvokeAgent(c, p)
  PROVE  Kept(e)'
<1> USE McpAssumption DEF PreparedInv, TypeOK
<1>0. "logging" \in Stages /\ c \in Activities /\ e \in Activities /\ Over.stage = "over"
  BY DEF Stages, Activities, Over, Idle
<1>1. CASE /\ Logs(p) /\ LogBegin(p, c)
           /\ act' = [act EXCEPT ![c] = [proc |-> p, stage |-> "logging", opened |-> NoDatabase]]
           /\ risky' = IF \E q \in Processes : ~Free(q) THEN Events
                       ELSE IF HeldElsewhere(p) THEN risky \union {c} ELSE risky
           /\ UNCHANGED logged
  <2>1. /\ \A q \in Processes : Free(q)
        /\ e = c => ~HeldElsewhere(p)
    BY <1>1
  <2>2. Others(c) /\ act'[c].proc = p /\ act'[c].stage = "logging"
    BY <1>0, <1>1, Enters
  <2>3. /\ Readable(image[p].events \union {c}) \in Present
        /\ Readable(image[p].events \union {c}).state = "readable"
        /\ Readable(image[p].events \union {c}).events = image[p].events \union {c}
        /\ Readable(image[p].events \union {c}) # Torn
    <3>1. image[p].events \union {c} \in SUBSET Events
      BY DatabaseFacts
    <3> QED
      BY <3>1, DatabaseFacts DEF Readable, Torn
  <2>4. FlushBegin(p, Readable(image[p].events \union {c}))
    BY <1>1 DEF LogBegin
  <2>5. e \in logged => e \in image[p].events \union {c}
    BY <1>1 DEF Logs, Kept, Saved
  <2>6. \A b \in Activities : act'[b].stage = "read" => act'[b] = act[b]
    BY <2>2 DEF Others
  <2>7. BeingSaved(e)'
    <3>1. CASE e = c
      <4>1. /\ \A q \in Processes \ {p} : image[q].state = "absent"
            /\ \A b \in Activities : ~At(b, "read")
        BY <2>1, <3>1 DEF HeldElsewhere
      <4>2. image'[p].events = image[p].events \union {c} /\ \A q \in Processes \ {p} : image'[q] = image[q]
        BY <2>1, <2>3, <2>4, FlushBegins
      <4> QED
        BY <2>2, <2>6, <3>1, <4>1, <4>2 DEF BeingSaved, Home, At
    <3>2. CASE e # c
      BY <1>0, <2>1, <2>2, <3>2, NobodyLogs DEF BeingSaved, Others, At
    <3> QED
      BY <3>1, <3>2
  <2> DEFINE db == Readable(image[p].events \union {c})
  <2>8. db \in Present /\ db # Torn /\ FlushBegin(p, db) /\ (e \in logged => e \in db.events)
    BY <2>3, <2>4, <2>5
  <2> HIDE DEF db
  <2> QED
    BY <1>1, <2>1, <2>6, <2>7, <2>8, KeptByWrites
<1>2. CASE /\ Thrown(c, p) \/ (degraded[p] /\ Answer(c, "ok") /\ End(c))
           /\ UNCHANGED <<memoryVars, logged>>
  <2>1. Others(c) /\ act'[c].stage = "over"
    BY <1>0, <1>2, Ends DEF Thrown
  <2> QED
    BY <1>0, <1>2, <2>1, KeptByQuietSteps DEF memoryVars
<1> QED
  BY <1>1, <1>2 DEF InvokeAgent

LEMMA KeptByCalls ==
  ASSUME PreparedInv, OneWriter, NEW e \in Calls, Kept(e), e \notin risky',
         NEW c \in Calls, NEW p \in Processes,
         \/ RefuseDegraded(c, p) \/ CallInit(c, p) \/ CallSearch(c, p) \/ CallInvoke(c, p) \/ Park(c, p)
         \/ FinishInit(c) \/ Unpark(c) \/ RefuseCapacity(c) \/ FinishInvoke(c)
  PROVE  Kept(e)'
<1> USE DEF PreparedInv, TypeOK
<1>0. /\ \A s : s \in {"loading", "parked"} => s \in Stages
      /\ c \in Activities /\ Over.stage = "over"
  BY DEF Stages, Activities, Over, Idle
<1>1. CASE \/ RefuseDegraded(c, p) \/ CallInit(c, p) \/ CallSearch(c, p) \/ Park(c, p)
           \/ FinishInit(c) \/ RefuseCapacity(c) \/ FinishInvoke(c)
  <2>1. Others(c) /\ act'[c].stage \in {"over", "loading", "parked"}
    BY <1>0, <1>1, Ends, Enters DEF RefuseDegraded, CallInit, CallSearch, Park, EnterInit,
                                    FinishInit, RefuseCapacity, FinishInvoke
  <2>2. UNCHANGED <<file, image, flushing, logged>>
    BY <1>1 DEF RefuseDegraded, CallInit, CallSearch, Park, FinishInit, RefuseCapacity, FinishInvoke, memoryVars
  <2> QED
    BY <1>0, <2>1, <2>2, KeptByQuietSteps
<1>2. CASE CallInvoke(c, p)
  BY <1>2, KeptByInvokes DEF CallInvoke, New, Serving
<1>3. CASE Unpark(c)
  <2>1. Home(c) \in Processes
    BY <1>0, <1>3, HomeOf DEF Unpark, Under, At
  <2> QED
    BY <1>3, <2>1, KeptByInvokes DEF Unpark
<1> QED
  BY <1>1, <1>2, <1>3

LEMMA StepDurable ==
  ASSUME DurableInv, [Next]_vars
  PROVE  DurableInv'
<1>1. CASE Next
  <2>1. PreparedInv' /\ OneWriter'
    BY <1>1, StepPrepared, StepOneWriter DEF DurableInv
  <2>2. ASSUME NEW e \in Calls \ risky' PROVE Kept(e)'
    <3>1. PreparedInv /\ OneWriter /\ Kept(e) /\ Processes \subseteq Activities /\ Calls \subseteq Activities
      BY <1>1, <2>2, OverlapsAddUp DEF DurableInv, Activities
    <3>2. ASSUME NEW a \in Activities, WriteFails(a) PROVE FALSE
      BY <2>2, <3>2, McpAssumption DEF WriteFails
    <3>3. ASSUME NEW c \in Calls, FinishInit(c) \/ Unpark(c) \/ RefuseCapacity(c) \/ FinishInvoke(c)
          PROVE  Kept(e)'
      <4>1. Home(c) \in Processes
        BY <3>1, <3>3, HomeOf DEF PreparedInv, Under, At, FinishInit, Unpark, RefuseCapacity, FinishInvoke
      <4> QED
        BY <2>2, <3>1, <3>3, <4>1, KeptByCalls
    <3> QED
      BY <1>1, <2>2, <3>1, <3>2, <3>3, KeptByInit, KeptWhenWritten, KeptByMain, KeptByCalls DEF Next
  <2> QED
    BY <2>1, <2>2 DEF DurableInv
<1>2. CASE UNCHANGED vars
  <2>1. PreparedInv'
    BY <1>2, StepPrepared DEF DurableInv
  <2>2. OneWriter'
    BY <1>2 DEF DurableInv, vars, memoryVars, OneWriter, Writing, Free, Home
  <2>3. ASSUME NEW e \in Calls \ risky' PROVE Kept(e)'
    BY <1>2, <2>3 DEF DurableInv, vars, memoryVars, Kept, OneFlusher, Saved, BeingSaved, Free, At, Home
  <2> QED
    BY <2>1, <2>2, <2>3 DEF DurableInv
<1> QED
  BY <1>1, <1>2

\* sqliteMemory.ts: what logEvent wrote stays in the file and in every image,
\* through restarts, failed loads, re-initialisations and failed writes, for every
\* event no overlap of processes or inits concerns.
THEOREM LoggedEventsStay == Spec => []LogIsDurable
<1>1. DurableInv => LogIsDurable
  <2>1. SUFFICES ASSUME DurableInv, NEW e \in logged \ risky
                 PROVE  /\ (\A p \in Processes : Free(p)) => e \in file.events
                        /\ \A p \in Processes : image[p].state = "readable" => e \in image[p].events
    BY DEF LogIsDurable
  <2> QED
    BY <2>1 DEF DurableInv, PreparedInv, TypeOK, Kept, Saved
<1> QED
  BY <1>1, InitInv, StepDurable, PTL DEF Spec
=============================================================================
