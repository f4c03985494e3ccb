----------------------- MODULE EnterpriseServerProofs -----------------------
(***************************************************************************)
(* What the guards of the enterprise server promise, for any number of     *)
(* requests, callers, tenants, limits and policies, and any times: how     *)
(* stale a tenant or a decision may be, how many requests of a tenant are  *)
(* admitted, and what the audit log says of them.                          *)
(***************************************************************************)
EXTENDS EnterpriseServer, FiniteSetTheorems, SequenceTheorems,
        WellFoundedInduction, TLAPS

-----------------------------------------------------------------------------
(* The inductive invariant.                                                *)

ReqStages == {"new", "fetched", "limiting", "asking", "answered", "decided", "handling",
              "closing", "done"}

ReqRecords ==
  [stage : ReqStages, caller : Callers, as : TenantValues \union {Absent},
   verdict : {"none", "rate_limit", "concurrent_limit", "allowed"},
   judgedAt : Nat, resetAt : Int, askedAt : Nat, allow : BOOLEAN, decidedAt : Nat, status : Nat]

WindowType == [requests : Seq(Nat), runningTasks : {0}]

Stores == [Tenants -> TenantValues \union {Absent}]
HeldType == [tenants : SUBSET Stores, policies : SUBSET (Policies \union {{}})]

ServerTypeOK ==
  /\ now \in 0..MaxTime
  /\ engine \in {"embedded", "remote"}
  /\ store \in Stores
  /\ policy \in Policies \union {{}}
  /\ resolved \in [Tenants -> {Absent} \union [tenant : TenantValues, fetchedAt : Nat]]
  /\ windows \in [Tenants -> WindowType]
  /\ decisions \in [Keys -> {Absent} \union [allow : BOOLEAN, fetchedAt : Nat]]
  /\ req \in [Requests -> ReqRecords]
  /\ held \in [0..MaxTime -> HeldType]

\* What a request carries at each stage.
StageFollows(r) ==
  /\ req[r].stage \in {"new", "fetched", "limiting"} => req[r].verdict = "none" /\ ~req[r].allow
  /\ req[r].stage \in {"asking", "answered", "decided", "handling", "closing"} => req[r].verdict = "allowed"
  /\ req[r].stage \in {"handling", "closing"} => req[r].allow
  /\ req[r].stage = "asking" => ~req[r].allow
  /\ req[r].stage \notin {"closing", "done"} => req[r].status = 0
  /\ req[r].stage \in {"fetched", "limiting"} \/ req[r].verdict # "none" => req[r].as \in TenantValues

StagesFollow == \A r \in Requests : StageFollows(r)

\* The store and the policy are what they were at this time.
HeldNow == store \in held[now].tenants /\ policy \in held[now].policies

\* At that time, the value the tenant has was in the store.
Stored(t, value, time) == \E s \in held[time].tenants : s[t] = value

\* ... or it was less than the time to live before.
StoredRecently(t, value, time) ==
  \E age \in 0..MaxTime : (age < CacheTtlMs \/ age = 0) /\ age <= time /\ Stored(t, value, time - age)

CacheFromStore(t) ==
  resolved[t] # Absent =>
    resolved[t].fetchedAt <= now /\ Stored(t, resolved[t].tenant, resolved[t].fetchedAt)

TenantFromStore(r) ==
  /\ req[r].stage = "fetched" => Stored(TenantOf(r), req[r].as, now)
  /\ req[r].stage = "limiting" =>
       req[r].as.status = "active" /\ StoredRecently(TenantOf(r), req[r].as, now)
  /\ req[r].verdict # "none" =>
       /\ req[r].judgedAt <= now
       /\ req[r].as.status = "active" /\ StoredRecently(TenantOf(r), req[r].as, req[r].judgedAt)

TenantsFromStore ==
  (\A t \in Tenants : CacheFromStore(t)) /\ \A r \in Requests : TenantFromStore(r)

\* A policy of that time allowed the input.
PolicyAllowed(c, time) == \E p \in held[time].policies : c \in p

\* The engine found the input allowed: the embedded rules do, or the remote policy
\* did at most a call before.  (Justified: less than the time to live and a call.)
Evaluated(c, time) ==
  IF engine = "embedded" THEN EmbeddedDecision(c)
  ELSE \E age \in 0..MaxTime : age <= PolicyTimeout /\ age <= time /\ PolicyAllowed(c, time - age)

\* The requests a decision of that key may come from.
Behind(k) == {q \in Requests : Key(q) = k /\ req[q].verdict = "allowed"}

Backed(k, time) == \E q \in Behind(k) : Evaluated(Input(q), time)

StillBacked(k, time) == \E q \in Behind(k) : Justified(Input(q), time)

DecisionFromPolicy(k) ==
  decisions[k] # Absent =>
    decisions[k].fetchedAt <= now /\ (decisions[k].allow => Backed(k, decisions[k].fetchedAt))

AllowFromPolicy(r) ==
  /\ req[r].stage \in {"asking", "answered"} =>
       engine = "remote" /\ req[r].askedAt <= now /\ now <= req[r].askedAt + PolicyTimeout
  /\ req[r].stage = "answered" /\ req[r].allow =>
       \E time \in req[r].askedAt..now : PolicyAllowed(Input(r), time)
  /\ req[r].allow /\ req[r].stage # "answered" =>
       req[r].decidedAt <= now /\ StillBacked(Key(r), req[r].decidedAt)

AllowsFromPolicy ==
  (\A k \in Keys : DecisionFromPolicy(k)) /\ \A r \in Requests : AllowFromPolicy(r)

FreshInv == ServerTypeOK /\ StagesFollow /\ HeldNow /\ TenantsFromStore /\ AllowsFromPolicy

\* Entries of the middleware for a request.
Mine(r) == {i \in DOMAIN entries : /\ entries[i].content.request = r
                                   /\ entries[i].content.writer = "middleware"}

Due(r) == req[r].stage = "done" /\ req[r].allow /\ AuditAction(Input(r).route) # "none"

TrailInv ==
  \A r \in Requests :
    /\ ~Due(r) => Mine(r) = {}
    /\ Due(r) => \E i \in DOMAIN entries : Mine(r) = {i} /\ entries[i].content.outcome = OutcomeOf(req[r].status)

\* The times in a window, in their order, each of an admitted request.
WindowsInOrder ==
  \A t \in Tenants :
    LET times == windows[t].requests
    IN /\ \A i, j \in 1..Len(times) : i <= j => times[i] <= times[j]
       /\ \A i \in 1..Len(times) : times[i] <= now /\ \E r \in Admitted(t) : req[r].judgedAt = times[i]

\* k times of a window have gone when start has come.
GoneAt(times, start, k) ==
  /\ k \in 0..Len(times)
  /\ k > 0 => times[k] <= start
  /\ k < Len(times) => times[k + 1] > start

AdmittedAfter(t, start) == {r \in Admitted(t) : req[r].judgedAt > start}

\* The window has as many times after an instant as requests were admitted after
\* it, unless the instant has left the window.
WindowsCount ==
  \A t \in Tenants : \A start \in Int : now <= start + WindowMs =>
    \A k \in 0..Len(windows[t].requests) :
      GoneAt(windows[t].requests, start, k) =>
        Cardinality(AdmittedAfter(t, start)) = Len(windows[t].requests) - k

\* The last request admitted at an instant found room under its own limit.
WindowsRoomy ==
  \A r \in Requests : req[r].verdict = "allowed" =>
    /\ MaxConcurrent > 0
    /\ \E q \in Admitted(TenantOf(r)) :
         /\ req[q].judgedAt = req[r].judgedAt
         /\ Cardinality(AdmittedIn(TenantOf(r), req[r].judgedAt)) <= req[q].as.limit

\* resetAt of a refusal is when a request that filled its window leaves it.
ResetsLeave ==
  \A r \in Requests : req[r].verdict = "rate_limit" /\ req[r].resetAt # NoReset =>
    \E o \in Admitted(TenantOf(r)) :
      /\ req[o].judgedAt + WindowMs = req[r].resetAt
      /\ req[o].judgedAt + WindowMs > req[r].judgedAt

WindowInv ==
  /\ \A t \in Tenants : IsFiniteSet(Admitted(t))
  /\ WindowsInOrder /\ WindowsCount /\ WindowsRoomy /\ ResetsLeave

-----------------------------------------------------------------------------
(* What each step does to its request.                                     *)

Others(r) == \A q \in Requests \ {r} : req'[q] = req[q]

\* Where the request goes, and what it may change on the way.
Same(r) == req'[r].caller = req[r].caller
SameTenant(r) == req'[r].as = req[r].as
SameVerdict(r) == /\ req'[r].verdict = req[r].verdict /\ req'[r].judgedAt = req[r].judgedAt
                  /\ req'[r].resetAt = req[r].resetAt
SameDecision(r) == req'[r].allow = req[r].allow /\ req'[r].decidedAt = req[r].decidedAt
Goes(r, stage, status) == req'[r].stage = stage /\ req'[r].status = status

LEMMA OneRequest ==
  ASSUME ServerTypeOK, NEW r \in Requests, NEW record \in ReqRecords,
         req' = [req EXCEPT ![r] = record]
  PROVE  req' \in [Requests -> ReqRecords] /\ req'[r] = record /\ Others(r)
BY DEF ServerTypeOK, Others

LEMMA AnswerFields ==
  ASSUME ServerTypeOK, NEW r \in Requests, NEW status \in Nat, NEW stage \in ReqStages,
         Answer(r, status, stage)
  PROVE  /\ req' \in [Requests -> ReqRecords] /\ Others(r) /\ Goes(r, stage, status)
         /\ Same(r) /\ SameTenant(r) /\ SameVerdict(r) /\ SameDecision(r)
<1>1. req[r] \in ReqRecords
  BY DEF ServerTypeOK
<1> DEFINE record == [req[r] EXCEPT !.status = status, !.stage = stage]
<1>2. record \in ReqRecords
  BY <1>1 DEF ReqRecords
<1>3. req' = [req EXCEPT ![r] = record]
  BY DEF Answer
<1> QED
  BY <1>1, <1>2, <1>3, OneRequest DEF ReqRecords, Goes, Same, SameTenant, SameVerdict, SameDecision

LEMMA MoveFields ==
  ASSUME ServerTypeOK, NEW r \in Requests, NEW stage \in ReqStages, Move(r, stage)
  PROVE  /\ req' \in [Requests -> ReqRecords] /\ Others(r) /\ Goes(r, stage, req[r].status)
         /\ Same(r) /\ SameTenant(r) /\ SameVerdict(r) /\ SameDecision(r)
<1>1. req[r] \in ReqRecords
  BY DEF ServerTypeOK
<1> DEFINE record == [req[r] EXCEPT !.stage = stage]
<1>2. record \in ReqRecords
  BY <1>1 DEF ReqRecords
<1>3. req' = [req EXCEPT ![r] = record]
  BY DEF Move
<1> QED
  BY <1>1, <1>2, <1>3, OneRequest DEF ReqRecords, Goes, Same, SameTenant, SameVerdict, SameDecision

LEMMA ValidateFields ==
  ASSUME ServerTypeOK, NEW r \in Requests, NEW tenant \in TenantValues \union {Absent},
         Validate(r, tenant)
  PROVE  /\ req' \in [Requests -> ReqRecords] /\ Others(r)
         /\ Goes(r, IF Valid(tenant) THEN "limiting" ELSE "done", IF Valid(tenant) THEN 0 ELSE 403)
         /\ Same(r) /\ req'[r].as = tenant /\ SameVerdict(r) /\ SameDecision(r)
<1>1. req[r] \in ReqRecords
  BY DEF ServerTypeOK
<1> DEFINE stage == IF Valid(tenant) THEN "limiting" ELSE "done"
           status == IF Valid(tenant) THEN 0 ELSE 403
           record == [req[r] EXCEPT !.as = tenant, !.stage = stage, !.status = status]
<1>2. stage \in ReqStages /\ status \in Nat
  BY DEF ReqStages
<1>3. req' = [req EXCEPT ![r] = record]
  BY ZenonT(60) DEF Validate
<1> HIDE DEF stage, status
<1>4. record \in ReqRecords
  BY <1>1, <1>2 DEF ReqRecords
<1>5. req' \in [Requests -> ReqRecords] /\ Others(r) /\ req'[r] = record
  BY <1>3, <1>4, OneRequest
<1>6. /\ Goes(r, stage, status)
      /\ Same(r) /\ req'[r].as = tenant /\ SameVerdict(r) /\ SameDecision(r)
  BY <1>1, <1>5 DEF ReqRecords, Goes, Same, SameVerdict, SameDecision
<1> QED
  BY <1>5, <1>6 DEF stage, status

LEMMA FetchFields ==
  ASSUME ServerTypeOK, NEW r \in Requests, ResolveFetch(r)
  PROVE  /\ req' \in [Requests -> ReqRecords] /\ Others(r) /\ Same(r) /\ SameVerdict(r) /\ SameDecision(r)
         /\ \/ Goes(r, "done", 403)
            \/ /\ Goes(r, "fetched", req[r].status)
               /\ store[TenantOf(r)] \in TenantValues /\ req'[r].as = store[TenantOf(r)]
<1>1. req[r] \in ReqRecords /\ TenantOf(r) \in Tenants /\ "fetched" \in ReqStages /\ "done" \in ReqStages
  BY DEF ServerTypeOK, ReqRecords, TenantOf, Input, Tenants, ReqStages
<1>2. CASE store[TenantOf(r)] = Absent
  BY <1>1, <1>2, AnswerFields DEF ResolveFetch
<1>3. CASE store[TenantOf(r)] # Absent
  <2> DEFINE record == [req[r] EXCEPT !.as = store[TenantOf(r)], !.stage = "fetched"]
  <2>1. record \in ReqRecords
    BY <1>1 DEF ReqRecords, ServerTypeOK, Stores
  <2>2. req' = [req EXCEPT ![r] = record]
    BY <1>3 DEF ResolveFetch
  <2>3. req' \in [Requests -> ReqRecords] /\ Others(r) /\ req'[r] = record
    BY <2>1, <2>2, OneRequest
  <2>4. Goes(r, "fetched", req[r].status) /\ req'[r].as = store[TenantOf(r)]
    BY <1>1, <2>3 DEF ReqRecords, Goes
  <2>0. store[TenantOf(r)] \in TenantValues
    BY <1>1, <1>3 DEF ServerTypeOK, Stores
  <2>5. Same(r) /\ SameVerdict(r) /\ SameDecision(r)
    BY <1>1, <2>3 DEF ReqRecords, Same, SameVerdict, SameDecision
  <2> QED
    BY <2>0, <2>3, <2>4, <2>5
<1> QED
  BY <1>2, <1>3

-----------------------------------------------------------------------------
(* The sliding window.                                                     *)

Ordered(times) == \A i, j \in 1..Len(times) : i <= j => times[i] <= times[j]

\* What the filter of checkLimit leaves of an ordered array.
LEMMA AfterLemma ==
  ASSUME NEW times \in Seq(Nat), Ordered(times), NEW start \in Int
  PROVE  \E gone \in 0..Len(times) :
           /\ GoneAt(times, start, gone)
           /\ After(times, start) \in Seq(Nat) /\ Len(After(times, start)) = Len(times) - gone
           /\ \A i \in 1..Len(times) - gone : After(times, start)[i] = times[gone + i]
<1> DEFINE n == Len(times)
           Cut(k) == \A i \in DOMAIN times : i <= k <=> times[i] <= start
           late == {k \in 0..n : \A i \in 1..n : i > k => times[i] > start}
<1>1. n \in Nat /\ DOMAIN times = 1..n /\ \A i \in 1..n : times[i] \in Nat
  OBVIOUS
<1> HIDE DEF n
<1>2. \E k \in 0..n : Cut(k)
  <2>1. /\ n \in late /\ late \subseteq Nat
        /\ \A k : k \in late <=> k \in 0..n /\ \A i \in 1..n : i > k => times[i] > start
    BY <1>1
  <2> HIDE DEF late
  <2>2. PICK k \in late : \A j \in late : ~(<<j, k>> \in OpToRel(<, Nat))
    BY <2>1, NatLessThanWellFounded, WFMin
  <2>3. \A j \in late : ~(j < k)
    BY <2>1, <2>2 DEF OpToRel
  <2>4. k \in 0..n /\ \A i \in 1..n : i > k => times[i] > start
    BY <2>1, <2>2
  <2>5. k > 0 => times[k] <= start
    <3>1. SUFFICES ASSUME k > 0 PROVE times[k] <= start
      OBVIOUS
    <3>2. k - 1 \in 0..n /\ k - 1 < k
      BY <1>1, <2>4, <3>1
    <3>3. PICK i \in 1..n : i > k - 1 /\ ~(times[i] > start)
      BY <2>1, <2>3, <3>2
    <3>4. i = k
      BY <1>1, <2>4, <3>3
    <3> QED
      BY <1>1, <3>3, <3>4
  <2>6. \A i \in 1..n : i <= k => times[i] <= times[k]
    BY <1>1, <2>4 DEF Ordered, n
  <2>7. \A i \in 1..n : i <= k => times[i] <= start
    BY <1>1, <2>4, <2>5, <2>6
  <2>8. ASSUME NEW i \in DOMAIN times PROVE i <= k <=> times[i] <= start
    BY <1>1, <2>4, <2>7, <2>8
  <2> QED
    BY <2>4, <2>8
<1>3. PICK gone : gone = CHOOSE k \in 0..n : Cut(k)
  OBVIOUS
<1>4. gone \in 0..n /\ Cut(gone)
  BY <1>2, <1>3
<1>5. After(times, start) = SubSeq(times, gone + 1, n)
  BY <1>3 DEF After, n
<1>6. GoneAt(times, start, gone)
  BY <1>1, <1>4 DEF GoneAt, n
<1>7. \A i \in gone + 1..n : times[i] \in Nat
  BY <1>1, <1>4
<1>8. gone + 1 \in Int /\ n \in Int
  BY <1>1, <1>4
<1>9. /\ SubSeq(times, gone + 1, n) \in Seq(Nat)
      /\ Len(SubSeq(times, gone + 1, n)) = IF gone + 1 <= n THEN n - (gone + 1) + 1 ELSE 0
      /\ \A i \in 1..n - (gone + 1) + 1 : SubSeq(times, gone + 1, n)[i] = times[gone + 1 + i - 1]
  BY <1>7, <1>8, SubSeqProperties
<1>10. /\ n - (gone + 1) + 1 = n - gone /\ (gone + 1 > n => n - gone = 0)
  BY <1>1, <1>4
<1>11. \A i \in 1..n - gone : gone + 1 + i - 1 = gone + i
  BY <1>1, <1>4
<1>12. /\ After(times, start) \in Seq(Nat) /\ Len(After(times, start)) = n - gone
       /\ \A i \in 1..n - gone : After(times, start)[i] = times[gone + i]
  <2>1. Len(After(times, start)) = n - gone
    BY <1>1, <1>4, <1>5, <1>9, <1>10
  <2>2. \A i \in 1..n - gone : After(times, start)[i] = times[gone + 1 + i - 1]
    BY <1>5, <1>9, <1>10
  <2>3. \A i \in 1..n - gone : After(times, start)[i] = times[gone + i]
    BY <1>11, <2>2
  <2> QED
    BY <1>5, <1>9, <2>1, <2>3
<1> QED
  BY <1>4, <1>6, <1>12 DEF n

\* What checkLimit answers, and leaves in the window.
AnswerFits(answer, kept, limit, maxConcurrent, time) ==
  /\ answer.verdict \in {"allowed", "rate_limit", "concurrent_limit"}
  /\ answer.window \in WindowType /\ answer.resetAt \in Int
  /\ answer.verdict = "allowed" <=> Len(kept) < limit /\ maxConcurrent > 0
  /\ answer.window.requests = IF answer.verdict = "allowed" THEN Append(kept, time) ELSE kept
  /\ answer.resetAt # NoReset => Len(kept) > 0 /\ answer.resetAt = kept[1] + WindowMs

LEMMA CheckLimitLemma ==
  ASSUME NEW window \in WindowType, Ordered(window.requests), NEW limit \in Nat,
         NEW maxConcurrent \in Nat, NEW time \in Nat,
         NEW kept, kept = After(window.requests, time - WindowMs),
         NEW answer, answer = CheckLimit(window, limit, maxConcurrent, time)
  PROVE  AnswerFits(answer, kept, limit, maxConcurrent, time)
<1>0. time - WindowMs \in Int /\ WindowMs \in Nat
  BY GuardsAssumption
<1>1. kept \in Seq(Nat) /\ Len(kept) \in Nat
  <2>1. PICK times : times = window.requests
    OBVIOUS
  <2>2. times \in Seq(Nat) /\ Ordered(times) /\ kept = After(times, time - WindowMs)
    BY <2>1 DEF WindowType
  <2>3. After(times, time - WindowMs) \in Seq(Nat)
    BY <1>0, <2>2, AfterLemma
  <2> QED
    BY <2>2, <2>3
<1> DEFINE w == Cleaned(window, time)
<1>2. w \in WindowType /\ w.requests = kept /\ w.runningTasks = 0
  BY <1>1 DEF Cleaned, WindowType
<1>3. \/ /\ RateExceeded(w, limit)
         /\ answer.verdict = "rate_limit" /\ answer.window = w
         /\ answer.resetAt = IF w.requests = <<>> THEN NoReset ELSE w.requests[1] + WindowMs
      \/ /\ ~RateExceeded(w, limit) /\ w.runningTasks >= maxConcurrent
         /\ answer.verdict = "concurrent_limit" /\ answer.window = w /\ answer.resetAt = NoReset
      \/ /\ ~RateExceeded(w, limit) /\ ~(w.runningTasks >= maxConcurrent)
         /\ answer.verdict = "allowed" /\ answer.resetAt = NoReset
         /\ answer.window = [w EXCEPT !.requests = Append(@, time)]
  BY DEF CheckLimit
<1> HIDE DEF w
<1>4. RateExceeded(w, limit) <=> ~(Len(kept) < limit)
  BY <1>1, <1>2 DEF RateExceeded
<1>5. w.runningTasks >= maxConcurrent <=> ~(maxConcurrent > 0)
  BY <1>2
<1>6. /\ [w EXCEPT !.requests = Append(@, time)] \in WindowType
      /\ [w EXCEPT !.requests = Append(@, time)].requests = Append(kept, time)
  <2>1. Append(kept, time) \in Seq(Nat)
    BY <1>1
  <2> QED
    BY <1>2, <2>1 DEF WindowType
<1>7. kept # <<>> => Len(kept) > 0 /\ kept[1] \in Nat
  BY <1>1
<1>8. answer.resetAt # NoReset => kept # <<>> /\ answer.resetAt = kept[1] + WindowMs
  BY <1>2, <1>3
<1>9. answer.resetAt \in Int
  BY <1>0, <1>7, <1>8 DEF NoReset
<1>10. answer.verdict = "allowed" <=> Len(kept) < limit /\ maxConcurrent > 0
  BY <1>3, <1>4, <1>5
<1>11. /\ answer.verdict \in {"allowed", "rate_limit", "concurrent_limit"}
       /\ answer.window \in WindowType
       /\ answer.window.requests = IF answer.verdict = "allowed" THEN Append(kept, time) ELSE kept
  BY <1>2, <1>3, <1>6
<1> QED
  BY <1>7, <1>8, <1>9, <1>10, <1>11 DEF AnswerFits

\* The answer to a request that the rate limiter sees.
Kept(r) == After(windows[TenantOf(r)].requests, now - WindowMs)

LEMMA RateLemma ==
  ASSUME ServerTypeOK, WindowsInOrder, NEW r \in Requests, req[r].as \in TenantValues
  PROVE  /\ RateAnswer(r).verdict \in {"allowed", "rate_limit", "concurrent_limit"}
         /\ RateAnswer(r).window \in WindowType /\ RateAnswer(r).resetAt \in Int
         /\ RateAnswer(r).verdict = "allowed" <=> Len(Kept(r)) < req[r].as.limit /\ MaxConcurrent > 0
         /\ RateAnswer(r).window.requests =
              IF RateAnswer(r).verdict = "allowed" THEN Append(Kept(r), now) ELSE Kept(r)
         /\ RateAnswer(r).resetAt # NoReset =>
              Len(Kept(r)) > 0 /\ RateAnswer(r).resetAt = Kept(r)[1] + WindowMs
<1>1. TenantOf(r) \in Tenants /\ windows[TenantOf(r)] \in WindowType /\ now \in Nat
  BY ServerAssumption DEF ServerTypeOK, ReqRecords, TenantOf, Input, Tenants
<1>2. Ordered(windows[TenantOf(r)].requests)
  BY <1>1 DEF WindowsInOrder, Ordered
<1>3. req[r].as.limit \in Nat /\ MaxConcurrent \in Nat
  BY ServerAssumption
<1>4. PICK window : window = windows[TenantOf(r)]
  OBVIOUS
<1>5. PICK limit : limit = req[r].as.limit
  OBVIOUS
<1>6. /\ window \in WindowType /\ Ordered(window.requests)
      /\ limit \in Nat /\ MaxConcurrent \in Nat /\ now \in Nat
      /\ Kept(r) = After(window.requests, now - WindowMs)
      /\ RateAnswer(r) = CheckLimit(window, limit, MaxConcurrent, now)
  BY <1>1, <1>2, <1>3, <1>4, <1>5 DEF RateAnswer, Kept
<1>7. PICK answer : answer = CheckLimit(window, limit, MaxConcurrent, now)
  OBVIOUS
<1>8. PICK kept : kept = After(window.requests, now - WindowMs)
  OBVIOUS
<1>9. AnswerFits(answer, kept, limit, MaxConcurrent, now)
  BY <1>6, <1>7, <1>8, CheckLimitLemma
<1>10. RateAnswer(r) = answer /\ Kept(r) = kept
  BY <1>6, <1>7, <1>8
<1> QED
  BY <1>5, <1>9, <1>10 DEF AnswerFits

LEMMA JudgedFields ==
  ASSUME ServerTypeOK, NEW r \in Requests, NEW stage \in ReqStages, NEW answer,
         answer.verdict \in {"allowed", "rate_limit", "concurrent_limit"}, answer.resetAt \in Int,
         NEW record, record = Judged(r, answer, stage)
  PROVE  /\ record \in ReqRecords
         /\ record.caller = req[r].caller /\ record.as = req[r].as
         /\ record.verdict = answer.verdict /\ record.judgedAt = now /\ record.resetAt = answer.resetAt
         /\ record.stage = stage /\ record.status = req[r].status
         /\ record.allow = req[r].allow /\ record.decidedAt = req[r].decidedAt
<1>1. req[r] \in ReqRecords /\ now \in Nat
  BY ServerAssumption DEF ServerTypeOK
<1> QED
  BY <1>1 DEF ReqRecords, Judged

\* A request that the rate limiter saw now.
JudgedNow(r) == /\ req'[r].verdict = RateAnswer(r).verdict /\ req'[r].judgedAt = now
                /\ req'[r].resetAt = RateAnswer(r).resetAt

LEMMA LimitedFields ==
  ASSUME ServerTypeOK, WindowsInOrder, NEW r \in Requests, req[r].as \in TenantValues, Limited(r)
  PROVE  /\ req' \in [Requests -> ReqRecords] /\ Others(r) /\ Goes(r, "done", 429)
         /\ Same(r) /\ SameTenant(r) /\ JudgedNow(r) /\ SameDecision(r)
<1>1. PICK record : record = Judged(r, RateAnswer(r), "done")
  OBVIOUS
<1>2. "done" \in ReqStages
  BY DEF ReqStages
<1>3. /\ record \in ReqRecords
      /\ record.caller = req[r].caller /\ record.as = req[r].as
      /\ record.verdict = RateAnswer(r).verdict /\ record.judgedAt = now
      /\ record.resetAt = RateAnswer(r).resetAt /\ record.stage = "done"
      /\ record.allow = req[r].allow /\ record.decidedAt = req[r].decidedAt
  BY <1>1, <1>2, RateLemma, JudgedFields
<1>4. [record EXCEPT !.status = 429] \in ReqRecords
  BY <1>3 DEF ReqRecords
<1>5. req' = [req EXCEPT ![r] = [record EXCEPT !.status = 429]]
  BY <1>1 DEF Limited
<1>6. req' \in [Requests -> ReqRecords] /\ req'[r] = [record EXCEPT !.status = 429] /\ Others(r)
  BY <1>4, <1>5, OneRequest
<1> QED
  BY <1>3, <1>6 DEF ReqRecords, Goes, Same, SameTenant, JudgedNow, SameDecision

\* The ways of authorize up to its first await.
FromCache(r) ==
  /\ CachedDecision(r) /\ UNCHANGED decisions /\ Goes(r, "decided", req[r].status)
  /\ req'[r].allow = decisions[Key(r)].allow /\ req'[r].decidedAt = now

FromRules(r) ==
  /\ engine = "embedded" /\ Remember(r, EmbeddedDecision(Input(r))) /\ Goes(r, "decided", req[r].status)
  /\ req'[r].allow = EmbeddedDecision(Input(r)) /\ req'[r].decidedAt = now

AsksOpa(r) ==
  /\ engine = "remote" /\ UNCHANGED decisions /\ Goes(r, "asking", req[r].status)
  /\ req'[r].askedAt = now /\ SameDecision(r)

LEMMA AuthorizeFields ==
  ASSUME ServerTypeOK, WindowsInOrder, NEW r \in Requests, req[r].as \in TenantValues, Authorize(r)
  PROVE  /\ req' \in [Requests -> ReqRecords] /\ Others(r) /\ Same(r) /\ SameTenant(r) /\ JudgedNow(r)
         /\ FromCache(r) \/ FromRules(r) \/ AsksOpa(r)
<1>0. /\ "decided" \in ReqStages /\ "asking" \in ReqStages /\ now \in Nat /\ Key(r) \in Keys
      /\ \A c : EmbeddedDecision(c) \in BOOLEAN
  BY ServerAssumption
  DEF ReqStages, ServerTypeOK, ReqRecords, Input, Key, Keys, EmbeddedDecision, Evaluate
<1>1. ASSUME NEW stage \in ReqStages, NEW allow \in BOOLEAN, NEW record,
             record = [Judged(r, RateAnswer(r), stage) EXCEPT !.allow = allow, !.decidedAt = now],
             req' = [req EXCEPT ![r] = record]
      PROVE  /\ req' \in [Requests -> ReqRecords] /\ Others(r) /\ Same(r) /\ SameTenant(r) /\ JudgedNow(r)
             /\ Goes(r, stage, req[r].status) /\ req'[r].allow = allow /\ req'[r].decidedAt = now
  <2>1. PICK judged : judged = Judged(r, RateAnswer(r), stage)
    OBVIOUS
  <2>2. /\ judged \in ReqRecords
        /\ judged.caller = req[r].caller /\ judged.as = req[r].as
        /\ judged.verdict = RateAnswer(r).verdict /\ judged.judgedAt = now
        /\ judged.resetAt = RateAnswer(r).resetAt /\ judged.stage = stage
        /\ judged.status = req[r].status
    BY <2>1, RateLemma, JudgedFields
  <2>3. record = [judged EXCEPT !.allow = allow, !.decidedAt = now]
    BY <1>1, <2>1
  <2>4. record \in ReqRecords
    BY <1>0, <2>2, <2>3 DEF ReqRecords
  <2>5. req' \in [Requests -> ReqRecords] /\ req'[r] = record /\ Others(r)
    BY <1>1, <2>4, OneRequest
  <2> QED
    BY <2>2, <2>3, <2>5 DEF ReqRecords, Goes, Same, SameTenant, JudgedNow
<1>2. CASE /\ CachedDecision(r) /\ UNCHANGED decisions
           /\ req' = [req EXCEPT ![r] = [Judged(r, RateAnswer(r), "decided") EXCEPT
                                           !.allow = decisions[Key(r)].allow, !.decidedAt = now]]
  <2>1. decisions[Key(r)].allow \in BOOLEAN
    BY <1>0, <1>2 DEF CachedDecision, ServerTypeOK
  <2> QED
    BY <1>0, <1>1, <1>2, <2>1 DEF FromCache
<1>3. CASE /\ engine = "embedded" /\ Remember(r, EmbeddedDecision(Input(r)))
           /\ req' = [req EXCEPT ![r] = [Judged(r, RateAnswer(r), "decided") EXCEPT
                                           !.allow = EmbeddedDecision(Input(r)), !.decidedAt = now]]
  BY <1>0, <1>1, <1>3 DEF FromRules
<1>4. CASE /\ engine = "remote" /\ UNCHANGED decisions
           /\ req' = [req EXCEPT ![r] = [Judged(r, RateAnswer(r), "asking") EXCEPT !.askedAt = now]]
  <2>1. PICK judged : judged = Judged(r, RateAnswer(r), "asking")
    OBVIOUS
  <2>2. /\ judged \in ReqRecords
        /\ judged.caller = req[r].caller /\ judged.as = req[r].as
        /\ judged.verdict = RateAnswer(r).verdict /\ judged.judgedAt = now
        /\ judged.resetAt = RateAnswer(r).resetAt /\ judged.stage = "asking"
        /\ judged.status = req[r].status
        /\ judged.allow = req[r].allow /\ judged.decidedAt = req[r].decidedAt
    BY <1>0, <2>1, RateLemma, JudgedFields
  <2>3. [judged EXCEPT !.askedAt = now] \in ReqRecords
    BY <1>0, <2>2 DEF ReqRecords
  <2>4. req' = [req EXCEPT ![r] = [judged EXCEPT !.askedAt = now]]
    BY <1>4, <2>1
  <2>5. req' \in [Requests -> ReqRecords] /\ req'[r] = [judged EXCEPT !.askedAt = now] /\ Others(r)
    BY <2>3, <2>4, OneRequest
  <2>6. /\ Same(r) /\ SameTenant(r) /\ JudgedNow(r) /\ SameDecision(r)
        /\ Goes(r, "asking", req[r].status) /\ req'[r].askedAt = now
    BY <2>2, <2>5 DEF ReqRecords, Goes, Same, SameTenant, JudgedNow, SameDecision
  <2> QED
    BY <1>4, <2>5, <2>6 DEF AsksOpa
<1> QED
  BY <1>2, <1>3, <1>4 DEF Authorize

LEMMA FourFields ==
  ASSUME NEW record \in ReqRecords, NEW stage \in ReqStages, NEW status \in Nat, NEW allow \in BOOLEAN,
         NEW askedAt \in Nat
  PROVE  [record EXCEPT !.stage = stage, !.status = status, !.allow = allow, !.askedAt = askedAt] \in ReqRecords
BY DEF ReqRecords

\* The remote engine.
LEMMA OpaFields ==
  ASSUME ServerTypeOK, NEW r \in Requests
  PROVE  /\ OpaEvaluates(r) =>
              /\ req' \in [Requests -> ReqRecords] /\ Others(r) /\ Same(r) /\ SameTenant(r) /\ SameVerdict(r)
              /\ Goes(r, "answered", req[r].status) /\ req'[r].askedAt = req[r].askedAt
              /\ (req'[r].allow => Input(r) \in policy)
         /\ OpaReplies(r) =>
              /\ req' \in [Requests -> ReqRecords] /\ Others(r) /\ Same(r) /\ SameTenant(r) /\ SameVerdict(r)
              /\ Goes(r, "decided", req[r].status)
              /\ req'[r].allow = req[r].allow /\ req'[r].decidedAt = now
         /\ OpaFails(r) =>
              /\ req' \in [Requests -> ReqRecords] /\ Others(r) /\ Same(r) /\ SameTenant(r) /\ SameVerdict(r)
              /\ Goes(r, "done", 403) \/ Goes(r, "done", 500)
              /\ ~req'[r].allow
<1>1. req[r] \in ReqRecords /\ now \in Nat
  BY ServerAssumption DEF ServerTypeOK
<1>2. "answered" \in ReqStages /\ "decided" \in ReqStages /\ "done" \in ReqStages
  BY DEF ReqStages
<1>3. ASSUME OpaEvaluates(r)
      PROVE  /\ req' \in [Requests -> ReqRecords] /\ Others(r) /\ Same(r) /\ SameTenant(r) /\ SameVerdict(r)
             /\ Goes(r, "answered", req[r].status) /\ req'[r].askedAt = req[r].askedAt
             /\ (req'[r].allow => Input(r) \in policy)
  <2>0. (Input(r) \in policy) \in BOOLEAN
    OBVIOUS
  <2>1. PICK allow : allow \in BOOLEAN /\ allow = (Input(r) \in policy)
    BY <2>0, Zenon
  <2> DEFINE record == [req[r] EXCEPT !.stage = "answered", !.allow = allow]
  <2>2. record \in ReqRecords
    BY <1>1, <1>2, <2>1 DEF ReqRecords
  <2>3. req' = [req EXCEPT ![r] = record]
    BY <1>3, <2>1 DEF OpaEvaluates
  <2>4. req' \in [Requests -> ReqRecords] /\ req'[r] = record /\ Others(r)
    BY <2>2, <2>3, OneRequest
  <2>5. /\ Goes(r, "answered", req[r].status) /\ req'[r].askedAt = req[r].askedAt
        /\ req'[r].allow = allow
    BY <1>1, <2>4 DEF ReqRecords, Goes
  <2>6. Same(r) /\ SameTenant(r) /\ SameVerdict(r)
    BY <1>1, <2>4 DEF ReqRecords, Same, SameTenant, SameVerdict
  <2> QED
    BY <2>1, <2>4, <2>5, <2>6
<1>4. ASSUME OpaReplies(r)
      PROVE  /\ req' \in [Requests -> ReqRecords] /\ Others(r) /\ Same(r) /\ SameTenant(r) /\ SameVerdict(r)
             /\ Goes(r, "decided", req[r].status)
             /\ req'[r].allow = req[r].allow /\ req'[r].decidedAt = now
  <2> DEFINE record == [req[r] EXCEPT !.stage = "decided", !.decidedAt = now, !.askedAt = 0]
  <2>1. record \in ReqRecords
    BY <1>1, <1>2 DEF ReqRecords
  <2>2. req' = [req EXCEPT ![r] = record]
    BY <1>4 DEF OpaReplies
  <2>3. req' \in [Requests -> ReqRecords] /\ req'[r] = record /\ Others(r)
    BY <2>1, <2>2, OneRequest
  <2>4. Goes(r, "decided", req[r].status) /\ req'[r].allow = req[r].allow /\ req'[r].decidedAt = now
    BY <1>1, <2>3 DEF ReqRecords, Goes
  <2>5. Same(r) /\ SameTenant(r) /\ SameVerdict(r)
    BY <1>1, <2>3 DEF ReqRecords, Same, SameTenant, SameVerdict
  <2> QED
    BY <2>3, <2>4, <2>5
<1>5. ASSUME OpaFails(r)
      PROVE  /\ req' \in [Requests -> ReqRecords] /\ Others(r) /\ Same(r) /\ SameTenant(r) /\ SameVerdict(r)
             /\ Goes(r, "done", 403) \/ Goes(r, "done", 500)
             /\ ~req'[r].allow
  <2>1. FALSE \in BOOLEAN /\ 403 \in Nat /\ 500 \in Nat /\ 0 \in Nat
    OBVIOUS
  <2>2. PICK code \in {403, 500} :
          req' = [req EXCEPT ![r] = [@ EXCEPT !.stage = "done", !.status = code,
                                              !.allow = FALSE, !.askedAt = 0]]
    <3> DEFINE codes == {403} \union (IF req[r].stage = "answered" THEN {500} ELSE {})
               to(code) == [req EXCEPT ![r] = [@ EXCEPT !.stage = "done", !.status = code,
                                                        !.allow = FALSE, !.askedAt = 0]]
    <3>1. \E code \in codes : req' = to(code)
      BY <1>5, Zenon DEF OpaFails
    <3>2. codes \subseteq {403, 500}
      OBVIOUS
    <3> HIDE DEF codes, to
    <3>3. \E code \in {403, 500} : req' = to(code)
      BY <3>1, <3>2
    <3> QED
      BY <3>3, Zenon DEF to
  <2>3. PICK status \in Nat : status = code
    BY <2>1, <2>2
  <2>4. PICK before \in ReqRecords, stage \in ReqStages : before = req[r] /\ stage = "done"
    BY <1>1, <1>2
  <2>5. PICK allow \in BOOLEAN, askedAt \in Nat : allow = FALSE /\ askedAt = 0
    <3>1. PICK allow \in BOOLEAN : allow = FALSE
      BY Zenon
    <3> QED
      BY <3>1
  <2> DEFINE record == [before EXCEPT !.stage = stage, !.status = status, !.allow = allow, !.askedAt = askedAt]
  <2>6. record \in ReqRecords
    BY FourFields
  <2>7. req' = [req EXCEPT ![r] = record]
    BY <2>2, <2>4, <2>3, <2>5
  <2>8. req' \in [Requests -> ReqRecords] /\ req'[r] = record /\ Others(r)
    BY <2>6, <2>7, OneRequest
  <2>9. (Goes(r, "done", 403) \/ Goes(r, "done", 500)) /\ ~req'[r].allow
    BY <1>1, <2>2, <2>8, <2>4, <2>3, <2>5 DEF ReqRecords, Goes
  <2>10. Same(r) /\ SameTenant(r) /\ SameVerdict(r)
    BY <1>1, <2>4, <2>8 DEF ReqRecords, Same, SameTenant, SameVerdict
  <2> QED
    BY <2>8, <2>9, <2>10
<1> QED
  BY <1>3, <1>4, <1>5

-----------------------------------------------------------------------------
(* Types and stages.                                                       *)

\* A request at work reads and writes what is its own; the rest stays.
Frame == UNCHANGED <<now, engine, store, policy, changes, held>>

LEMMA ChainFrame ==
  ASSUME NEW r \in Requests, Chain(r)
  PROVE  Frame
BY DEF Frame, Chain, ResolveCached, ResolveFetch, ResolveFill, Limited, Authorize,
       OpaEvaluates, OpaReplies, OpaFails, Decide, Handle, Close

\* Where a request is, and with what, at each step of it.
LEMMA ChainStages ==
  ASSUME ServerTypeOK, WindowsInOrder, StagesFollow, NEW r \in Requests, Chain(r)
  PROVE  req' \in [Requests -> ReqRecords] /\ Others(r) /\ Same(r) /\ StageFollows(r)'
<1>1. req[r] \in ReqRecords /\ TenantOf(r) \in Tenants /\ StageFollows(r)
  BY DEF ServerTypeOK, ReqRecords, TenantOf, Input, Tenants, StagesFollow
<1>2. \A stage : stage \in ReqStages <=> stage \in {"new", "fetched", "limiting", "asking", "answered",
                                                   "decided", "handling", "closing", "done"}
  BY DEF ReqStages
<1>3. CASE ResolveCached(r)
  <2>1. resolved[TenantOf(r)].tenant \in TenantValues
    BY <1>1, <1>3 DEF ResolveCached, Fresh, ServerTypeOK
  <2>2. Validate(r, resolved[TenantOf(r)].tenant) /\ req[r].stage = "new"
    BY <1>3 DEF ResolveCached
  <2> QED
    BY <1>1, <2>1, <2>2, ValidateFields DEF StageFollows, Goes, SameVerdict, SameDecision
<1>4. CASE ResolveFetch(r)
  <2>1. req[r].stage = "new"
    BY <1>4 DEF ResolveFetch
  <2> QED
    BY <1>1, <1>4, <2>1, FetchFields DEF StageFollows, Goes, SameVerdict, SameDecision
<1>5. CASE ResolveFill(r)
  <2>1. Validate(r, req[r].as) /\ req[r].stage = "fetched"
    BY <1>5 DEF ResolveFill
  <2>2. req[r].as \in TenantValues
    BY <1>1, <2>1 DEF StageFollows
  <2> QED
    BY <1>1, <2>1, <2>2, ValidateFields DEF StageFollows, Goes, SameVerdict, SameDecision
<1>6. CASE Limited(r)
  <2>1. req[r].stage = "limiting"
    BY <1>6 DEF Limited
  <2>2. req[r].as \in TenantValues
    BY <1>1, <2>1 DEF StageFollows
  <2> QED
    BY <1>1, <1>6, <2>1, <2>2, LimitedFields DEF StageFollows, Goes, SameTenant
<1>7. CASE Authorize(r)
  <2>1. req[r].stage = "limiting" /\ RateAnswer(r).verdict = "allowed"
    BY <1>7 DEF Authorize
  <2>2. req[r].as \in TenantValues
    BY <1>1, <2>1 DEF StageFollows
  <2>3. /\ req' \in [Requests -> ReqRecords] /\ Others(r) /\ Same(r) /\ SameTenant(r) /\ JudgedNow(r)
        /\ FromCache(r) \/ FromRules(r) \/ AsksOpa(r)
    BY <1>7, <2>2, AuthorizeFields
  <2> QED
    BY <1>1, <2>1, <2>2, <2>3
    DEF StageFollows, Goes, SameTenant, JudgedNow, SameDecision, FromCache, FromRules, AsksOpa
<1>8. CASE OpaEvaluates(r) \/ OpaReplies(r) \/ OpaFails(r)
  <2>1. req[r].stage \in {"asking", "answered"}
    BY <1>8 DEF OpaEvaluates, OpaReplies, OpaFails
  <2>2. /\ req' \in [Requests -> ReqRecords] /\ Others(r) /\ Same(r) /\ SameTenant(r) /\ SameVerdict(r)
        /\ \/ Goes(r, "answered", req[r].status)
           \/ Goes(r, "decided", req[r].status)
           \/ (Goes(r, "done", 403) \/ Goes(r, "done", 500)) /\ ~req'[r].allow
    BY <1>8, OpaFields
  <2> QED
    BY <1>1, <2>1, <2>2 DEF StageFollows, Goes, SameTenant, SameVerdict
<1>9. CASE Decide(r)
  <2>1. /\ req[r].stage = "decided"
        /\ \/ Answer(r, 403, "done")
           \/ Answer(r, 403, "closing") /\ req[r].allow
           \/ Move(r, "handling") /\ req[r].allow
    BY <1>9 DEF Decide
  <2>2. 403 \in Nat /\ "done" \in ReqStages /\ "closing" \in ReqStages /\ "handling" \in ReqStages
    BY <1>2
  <2>3. /\ req' \in [Requests -> ReqRecords] /\ Others(r) /\ Same(r)
        /\ SameTenant(r) /\ SameVerdict(r) /\ SameDecision(r)
        /\ \/ Goes(r, "done", 403)
           \/ Goes(r, "closing", 403) /\ req[r].allow
           \/ Goes(r, "handling", req[r].status) /\ req[r].allow
    BY <2>1, <2>2, AnswerFields, MoveFields
  <2> QED
    BY <1>1, <2>1, <2>3 DEF StageFollows, Goes, SameTenant, SameVerdict, SameDecision
<1>10. CASE Handle(r)
  <2>1. PICK o \in Outcomes(Input(r).route) : Answer(r, o.status, "closing")
    BY <1>10 DEF Handle
  <2>2. o.status \in Nat /\ "closing" \in ReqStages /\ req[r].stage = "handling"
    BY <1>10, <1>2 DEF Handle, Outcomes, Outcome, Refusal, Failure
  <2>3. PICK status \in Nat : status = o.status
    BY <2>2, Zenon
  <2> QED
    BY <1>1, <2>1, <2>2, <2>3, AnswerFields DEF StageFollows, Goes, SameTenant, SameVerdict, SameDecision
<1>11. CASE Close(r)
  <2>1. Move(r, "done") /\ req[r].stage = "closing" /\ "done" \in ReqStages
    BY <1>11, <1>2 DEF Close
  <2> QED
    BY <1>1, <2>1, MoveFields DEF StageFollows, Goes, SameTenant, SameVerdict, SameDecision
<1> QED
  BY <1>3, <1>4, <1>5, <1>6, <1>7, <1>8, <1>9, <1>10, <1>11 DEF Chain

LEMMA ChainTypes ==
  ASSUME ServerTypeOK, WindowsInOrder, StagesFollow, NEW r \in Requests, Chain(r)
  PROVE  ServerTypeOK' /\ StagesFollow'
<1>1. /\ req[r] \in ReqRecords /\ TenantOf(r) \in Tenants /\ Key(r) \in Keys /\ StageFollows(r)
      /\ now \in Nat
  BY ServerAssumption DEF ServerTypeOK, ReqRecords, TenantOf, Input, Tenants, StagesFollow, Key, Keys
<1>2. /\ req' \in [Requests -> ReqRecords] /\ Others(r) /\ StageFollows(r)'
      /\ UNCHANGED <<now, engine, store, policy, held>>
  BY ChainStages, ChainFrame DEF Frame
<1>3. resolved' \in [Tenants -> {Absent} \union [tenant : TenantValues, fetchedAt : Nat]]
  <2>1. CASE ResolveFill(r)
    <3>1. req[r].as \in TenantValues
      BY <1>1, <2>1 DEF ResolveFill, StageFollows
    <3> DEFINE entry == [tenant |-> req[r].as, fetchedAt |-> now]
    <3>2. entry \in [tenant : TenantValues, fetchedAt : Nat]
      BY <1>1, <3>1
    <3>3. resolved' = [resolved EXCEPT ![TenantOf(r)] = entry]
      BY <2>1 DEF ResolveFill
    <3> QED
      BY <3>2, <3>3 DEF ServerTypeOK
  <2>2. CASE ~ResolveFill(r)
    <3>1. UNCHANGED resolved
      BY <2>2 DEF Chain, ResolveCached, ResolveFetch, Limited, Authorize, OpaEvaluates, OpaReplies,
                  OpaFails, Decide, Handle, Close
    <3> QED
      BY <3>1 DEF ServerTypeOK
  <2> QED
    BY <2>1, <2>2
<1>4. windows' \in [Tenants -> WindowType]
  <2>1. CASE Limited(r) \/ Authorize(r)
    <3>1. req[r].as \in TenantValues
      BY <1>1, <2>1 DEF Limited, Authorize, StageFollows
    <3>2. RateAnswer(r).window \in WindowType
      BY <3>1, RateLemma
    <3>3. windows' = [windows EXCEPT ![TenantOf(r)] = RateAnswer(r).window]
      BY <2>1 DEF Limited, Authorize
    <3> QED
      BY <3>2, <3>3 DEF ServerTypeOK
  <2>2. CASE ~(Limited(r) \/ Authorize(r))
    <3>1. UNCHANGED windows
      BY <2>2 DEF Chain, ResolveCached, ResolveFetch, ResolveFill, OpaEvaluates, OpaReplies,
                  OpaFails, Decide, Handle, Close
    <3> QED
      BY <3>1 DEF ServerTypeOK
  <2> QED
    BY <2>1, <2>2
<1>5. decisions' \in [Keys -> {Absent} \union [allow : BOOLEAN, fetchedAt : Nat]]
  <2>1. ASSUME NEW allow \in BOOLEAN, Remember(r, allow)
        PROVE  decisions' \in [Keys -> {Absent} \union [allow : BOOLEAN, fetchedAt : Nat]]
    <3>1. [allow |-> allow, fetchedAt |-> now] \in [allow : BOOLEAN, fetchedAt : Nat]
      BY <1>1
    <3> QED
      BY <2>1, <3>1 DEF Remember, ServerTypeOK
  <2>2. CASE OpaReplies(r)
    BY <1>1, <2>1, <2>2 DEF OpaReplies, ReqRecords
  <2>3. CASE Authorize(r)
    <3>1. UNCHANGED decisions \/ Remember(r, EmbeddedDecision(Input(r)))
      BY <2>3 DEF Authorize
    <3>2. EmbeddedDecision(Input(r)) \in BOOLEAN
      BY DEF EmbeddedDecision, Evaluate
    <3>3. CASE UNCHANGED decisions
      BY <3>3 DEF ServerTypeOK
    <3> QED
      BY <2>1, <3>1, <3>2, <3>3
  <2>4. CASE ~(OpaReplies(r) \/ Authorize(r))
    <3>1. UNCHANGED decisions
      BY <2>4 DEF Chain, ResolveCached, ResolveFetch, ResolveFill, Limited, OpaEvaluates,
                  OpaFails, Decide, Handle, Close
    <3> QED
      BY <3>1 DEF ServerTypeOK
  <2> QED
    BY <2>2, <2>3, <2>4
<1>6. ServerTypeOK'
  BY <1>2, <1>3, <1>4, <1>5 DEF ServerTypeOK
<1>7. ASSUME NEW q \in Requests
      PROVE  StageFollows(q)'
  <2>1. q # r => req'[q] = req[q]
    BY <1>2 DEF Others
  <2>2. CASE q # r
    <3>1. StageFollows(q)
      BY DEF StagesFollow
    <3> QED
      BY <2>1, <2>2, <3>1 DEF StageFollows
  <2> QED
    BY <1>2, <2>2
<1> QED
  BY <1>6, <1>7 DEF StagesFollow

\* The administration of tenants and policies, and the clock.
Elsewhere == \/ \E t \in Tenants : ChangeTenant(t) \/ Invalidate(t)
             \/ ChangePolicy \/ Tick \/ UNCHANGED vars

\* What was held at a time stays held at it.
HeldGrows == \A time \in 0..now : /\ held[time].tenants \subseteq held'[time].tenants
                                  /\ held[time].policies \subseteq held'[time].policies

LEMMA ElsewhereTypes ==
  ASSUME ServerTypeOK, HeldNow, Elsewhere
  PROVE  /\ ServerTypeOK' /\ HeldNow' /\ HeldGrows
         /\ UNCHANGED <<engine, windows, decisions, entries, req>> /\ (now' = now \/ Tick)
<1>1. now \in 0..MaxTime /\ MaxTime \in Nat
  BY ServerAssumption DEF ServerTypeOK
<1>2. CASE \E t \in Tenants : ChangeTenant(t)
  <2>1. PICK t \in Tenants, v \in TenantValues \union {Absent} :
          ChangeTenant(t) /\ store' = [store EXCEPT ![t] = v]
    BY <1>2 DEF ChangeTenant
  <2>2. held[now] \in HeldType /\ store' \in Stores
    BY <1>1, <2>1 DEF ServerTypeOK, Stores
  <2> DEFINE here == [held[now] EXCEPT !.tenants = @ \union {store'}]
  <2>3. /\ here \in HeldType
        /\ here.tenants = held[now].tenants \union {store'} /\ here.policies = held[now].policies
    BY <2>2 DEF HeldType
  <2>4. held' = [held EXCEPT ![now] = here]
    BY <2>1 DEF ChangeTenant
  <2> HIDE DEF here
  <2>5. /\ held' \in [0..MaxTime -> HeldType] /\ held'[now] = here
        /\ \A time \in 0..MaxTime : time # now => held'[time] = held[time]
    BY <1>1, <2>3, <2>4 DEF ServerTypeOK
  <2>6. UNCHANGED <<now, engine, resolved, windows, policy, decisions, entries, req>>
    BY <2>1 DEF ChangeTenant
  <2>7. ServerTypeOK'
    BY <2>2, <2>5, <2>6 DEF ServerTypeOK
  <2>8. HeldNow' /\ HeldGrows
    BY <1>1, <2>3, <2>5, <2>6 DEF HeldNow, HeldGrows
  <2> QED
    BY <2>6, <2>7, <2>8
<1>3. CASE \E t \in Tenants : Invalidate(t)
  <2>1. PICK t \in Tenants : resolved' = [resolved EXCEPT ![t] = Absent]
    BY <1>3 DEF Invalidate
  <2>2. UNCHANGED <<now, engine, store, windows, policy, decisions, entries, req, held>>
    BY <1>3 DEF Invalidate
  <2> QED
    BY <2>1, <2>2 DEF ServerTypeOK, HeldNow, HeldGrows
<1>4. CASE ChangePolicy
  <2>2. held[now] \in HeldType /\ policy' \in Policies \union {{}}
    BY <1>1, <1>4, ServerAssumption DEF ChangePolicy, ServerTypeOK
  <2> DEFINE here == [held[now] EXCEPT !.policies = @ \union {policy'}]
  <2>3. /\ here \in HeldType
        /\ here.policies = held[now].policies \union {policy'} /\ here.tenants = held[now].tenants
    BY <2>2 DEF HeldType
  <2>4. held' = [held EXCEPT ![now] = here]
    BY <1>4 DEF ChangePolicy
  <2> HIDE DEF here
  <2>5. /\ held' \in [0..MaxTime -> HeldType] /\ held'[now] = here
        /\ \A time \in 0..MaxTime : time # now => held'[time] = held[time]
    BY <1>1, <2>3, <2>4 DEF ServerTypeOK
  <2>6. UNCHANGED <<now, engine, store, resolved, windows, decisions, entries, req>>
    BY <1>4 DEF ChangePolicy
  <2>7. ServerTypeOK'
    BY <2>2, <2>5, <2>6 DEF ServerTypeOK
  <2>8. HeldNow' /\ HeldGrows
    BY <1>1, <2>3, <2>5, <2>6 DEF HeldNow, HeldGrows
  <2> QED
    BY <2>6, <2>7, <2>8
<1>5. CASE Tick
  <2> DEFINE here == [tenants |-> {store}, policies |-> {policy}]
  <2>1. now' = now + 1 /\ now' \in 0..MaxTime /\ held' = [held EXCEPT ![now'] = here]
    BY <1>1, <1>5 DEF Tick
  <2>2. here \in HeldType
    BY DEF ServerTypeOK, HeldType
  <2>3. /\ held' \in [0..MaxTime -> HeldType] /\ held'[now'] = here
        /\ \A time \in 0..MaxTime : time # now' => held'[time] = held[time]
    BY <2>1, <2>2 DEF ServerTypeOK
  <2>4. UNCHANGED <<engine, store, resolved, windows, policy, decisions, entries, req>>
    BY <1>5 DEF Tick
  <2>5. ServerTypeOK'
    BY <2>1, <2>2, <2>3, <2>4 DEF ServerTypeOK
  <2>6. HeldNow'
    BY <2>3, <2>4 DEF HeldNow
  <2>7. HeldGrows
    BY <1>1, <2>1, <2>3 DEF HeldGrows
  <2> QED
    BY <1>5, <2>4, <2>5, <2>6, <2>7
<1>6. CASE UNCHANGED vars
  BY <1>6 DEF vars, ServerTypeOK, HeldNow, HeldGrows
<1> QED
  BY <1>2, <1>3, <1>4, <1>5, <1>6 DEF Elsewhere

-----------------------------------------------------------------------------
(* How old what a request relies on may be.                                *)

\* Resolving the tenant.
LEMMA ResolveFields ==
  ASSUME ServerTypeOK, NEW r \in Requests, StageFollows(r),
         ResolveCached(r) \/ ResolveFetch(r) \/ ResolveFill(r)
  PROVE  /\ SameVerdict(r) /\ SameDecision(r)
         /\ req'[r].stage \in {"fetched", "limiting", "done"}
<1>1. req[r] \in ReqRecords /\ TenantOf(r) \in Tenants
  BY DEF ServerTypeOK, ReqRecords, TenantOf, Input, Tenants
<1>2. CASE ResolveCached(r)
  <2>1. resolved[TenantOf(r)].tenant \in TenantValues
    BY <1>1, <1>2 DEF ResolveCached, Fresh, ServerTypeOK
  <2>2. Validate(r, resolved[TenantOf(r)].tenant)
    BY <1>2 DEF ResolveCached
  <2> QED
    BY <1>1, <2>1, <2>2, ValidateFields DEF Goes
<1>3. CASE ResolveFetch(r)
  BY <1>1, <1>3, FetchFields DEF Goes
<1>4. CASE ResolveFill(r)
  <2>1. Validate(r, req[r].as) /\ req[r].as \in TenantValues
    BY <1>4 DEF ResolveFill, StageFollows
  <2> QED
    BY <1>1, <2>1, ValidateFields DEF Goes
<1> QED
  BY <1>2, <1>3, <1>4

\* What the steps behind the rate limiter leave alone.
LEMMA AfterLimiter ==
  ASSUME ServerTypeOK, NEW r \in Requests,
         OpaEvaluates(r) \/ OpaReplies(r) \/ OpaFails(r) \/ Decide(r) \/ Handle(r) \/ Close(r)
  PROVE  /\ SameTenant(r) /\ SameVerdict(r)
         /\ req'[r].stage \in {"answered", "decided", "handling", "closing", "done"}
         /\ Decide(r) \/ Handle(r) \/ Close(r) =>
              SameDecision(r) /\ req'[r].stage \in {"handling", "closing", "done"}
<1>1. 403 \in Nat /\ "done" \in ReqStages /\ "closing" \in ReqStages /\ "handling" \in ReqStages
  BY DEF ReqStages
<1>2. CASE OpaEvaluates(r) \/ OpaReplies(r) \/ OpaFails(r)
  <2>1. ~(Decide(r) \/ Handle(r) \/ Close(r))
    BY <1>2 DEF OpaEvaluates, OpaReplies, OpaFails, Decide, Handle, Close
  <2> QED
    BY <1>2, <2>1, OpaFields DEF Goes
<1>3. CASE Decide(r)
  <2>1. \/ Answer(r, 403, "done")
        \/ Answer(r, 403, "closing")
        \/ Move(r, "handling")
    BY <1>3 DEF Decide
  <2> QED
    BY <1>1, <2>1, AnswerFields, MoveFields DEF Goes
<1>4. CASE Handle(r)
  <2>1. PICK o \in Outcomes(Input(r).route) : Answer(r, o.status, "closing")
    BY <1>4 DEF Handle
  <2>2. o.status \in Nat
    BY DEF Outcomes, Outcome, Refusal, Failure
  <2>3. PICK status \in Nat : status = o.status
    BY <2>2, Zenon
  <2> QED
    BY <1>1, <2>1, <2>3, AnswerFields DEF Goes
<1>5. CASE Close(r)
  BY <1>1, <1>5, MoveFields DEF Close, Goes
<1> QED
  BY <1>2, <1>3, <1>4, <1>5

LEMMA ChainTenants ==
  ASSUME ServerTypeOK, WindowsInOrder, StagesFollow, HeldNow, TenantsFromStore,
         NEW r \in Requests, Chain(r)
  PROVE  TenantsFromStore'
<1>1. /\ req[r] \in ReqRecords /\ TenantOf(r) \in Tenants /\ StageFollows(r)
      /\ TenantFromStore(r) /\ now \in 0..MaxTime /\ MaxTime \in Nat /\ CacheTtlMs \in Nat
  BY ServerAssumption, GuardsAssumption
  DEF ServerTypeOK, ReqRecords, TenantOf, Input, Tenants, StagesFollow, TenantsFromStore
<1>2. /\ req' \in [Requests -> ReqRecords] /\ Others(r) /\ Same(r)
      /\ UNCHANGED <<now, store, held>>
  BY ChainStages, ChainFrame DEF Frame
<1>3. TenantOf(r)' = TenantOf(r)
  BY <1>2 DEF Same, TenantOf, Input
<1>4. ASSUME NEW value, Stored(TenantOf(r), value, now)
      PROVE  StoredRecently(TenantOf(r), value, now)
  BY <1>1, <1>4 DEF StoredRecently
<1>5. CASE ResolveCached(r)
  <2>1. PICK entry : entry = resolved[TenantOf(r)]
    OBVIOUS
  <2>2. /\ entry \in [tenant : TenantValues, fetchedAt : Nat]
        /\ entry.fetchedAt <= now /\ now - entry.fetchedAt < CacheTtlMs
        /\ Stored(TenantOf(r), entry.tenant, entry.fetchedAt)
    BY <1>1, <1>5, <2>1 DEF ResolveCached, Fresh, ServerTypeOK, TenantsFromStore, CacheFromStore
  <2>3. StoredRecently(TenantOf(r), entry.tenant, now)
    <3>1. now - entry.fetchedAt \in 0..MaxTime /\ now - (now - entry.fetchedAt) = entry.fetchedAt
      BY <1>1, <2>2
    <3> QED
      BY <1>1, <2>2, <3>1 DEF StoredRecently
  <2>4. /\ Goes(r, IF Valid(entry.tenant) THEN "limiting" ELSE "done", IF Valid(entry.tenant) THEN 0 ELSE 403)
        /\ req'[r].as = entry.tenant /\ SameVerdict(r)
    BY <1>5, <2>1, <2>2, ValidateFields DEF ResolveCached
  <2>5. TenantFromStore(r)'
    BY <1>1, <1>2, <1>3, <1>5, <2>3, <2>4
    DEF TenantFromStore, Goes, SameVerdict, Valid, StoredRecently, Stored, ResolveCached, StageFollows
  <2>6. UNCHANGED resolved
    BY <1>5 DEF ResolveCached
  <2> QED
    BY <1>2, <2>5, <2>6
    DEF TenantsFromStore, TenantFromStore, CacheFromStore, StoredRecently, Stored, Others, TenantOf, Input
<1>6. CASE ResolveFetch(r)
  <2>1. Stored(TenantOf(r), store[TenantOf(r)], now) /\ req[r].stage = "new" /\ UNCHANGED resolved
    BY <1>6 DEF Stored, HeldNow, ResolveFetch
  <2>2. /\ SameVerdict(r)
        /\ Goes(r, "done", 403) \/ (Goes(r, "fetched", req[r].status) /\ req'[r].as = store[TenantOf(r)])
    BY <1>6, FetchFields
  <2>3. TenantFromStore(r)'
    BY <1>1, <1>2, <1>3, <2>1, <2>2 DEF TenantFromStore, Goes, SameVerdict, Stored, StageFollows
  <2> QED
    BY <1>2, <2>1, <2>3
    DEF TenantsFromStore, TenantFromStore, CacheFromStore, StoredRecently, Stored, Others, TenantOf, Input
<1>7. CASE ResolveFill(r)
  <2>1. /\ req[r].stage = "fetched" /\ Validate(r, req[r].as) /\ req[r].as \in TenantValues
        /\ Stored(TenantOf(r), req[r].as, now)
    BY <1>1, <1>7 DEF ResolveFill, StageFollows, TenantFromStore
  <2>2. /\ Goes(r, IF Valid(req[r].as) THEN "limiting" ELSE "done", IF Valid(req[r].as) THEN 0 ELSE 403)
        /\ req'[r].as = req[r].as /\ SameVerdict(r)
    BY <2>1, ValidateFields
  <2>3. TenantFromStore(r)'
    BY <1>1, <1>2, <1>3, <1>4, <2>1, <2>2
    DEF TenantFromStore, Goes, SameVerdict, Valid, StoredRecently, Stored, StageFollows
  <2>4. ASSUME NEW t \in Tenants
        PROVE  CacheFromStore(t)'
    <3>1. resolved' = [resolved EXCEPT ![TenantOf(r)] = [tenant |-> req[r].as, fetchedAt |-> now]]
      BY <1>7 DEF ResolveFill
    <3>2. CASE t = TenantOf(r)
      BY <1>1, <1>2, <2>1, <3>1, <3>2 DEF CacheFromStore, Stored, ServerTypeOK
    <3>3. CASE t # TenantOf(r)
      BY <1>1, <1>2, <3>1, <3>3 DEF CacheFromStore, Stored, ServerTypeOK, TenantsFromStore
    <3> QED
      BY <3>2, <3>3
  <2> QED
    BY <1>2, <2>3, <2>4
    DEF TenantsFromStore, TenantFromStore, StoredRecently, Stored, Others, TenantOf, Input
<1>8. CASE Limited(r) \/ Authorize(r)
  <2>1. req[r].stage = "limiting" /\ UNCHANGED resolved
    BY <1>8 DEF Limited, Authorize
  <2>2. /\ req[r].as \in TenantValues /\ req[r].as.status = "active"
        /\ StoredRecently(TenantOf(r), req[r].as, now)
    BY <1>1, <2>1 DEF StageFollows, TenantFromStore
  <2>3. /\ SameTenant(r) /\ req'[r].judgedAt = now /\ req'[r].stage \notin {"fetched", "limiting"}
    BY <1>8, <2>2, LimitedFields, AuthorizeFields
    DEF JudgedNow, Goes, FromCache, FromRules, AsksOpa
  <2>4. TenantFromStore(r)'
    BY <1>1, <1>2, <1>3, <2>2, <2>3 DEF TenantFromStore, SameTenant, StoredRecently, Stored
  <2> QED
    BY <1>2, <2>1, <2>4
    DEF TenantsFromStore, TenantFromStore, CacheFromStore, StoredRecently, Stored, Others, TenantOf, Input
<1>9. CASE OpaEvaluates(r) \/ OpaReplies(r) \/ OpaFails(r) \/ Decide(r) \/ Handle(r) \/ Close(r)
  <2>1. UNCHANGED resolved
    BY <1>9 DEF OpaEvaluates, OpaReplies, OpaFails, Decide, Handle, Close
  <2>2. SameTenant(r) /\ SameVerdict(r) /\ req'[r].stage \notin {"fetched", "limiting"}
    BY <1>9, AfterLimiter
  <2>3. TenantFromStore(r)'
    BY <1>1, <1>2, <1>3, <2>2 DEF TenantFromStore, SameTenant, SameVerdict, StoredRecently, Stored
  <2> QED
    BY <1>2, <2>1, <2>3
    DEF TenantsFromStore, TenantFromStore, CacheFromStore, StoredRecently, Stored, Others, TenantOf, Input
<1> QED
  BY <1>5, <1>6, <1>7, <1>8, <1>9 DEF Chain

LEMMA ElsewhereTenants ==
  ASSUME ServerTypeOK, HeldNow, TenantsFromStore, Elsewhere
  PROVE  TenantsFromStore'
<1>1. /\ now \in 0..MaxTime /\ MaxTime \in Nat /\ HeldGrows /\ UNCHANGED req
      /\ now' = now \/ (Tick /\ now' = now + 1)
  BY ServerAssumption, ElsewhereTypes DEF ServerTypeOK, Tick
<1>2. ASSUME NEW t, NEW value, NEW time \in 0..now, Stored(t, value, time)
      PROVE  \E s \in held'[time].tenants : s[t] = value
  BY <1>1, <1>2 DEF Stored, HeldGrows
<1>3. ASSUME NEW t \in Tenants
      PROVE  CacheFromStore(t)'
  <2>1. resolved'[t] # Absent => resolved'[t] = resolved[t]
    BY <1>3 DEF Elsewhere, ChangeTenant, Invalidate, ChangePolicy, Tick, vars, ServerTypeOK
  <2>2. CASE resolved[t] # Absent
    <3>1. /\ resolved[t].fetchedAt \in 0..now
          /\ Stored(t, resolved[t].tenant, resolved[t].fetchedAt)
      BY <1>1, <2>2 DEF TenantsFromStore, CacheFromStore, ServerTypeOK
    <3>2. \E s \in held'[resolved[t].fetchedAt].tenants : s[t] = resolved[t].tenant
      BY <1>2, <3>1
    <3> QED
      BY <1>1, <2>1, <3>1, <3>2 DEF CacheFromStore, Stored
  <2> QED
    BY <2>1, <2>2 DEF CacheFromStore
<1>4. ASSUME NEW r \in Requests
      PROVE  TenantFromStore(r)'
  <2>1. TenantFromStore(r) /\ TenantOf(r)' = TenantOf(r)
    BY <1>1 DEF TenantsFromStore, TenantOf, Input
  <2>2. req[r].judgedAt \in Nat
    BY DEF ServerTypeOK, ReqRecords
  <2>3. req[r].stage \in {"fetched", "limiting"} => now' = now
    BY <1>1 DEF Tick, Urgent
  <2>4. ASSUME NEW time \in 0..now, StoredRecently(TenantOf(r), req[r].as, time)
        PROVE  \E age \in 0..MaxTime : /\ age < CacheTtlMs \/ age = 0
                                       /\ age <= time
                                       /\ \E s \in held'[time - age].tenants : s[TenantOf(r)] = req[r].as
    <3>1. PICK age \in 0..MaxTime : /\ age < CacheTtlMs \/ age = 0
                                    /\ age <= time /\ Stored(TenantOf(r), req[r].as, time - age)
      BY <2>4 DEF StoredRecently
    <3>2. time - age \in 0..now
      BY <1>1, <3>1
    <3> QED
      BY <1>2, <3>1, <3>2
  <2>5. req[r].stage = "fetched" => Stored(TenantOf(r), req[r].as, now)'
    <3>1. SUFFICES ASSUME req[r].stage = "fetched"
                   PROVE  Stored(TenantOf(r), req[r].as, now)'
      OBVIOUS
    <3>2. Stored(TenantOf(r), req[r].as, now) /\ now \in 0..now /\ now' = now
      BY <1>1, <2>1, <2>3, <3>1 DEF TenantFromStore
    <3>3. \E s \in held'[now].tenants : s[TenantOf(r)] = req[r].as
      BY <1>2, <3>2
    <3> QED
      BY <1>1, <2>1, <3>2, <3>3 DEF Stored
  <2>6. req[r].stage = "limiting" =>
          req[r].as.status = "active" /\ StoredRecently(TenantOf(r), req[r].as, now)'
    <3>1. SUFFICES ASSUME req[r].stage = "limiting"
                   PROVE  req[r].as.status = "active" /\ StoredRecently(TenantOf(r), req[r].as, now)'
      OBVIOUS
    <3>2. /\ req[r].as.status = "active" /\ StoredRecently(TenantOf(r), req[r].as, now)
          /\ now \in 0..now /\ now' = now
      BY <1>1, <2>1, <2>3, <3>1 DEF TenantFromStore
    <3> QED
      BY <1>1, <2>1, <2>4, <3>2 DEF StoredRecently, Stored
  <2>7. req[r].verdict # "none" =>
          /\ req[r].judgedAt <= now'
          /\ req[r].as.status = "active" /\ StoredRecently(TenantOf(r), req[r].as, req[r].judgedAt)'
    <3>1. SUFFICES ASSUME req[r].verdict # "none"
                   PROVE  /\ req[r].judgedAt <= now'
                          /\ req[r].as.status = "active"
                          /\ StoredRecently(TenantOf(r), req[r].as, req[r].judgedAt)'
      OBVIOUS
    <3>2. /\ req[r].as.status = "active" /\ StoredRecently(TenantOf(r), req[r].as, req[r].judgedAt)
          /\ req[r].judgedAt \in 0..now /\ req[r].judgedAt <= now'
      BY <1>1, <2>1, <2>2, <3>1 DEF TenantFromStore
    <3> QED
      BY <1>1, <2>1, <2>4, <3>2 DEF StoredRecently, Stored
  <2> QED
    BY <1>1, <2>1, <2>5, <2>6, <2>7 DEF TenantFromStore
<1> QED
  BY <1>3, <1>4 DEF TenantsFromStore

\* A call of the engine takes less than its timeout, so what it found allowed a
\* policy of that time allowed.
LEMMA EvaluatedJustified ==
  ASSUME ServerTypeOK, NEW c, NEW time \in 0..now, Evaluated(c, time),
         NEW later \in 0..now, later = time \/ (time <= later /\ later - time < PolicyTtl)
  PROVE  Justified(c, later)
<1>1. PolicyTtl \in Nat /\ PolicyTimeout \in Nat /\ now \in 0..MaxTime /\ MaxTime \in Nat
  BY ServerAssumption DEF ServerTypeOK
<1>2. CASE engine = "embedded"
  BY <1>2 DEF Evaluated, Justified
<1>3. CASE engine # "embedded"
  <2>1. PICK age \in 0..MaxTime : age <= PolicyTimeout /\ age <= time /\ PolicyAllowed(c, time - age)
    BY <1>3 DEF Evaluated
  <2>2. PICK all : all = later - time + age
    OBVIOUS
  <2>3. /\ all \in 0..MaxTime /\ all <= later /\ later - all = time - age
        /\ all < PolicyTtl + PolicyTimeout \/ all <= PolicyTimeout
    BY <1>1, <2>1, <2>2
  <2> QED
    BY <1>3, <2>1, <2>3 DEF Justified, PolicyAllowed
<1> QED
  BY <1>2, <1>3

\* An answer for which the timer has not run out.
LEMMA AnswerEvaluated ==
  ASSUME ServerTypeOK, NEW r \in Requests, AllowFromPolicy(r), req[r].stage = "answered", req[r].allow
  PROVE  Evaluated(Input(r), now)
<1>1. /\ PolicyTimeout \in Nat /\ now \in 0..MaxTime /\ MaxTime \in Nat /\ req[r].askedAt \in Nat
      /\ engine = "remote" /\ now <= req[r].askedAt + PolicyTimeout
  BY ServerAssumption DEF ServerTypeOK, ReqRecords, AllowFromPolicy
<1>2. PICK time \in req[r].askedAt..now : PolicyAllowed(Input(r), time)
  BY DEF AllowFromPolicy
<1>3. /\ now - time \in 0..MaxTime /\ now - time <= PolicyTimeout /\ now - time <= now
      /\ now - (now - time) = time
  BY <1>1, <1>2
<1> QED
  BY <1>1, <1>2, <1>3 DEF Evaluated

\* A request that the engine has not seen is not allowed.
LEMMA BeforeEngine ==
  ASSUME ServerTypeOK, WindowsInOrder, NEW r \in Requests, StageFollows(r),
         ResolveCached(r) \/ ResolveFetch(r) \/ ResolveFill(r) \/ Limited(r)
  PROVE  ~req'[r].allow /\ req'[r].stage \notin {"asking", "answered"}
<1>1. /\ req[r] \in ReqRecords /\ TenantOf(r) \in Tenants
      /\ req[r].stage \in {"new", "fetched", "limiting"} /\ ~req[r].allow
  BY DEF ServerTypeOK, ReqRecords, TenantOf, Input, Tenants, StageFollows,
         ResolveCached, ResolveFetch, ResolveFill, Limited
<1>2. CASE ResolveCached(r) \/ ResolveFetch(r) \/ ResolveFill(r)
  BY <1>1, <1>2, ResolveFields DEF SameDecision
<1>3. CASE Limited(r)
  <2>1. req[r].as \in TenantValues
    BY <1>3 DEF Limited, StageFollows
  <2> QED
    BY <1>1, <1>3, <2>1, LimitedFields DEF Goes, SameDecision
<1> QED
  BY <1>2, <1>3

\* A request keeps its input, and one that the rate limiter admitted stays admitted.
LEMMA ChainBehind ==
  ASSUME ServerTypeOK, WindowsInOrder, StagesFollow, NEW r \in Requests, Chain(r)
  PROVE  /\ \A q \in Requests : Input(q)' = Input(q) /\ Key(q)' = Key(q)
         /\ \A k : Behind(k) \subseteq Behind(k)'
         /\ req'[r].stage \in {"asking", "answered", "decided", "handling", "closing"} =>
              r \in Behind(Key(r))'
<1>1. Others(r) /\ Same(r) /\ StageFollows(r)' /\ StageFollows(r)
  BY ChainStages DEF StagesFollow
<1>2. \A q \in Requests : Input(q)' = Input(q) /\ Key(q)' = Key(q)
  BY <1>1 DEF Others, Same, Input, Key
<1>3. ASSUME req[r].verdict = "allowed"
      PROVE  req'[r].verdict = "allowed"
  <2>1. ~Limited(r) /\ ~Authorize(r)
    BY <1>1, <1>3 DEF StageFollows, Limited, Authorize
  <2>2. CASE ResolveCached(r) \/ ResolveFetch(r) \/ ResolveFill(r)
    BY <1>1, <1>3, <2>2, ResolveFields DEF SameVerdict
  <2>3. CASE OpaEvaluates(r) \/ OpaReplies(r) \/ OpaFails(r) \/ Decide(r) \/ Handle(r) \/ Close(r)
    BY <1>3, <2>3, AfterLimiter DEF SameVerdict
  <2> QED
    BY <2>1, <2>2, <2>3 DEF Chain
<1>4. \A q \in Requests : req[q].verdict = "allowed" => req'[q].verdict = "allowed"
  BY <1>1, <1>3 DEF Others
<1>5. \A k : Behind(k) \subseteq Behind(k)'
  BY <1>2, <1>4 DEF Behind
<1>6. req'[r].stage \in {"asking", "answered", "decided", "handling", "closing"} => r \in Behind(Key(r))'
  BY <1>1 DEF StageFollows, Behind
<1> QED
  BY <1>2, <1>5, <1>6

\* What stands behind a key at a time goes on standing behind it.
LEMMA ChainBacked ==
  ASSUME ServerTypeOK, WindowsInOrder, StagesFollow, NEW r \in Requests, Chain(r), NEW k, NEW time
  PROVE  (Backed(k, time) => Backed(k, time)') /\ (StillBacked(k, time) => StillBacked(k, time)')
<1>1. UNCHANGED <<engine, held>>
  BY ChainFrame DEF Frame
<1>2. /\ \A q \in Requests : Input(q)' = Input(q)
      /\ Behind(k) \subseteq Behind(k)' /\ Behind(k) \subseteq Requests
  BY ChainBehind DEF Behind
<1>3. ASSUME NEW q \in Requests
      PROVE  /\ Evaluated(Input(q), time) => Evaluated(Input(q), time)'
             /\ Justified(Input(q), time) => Justified(Input(q), time)'
  BY <1>1, <1>2 DEF Evaluated, Justified, PolicyAllowed
<1> QED
  BY <1>2, <1>3 DEF Backed, StillBacked

LEMMA ChainAllows ==
  ASSUME ServerTypeOK, WindowsInOrder, StagesFollow, HeldNow, AllowsFromPolicy,
         NEW r \in Requests, Chain(r)
  PROVE  AllowsFromPolicy'
<1>1. /\ req[r] \in ReqRecords /\ Input(r) \in Callers /\ Key(r) \in Keys /\ StageFollows(r)
      /\ AllowFromPolicy(r) /\ now \in 0..MaxTime /\ MaxTime \in Nat /\ PolicyTtl \in Nat /\ PolicyTimeout \in Nat
  BY ServerAssumption DEF ServerTypeOK, ReqRecords, Input, Key, Keys, StagesFollow, AllowsFromPolicy
<1>2. /\ req' \in [Requests -> ReqRecords] /\ Others(r) /\ Same(r)
      /\ UNCHANGED <<now, engine, policy, held>>
  BY ChainStages, ChainFrame DEF Frame
<1>3. Key(r)' = Key(r) /\ Input(r)' = Input(r)
  BY <1>2 DEF Same, Input, Key
<1>4. ASSUME NEW q \in Requests, q # r
      PROVE  AllowFromPolicy(q)'
  <2>1. AllowFromPolicy(q) /\ req'[q] = req[q] /\ Key(q)' = Key(q) /\ Input(q)' = Input(q)
    BY <1>2, <1>4 DEF AllowsFromPolicy, Others, Input, Key
  <2>2. PICK k, time : k = Key(q) /\ time = req[q].decidedAt
    OBVIOUS
  <2>3. StillBacked(k, time) => StillBacked(k, time)'
    BY ChainBacked
  <2> QED
    BY <1>2, <2>1, <2>2, <2>3 DEF AllowFromPolicy, PolicyAllowed, StillBacked
<1>5. ASSUME AllowFromPolicy(r)', \A k \in Keys : DecisionFromPolicy(k)'
      PROVE  AllowsFromPolicy'
  BY <1>4, <1>5 DEF AllowsFromPolicy
<1>6. ASSUME NEW k \in Keys, decisions'[k] = decisions[k]
      PROVE  DecisionFromPolicy(k)'
  <2>1. PICK time : time = decisions[k].fetchedAt
    OBVIOUS
  <2>2. DecisionFromPolicy(k) /\ (Backed(k, time) => Backed(k, time)')
    BY ChainBacked DEF AllowsFromPolicy
  <2> QED
    BY <1>2, <1>6, <2>1, <2>2 DEF DecisionFromPolicy, Backed
<1>7. ASSUME NEW allow \in BOOLEAN, Remember(r, allow), allow => Backed(Key(r), now)'
      PROVE  \A k \in Keys : DecisionFromPolicy(k)'
  <2>1. SUFFICES ASSUME NEW k \in Keys, decisions'[k] # decisions[k]
                 PROVE  DecisionFromPolicy(k)'
    BY <1>6
  <2>2. k = Key(r) /\ decisions'[k] = [allow |-> allow, fetchedAt |-> now]
    BY <1>7, <2>1 DEF Remember, ServerTypeOK
  <2> QED
    BY <1>1, <1>2, <1>3, <1>7, <2>2 DEF DecisionFromPolicy, Backed
<1>8. ASSUME Evaluated(Input(r), now), req'[r].stage \in {"asking", "answered", "decided"}
      PROVE  Backed(Key(r), now)' /\ StillBacked(Key(r), now)'
  <2>1. r \in Behind(Key(r))'
    BY <1>8, ChainBehind
  <2>2. now \in 0..now /\ Justified(Input(r), now)
    BY <1>1, <1>8, EvaluatedJustified
  <2>3. Evaluated(Input(r), now)' /\ Justified(Input(r), now)'
    BY <1>2, <1>3, <1>8, <2>2 DEF Evaluated, Justified, PolicyAllowed
  <2> QED
    BY <2>1, <2>3 DEF Backed, StillBacked
<1>9. CASE ResolveCached(r) \/ ResolveFetch(r) \/ ResolveFill(r) \/ Limited(r)
  <2>1. UNCHANGED decisions
    BY <1>9 DEF ResolveCached, ResolveFetch, ResolveFill, Limited
  <2>2. ~req'[r].allow /\ req'[r].stage \notin {"asking", "answered"}
    BY <1>1, <1>9, BeforeEngine
  <2> QED
    BY <1>5, <1>6, <2>1, <2>2 DEF AllowFromPolicy
<1>10. CASE Authorize(r)
  <2>1. req[r].stage = "limiting" /\ req[r].as \in TenantValues /\ ~req[r].allow
    BY <1>1, <1>10 DEF Authorize, StageFollows
  <2>2. FromCache(r) \/ FromRules(r) \/ AsksOpa(r)
    BY <1>10, <2>1, AuthorizeFields
  <2>3. CASE FromCache(r)
    <3>1. PICK k, entry : k = Key(r) /\ entry = decisions[k]
      OBVIOUS
    <3>2. /\ entry \in [allow : BOOLEAN, fetchedAt : Nat] /\ entry.fetchedAt <= now
          /\ now - entry.fetchedAt < PolicyTtl
          /\ entry.allow => Backed(k, entry.fetchedAt)
      BY <1>1, <2>3, <3>1
      DEF FromCache, CachedDecision, ServerTypeOK, AllowsFromPolicy, DecisionFromPolicy
    <3>3. ASSUME entry.allow PROVE StillBacked(k, now)
      <4>1. entry.fetchedAt \in 0..now /\ now \in 0..now
        BY <1>1, <3>2
      <4>2. PICK q \in Behind(k) : Evaluated(Input(q), entry.fetchedAt)
        BY <3>2, <3>3 DEF Backed
      <4>3. Justified(Input(q), now)
        BY <1>1, <3>2, <4>1, <4>2, EvaluatedJustified
      <4> QED
        BY <4>2, <4>3 DEF StillBacked
    <3>4. /\ req'[r].allow = entry.allow /\ req'[r].decidedAt = now /\ req'[r].stage = "decided"
          /\ UNCHANGED decisions
      BY <2>3, <3>1 DEF FromCache, Goes
    <3>5. PICK time : time = now
      OBVIOUS
    <3>6. entry.allow => StillBacked(k, time)'
      BY <3>3, <3>5, ChainBacked
    <3>7. AllowFromPolicy(r)'
      BY <1>1, <1>2, <1>3, <3>1, <3>4, <3>5, <3>6 DEF AllowFromPolicy, StillBacked
    <3> QED
      BY <1>5, <1>6, <3>4, <3>7
  <2>4. CASE FromRules(r)
    <3>1. /\ EmbeddedDecision(Input(r)) \in BOOLEAN /\ Remember(r, EmbeddedDecision(Input(r)))
          /\ engine = "embedded"
          /\ req'[r].allow = EmbeddedDecision(Input(r)) /\ req'[r].decidedAt = now
          /\ req'[r].stage = "decided"
      BY <2>4 DEF FromRules, Goes, EmbeddedDecision, Evaluate
    <3>2. EmbeddedDecision(Input(r)) => Backed(Key(r), now)' /\ StillBacked(Key(r), now)'
      BY <1>8, <3>1 DEF Evaluated
    <3>3. AllowFromPolicy(r)'
      BY <1>1, <1>2, <1>3, <3>1, <3>2 DEF AllowFromPolicy
    <3> QED
      BY <1>5, <1>7, <3>1, <3>2, <3>3
  <2>5. CASE AsksOpa(r)
    <3>1. /\ UNCHANGED decisions /\ engine = "remote" /\ req'[r].stage = "asking"
          /\ req'[r].askedAt = now /\ ~req'[r].allow
      BY <2>1, <2>5 DEF AsksOpa, Goes, SameDecision
    <3>2. AllowFromPolicy(r)'
      BY <1>1, <1>2, <3>1 DEF AllowFromPolicy
    <3> QED
      BY <1>5, <1>6, <3>1, <3>2
  <2> QED
    BY <2>2, <2>3, <2>4, <2>5
<1>11. CASE OpaEvaluates(r)
  <2>1. UNCHANGED decisions /\ req[r].stage = "asking"
    BY <1>11 DEF OpaEvaluates
  <2>2. /\ req'[r].stage = "answered" /\ req'[r].askedAt = req[r].askedAt
        /\ (req'[r].allow => Input(r) \in policy)
    BY <1>11, OpaFields DEF Goes
  <2>3. engine = "remote" /\ req[r].askedAt \in 0..now /\ now <= req[r].askedAt + PolicyTimeout
    BY <1>1, <2>1 DEF AllowFromPolicy, ReqRecords
  <2>4. req'[r].allow => PolicyAllowed(Input(r), now) /\ now \in req[r].askedAt..now
    BY <1>1, <2>2, <2>3 DEF PolicyAllowed, HeldNow
  <2>5. AllowFromPolicy(r)'
    BY <1>1, <1>2, <1>3, <2>2, <2>3, <2>4 DEF AllowFromPolicy, PolicyAllowed
  <2> QED
    BY <1>5, <1>6, <2>1, <2>5
<1>12. CASE OpaReplies(r)
  <2>1. req[r].stage = "answered" /\ Remember(r, req[r].allow) /\ req[r].allow \in BOOLEAN
    BY <1>1, <1>12 DEF OpaReplies, ReqRecords
  <2>2. req'[r].stage = "decided" /\ req'[r].allow = req[r].allow /\ req'[r].decidedAt = now
    BY <1>12, OpaFields DEF Goes
  <2>3. req[r].allow => Backed(Key(r), now)' /\ StillBacked(Key(r), now)'
    BY <1>1, <1>8, <2>1, <2>2, AnswerEvaluated
  <2>4. AllowFromPolicy(r)'
    BY <1>1, <1>2, <1>3, <2>2, <2>3 DEF AllowFromPolicy
  <2> QED
    BY <1>5, <1>7, <2>1, <2>3, <2>4
<1>13. CASE OpaFails(r)
  <2>1. UNCHANGED decisions /\ ~req'[r].allow /\ req'[r].stage = "done"
    BY <1>13, OpaFields DEF OpaFails, Goes
  <2> QED
    BY <1>5, <1>6, <2>1 DEF AllowFromPolicy
<1>14. CASE Decide(r) \/ Handle(r) \/ Close(r)
  <2>1. UNCHANGED decisions /\ req[r].stage # "answered"
    BY <1>14 DEF Decide, Handle, Close
  <2>2. SameDecision(r) /\ req'[r].stage \in {"handling", "closing", "done"}
    BY <1>14, AfterLimiter
  <2>3. PICK k, time : k = Key(r) /\ time = req[r].decidedAt
    OBVIOUS
  <2>4. StillBacked(k, time) => StillBacked(k, time)'
    BY ChainBacked
  <2>5. AllowFromPolicy(r)'
    BY <1>1, <1>2, <1>3, <2>1, <2>2, <2>3, <2>4 DEF AllowFromPolicy, SameDecision, StillBacked
  <2> QED
    BY <1>5, <1>6, <2>1, <2>5
<1> QED
  BY <1>9, <1>10, <1>11, <1>12, <1>13, <1>14 DEF Chain

\* What was held at a time stays held at it, so what stood behind a key still does.
LEMMA ElsewhereBacked ==
  ASSUME ServerTypeOK, HeldGrows, UNCHANGED <<engine, req>>, NEW k, NEW time \in 0..now
  PROVE  (Backed(k, time) => Backed(k, time)') /\ (StillBacked(k, time) => StillBacked(k, time)')
<1>1. now \in 0..MaxTime /\ MaxTime \in Nat
  BY ServerAssumption DEF ServerTypeOK
<1>2. Behind(k)' = Behind(k) /\ \A q \in Behind(k) : Input(q)' = Input(q)
  BY DEF Behind, Input, Key
<1>3. ASSUME NEW c, NEW at \in 0..now, PolicyAllowed(c, at)
      PROVE  \E p \in held'[at].policies : c \in p
  BY <1>3 DEF PolicyAllowed, HeldGrows
<1>4. ASSUME Backed(k, time) PROVE Backed(k, time)'
  <2>1. PICK q \in Behind(k) : Evaluated(Input(q), time)
    BY <1>4 DEF Backed
  <2>2. Evaluated(Input(q), time)'
    <3>1. CASE engine = "embedded"
      BY <1>2, <2>1, <3>1 DEF Evaluated
    <3>2. CASE engine # "embedded"
      <4>1. PICK age \in 0..MaxTime :
              age <= PolicyTimeout /\ age <= time /\ PolicyAllowed(Input(q), time - age)
        BY <2>1, <3>2 DEF Evaluated
      <4>2. time - age \in 0..now
        BY <1>1, <4>1
      <4> QED
        BY <1>2, <1>3, <3>2, <4>1, <4>2 DEF Evaluated, PolicyAllowed
    <3> QED
      BY <3>1, <3>2
  <2> QED
    BY <1>2, <2>1, <2>2 DEF Backed
<1>5. ASSUME StillBacked(k, time) PROVE StillBacked(k, time)'
  <2>1. PICK q \in Behind(k) : Justified(Input(q), time)
    BY <1>5 DEF StillBacked
  <2>2. Justified(Input(q), time)'
    <3>1. CASE engine = "embedded"
      BY <1>2, <2>1, <3>1 DEF Justified
    <3>2. CASE engine # "embedded"
      <4>1. PICK age \in 0..MaxTime : /\ age < PolicyTtl + PolicyTimeout \/ age <= PolicyTimeout
                                      /\ age <= time /\ PolicyAllowed(Input(q), time - age)
        BY <2>1, <3>2 DEF Justified, PolicyAllowed
      <4>2. time - age \in 0..now
        BY <1>1, <4>1
      <4> QED
        BY <1>2, <1>3, <3>2, <4>1, <4>2 DEF Justified
    <3> QED
      BY <3>1, <3>2
  <2> QED
    BY <1>2, <2>1, <2>2 DEF StillBacked
<1> QED
  BY <1>4, <1>5

LEMMA ElsewhereAllows ==
  ASSUME ServerTypeOK, HeldNow, AllowsFromPolicy, Elsewhere
  PROVE  AllowsFromPolicy'
<1>1. /\ now \in 0..MaxTime /\ MaxTime \in Nat /\ PolicyTimeout \in Nat
      /\ HeldGrows /\ UNCHANGED <<engine, decisions, req>>
      /\ now' = now \/ (Tick /\ now' = now + 1)
  BY ServerAssumption, ElsewhereTypes DEF ServerTypeOK, Tick
<1>2. ASSUME NEW k \in Keys
      PROVE  DecisionFromPolicy(k)'
  <2>1. CASE decisions[k] # Absent
    <3>1. PICK time : time = decisions[k].fetchedAt
      OBVIOUS
    <3>2. time \in 0..now /\ (decisions[k].allow => Backed(k, time))
      BY <1>1, <2>1, <3>1 DEF AllowsFromPolicy, DecisionFromPolicy, ServerTypeOK
    <3>3. Backed(k, time) => Backed(k, time)'
      BY <1>1, <3>2, ElsewhereBacked
    <3> QED
      BY <1>1, <3>1, <3>2, <3>3 DEF DecisionFromPolicy, Backed
  <2> QED
    BY <1>1, <2>1 DEF DecisionFromPolicy
<1>3. ASSUME NEW r \in Requests
      PROVE  AllowFromPolicy(r)'
  <2>1. /\ AllowFromPolicy(r) /\ UNCHANGED <<Key(r), Input(r)>>
        /\ req[r].askedAt \in Nat /\ req[r].decidedAt \in Nat
    BY <1>1 DEF AllowsFromPolicy, Input, Key, ServerTypeOK, ReqRecords
  <2>2. req[r].stage \in {"asking", "answered"} =>
          engine' = "remote" /\ req[r].askedAt <= now' /\ now' <= req[r].askedAt + PolicyTimeout
    BY <1>1, <2>1 DEF AllowFromPolicy, Tick, TimerDue
  <2>3. ASSUME req[r].stage = "answered", req[r].allow
        PROVE  \E time \in req[r].askedAt..now' : \E p \in held'[time].policies : Input(r) \in p
    <3>1. PICK time \in req[r].askedAt..now : PolicyAllowed(Input(r), time)
      BY <2>1, <2>3 DEF AllowFromPolicy
    <3>2. time \in 0..now /\ time \in req[r].askedAt..now'
      BY <1>1, <2>1, <3>1
    <3> QED
      BY <1>1, <3>1, <3>2 DEF PolicyAllowed, HeldGrows
  <2>4. ASSUME req[r].stage # "answered", req[r].allow
        PROVE  req[r].decidedAt <= now' /\ StillBacked(Key(r), req[r].decidedAt)'
    <3>1. PICK k, time : k = Key(r) /\ time = req[r].decidedAt
      OBVIOUS
    <3>2. time \in 0..now /\ StillBacked(k, time)
      BY <1>1, <2>1, <2>4, <3>1 DEF AllowFromPolicy
    <3>3. StillBacked(k, time)'
      BY <1>1, <3>2, ElsewhereBacked
    <3> QED
      BY <1>1, <2>1, <3>1, <3>2, <3>3 DEF StillBacked
  <2> QED
    BY <1>1, <2>1, <2>2, <2>3, <2>4 DEF AllowFromPolicy, PolicyAllowed
<1> QED
  BY <1>2, <1>3 DEF AllowsFromPolicy

LEMMA InitFresh == Init => FreshInv
<1> SUFFICES ASSUME Init PROVE FreshInv
  OBVIOUS
<1>2. now = 0 /\ now \in 0..MaxTime /\ MaxTime \in Nat /\ 0 \in Nat
  BY ServerAssumption DEF Init
<1>3. ASSUME NEW c \in Callers
      PROVE  Unseen(c) \in ReqRecords
  BY DEF Unseen, ReqRecords, ReqStages, NoReset
<1>4. /\ req \in [Requests -> ReqRecords]
      /\ \A r \in Requests : \E c \in Callers : req[r] = Unseen(c)
  BY <1>3 DEF Init
<1>5. NewWindow \in WindowType
  BY DEF NewWindow, WindowType
<1>6. store \in Stores /\ policy \in Policies \union {{}} /\ engine \in {"embedded", "remote"}
  BY ServerAssumption DEF Init, Stores
<1>7. held \in [0..MaxTime -> HeldType] /\ HeldNow
  <2> DEFINE at(t) == IF t = 0 THEN [tenants |-> {store}, policies |-> {policy}]
                      ELSE [tenants |-> {}, policies |-> {}]
  <2>1. held = [t \in 0..MaxTime |-> at(t)]
    BY DEF Init
  <2>2. \A t \in 0..MaxTime : at(t) \in HeldType
    BY <1>6 DEF HeldType
  <2>3. at(0).tenants = {store} /\ at(0).policies = {policy}
    OBVIOUS
  <2> HIDE DEF at
  <2> QED
    BY <1>2, <2>1, <2>2, <2>3 DEF HeldNow
<1>8. ServerTypeOK
  BY <1>2, <1>4, <1>5, <1>6, <1>7 DEF ServerTypeOK, Init
<1>9. StagesFollow
  BY <1>4 DEF StagesFollow, StageFollows, Unseen
<1>10. TenantsFromStore
  BY <1>4 DEF Init, TenantsFromStore, CacheFromStore, TenantFromStore, Unseen
<1>11. AllowsFromPolicy
  BY <1>4 DEF Init, AllowsFromPolicy, DecisionFromPolicy, AllowFromPolicy, Unseen
<1> QED
  BY <1>7, <1>8, <1>9, <1>10, <1>11 DEF FreshInv

\* Of the invariants on windows, this is the one the types need.
LEMMA StepFresh ==
  ASSUME FreshInv, WindowsInOrder, [Next]_vars
  PROVE  FreshInv'
<1>1. CASE \E r \in Requests : Chain(r)
  <2>1. PICK r \in Requests : Chain(r)
    BY <1>1
  <2>2. HeldNow'
    BY <2>1, ChainFrame DEF Frame, FreshInv, HeldNow
  <2> QED
    BY <2>1, <2>2, ChainTypes, ChainTenants, ChainAllows DEF FreshInv
<1>2. CASE Elsewhere
  <2>1. StagesFollow'
    BY <1>2, ElsewhereTypes DEF FreshInv, StagesFollow, StageFollows
  <2> QED
    BY <1>2, <2>1, ElsewhereTypes, ElsewhereTenants, ElsewhereAllows DEF FreshInv
<1> QED
  BY <1>1, <1>2 DEF Next, Elsewhere

-----------------------------------------------------------------------------
(* How many requests of a tenant are admitted.                             *)

\* What is left of a window after its first times have gone.
Rest(times, gone, kept) ==
  /\ gone \in 0..Len(times) /\ kept \in Seq(Nat) /\ Len(kept) = Len(times) - gone
  /\ \A i \in 1..Len(times) - gone : kept[i] = times[gone + i]

\* The times that have gone later are those that had gone before, and some more.
LEMMA GoneLater ==
  ASSUME NEW times \in Seq(Nat), NEW kept \in Seq(Nat), NEW gone \in Nat, Rest(times, gone, kept),
         NEW start \in Int, GoneAt(times, start, gone),
         NEW later \in Int, start <= later, NEW k \in Nat, GoneAt(kept, later, k)
  PROVE  gone + k \in 0..Len(times) /\ GoneAt(times, later, gone + k)
<1>1. /\ Len(times) \in Nat /\ Len(kept) = Len(times) - gone /\ gone \in 0..Len(times)
      /\ k \in 0..Len(kept) /\ \A i \in 1..Len(times) : times[i] \in Nat
  BY DEF Rest, GoneAt
<1>2. gone + k \in 0..Len(times)
  BY <1>1
<1>3. gone + k > 0 => times[gone + k] <= later
  <2>1. CASE k > 0
    <3>1. k \in 1..Len(times) - gone
      BY <1>1, <2>1
    <3>2. kept[k] = times[gone + k] /\ kept[k] <= later
      BY <2>1, <3>1 DEF Rest, GoneAt
    <3> QED
      BY <3>2
  <2>2. CASE k = 0
    <3>1. gone > 0 => times[gone] <= start /\ times[gone] \in Nat
      BY <1>1 DEF GoneAt
    <3>2. gone + k = gone
      BY <2>2
    <3> QED
      BY <3>1, <3>2
  <2> QED
    BY <2>1, <2>2
<1>4. gone + k < Len(times) => times[gone + k + 1] > later
  <2>1. SUFFICES ASSUME gone + k < Len(times) PROVE times[gone + k + 1] > later
    OBVIOUS
  <2>2. k + 1 \in 1..Len(times) - gone /\ k < Len(kept) /\ gone + (k + 1) = gone + k + 1
    BY <1>1, <2>1
  <2>3. kept[k + 1] = times[gone + (k + 1)] /\ kept[k + 1] > later
    BY <2>2 DEF Rest, GoneAt
  <2> QED
    BY <2>2, <2>3
<1> QED
  BY <1>2, <1>3, <1>4 DEF GoneAt

\* A window to which the time is appended.
LEMMA GoneAppended ==
  ASSUME NEW kept \in Seq(Nat), NEW time \in Nat, \A i \in 1..Len(kept) : kept[i] <= time,
         NEW start \in Int, NEW k \in Nat, GoneAt(Append(kept, time), start, k)
  PROVE  \/ start >= time /\ k = Len(kept) + 1
         \/ start < time /\ k \in 0..Len(kept) /\ GoneAt(kept, start, k)
<1> DEFINE n == Len(kept)
<1>1. PICK times : times = Append(kept, time)
  OBVIOUS
<1>2. /\ n \in Nat /\ Len(times) = n + 1 /\ times[n + 1] = time
      /\ \A i \in 1..n : times[i] = kept[i] /\ kept[i] \in Nat
  BY <1>1
<1>3. k \in 0..n + 1 /\ (k > 0 => times[k] <= start) /\ (k < n + 1 => times[k + 1] > start)
  BY <1>1, <1>2 DEF GoneAt
<1> HIDE DEF n
<1>4. CASE k = n + 1
  BY <1>2, <1>3, <1>4 DEF n
<1>5. CASE k \in 0..n
  <2>1. k + 1 \in 1..n + 1 /\ times[k + 1] > start
    BY <1>2, <1>3, <1>5
  <2>2. times[k + 1] <= time /\ times[k + 1] \in Nat
    <3>1. CASE k + 1 = n + 1
      BY <1>2, <3>1
    <3>2. CASE k + 1 \in 1..n
      BY <1>2, <3>2 DEF n
    <3> QED
      BY <1>2, <2>1, <3>1, <3>2
  <2>3. start < time
    BY <2>1, <2>2
  <2>4. k > 0 => kept[k] <= start
    BY <1>2, <1>3, <1>5
  <2>5. k < n => kept[k + 1] > start
    BY <1>2, <1>5, <2>1
  <2> QED
    BY <1>5, <2>3, <2>4, <2>5 DEF GoneAt, n
<1> QED
  BY <1>2, <1>3, <1>4, <1>5

\* Nothing that the windows speak of changes, except the time.
Quiet ==
  /\ UNCHANGED windows /\ now' \in {now, now + 1}
  /\ \A q \in Requests :
       /\ req'[q].caller = req[q].caller /\ req'[q].verdict = req[q].verdict
       /\ req'[q].judgedAt = req[q].judgedAt /\ req'[q].resetAt = req[q].resetAt
       /\ req[q].verdict # "none" => req'[q].as = req[q].as

LEMMA QuietWindows ==
  ASSUME ServerTypeOK, WindowInv, Quiet
  PROVE  WindowInv'
<1>1. now \in Nat /\ now' \in Nat /\ now <= now' /\ WindowMs \in Nat /\ windows' = windows
  BY ServerAssumption, GuardsAssumption DEF ServerTypeOK, Quiet
<1>2. \A t : Admitted(t)' = Admitted(t)
  BY DEF Quiet, Admitted, TenantOf, Input
<1>3. \A t : \A q \in Admitted(t) :
        q \in Requests /\ req'[q].judgedAt = req[q].judgedAt /\ req'[q].as = req[q].as
  BY DEF Quiet, Admitted
<1>4. ASSUME NEW t, NEW end
      PROVE  AdmittedIn(t, end)' = AdmittedIn(t, end)
  BY <1>2, <1>3 DEF AdmittedIn
<1>5. ASSUME NEW t, NEW start
      PROVE  AdmittedAfter(t, start)' = AdmittedAfter(t, start)
  BY <1>2, <1>3 DEF AdmittedAfter
<1>6. (\A t \in Tenants : IsFiniteSet(Admitted(t)))'
  BY <1>2 DEF WindowInv
<1>7. WindowsInOrder'
  <2>1. ASSUME NEW t \in Tenants, NEW i \in 1..Len(windows[t].requests)
        PROVE  /\ windows[t].requests[i] <= now'
               /\ \E q \in Admitted(t)' : req'[q].judgedAt = windows[t].requests[i]
    <3>1. windows[t].requests[i] \in Nat /\ windows[t].requests[i] <= now
      BY <2>1 DEF ServerTypeOK, WindowType, WindowInv, WindowsInOrder
    <3>2. \E q \in Admitted(t) : req[q].judgedAt = windows[t].requests[i]
      BY <2>1 DEF WindowInv, WindowsInOrder
    <3> QED
      BY <1>1, <1>2, <1>3, <3>1, <3>2
  <2> QED
    BY <1>1, <2>1 DEF WindowInv, WindowsInOrder
<1>8. WindowsCount'
  <2>1. SUFFICES ASSUME NEW t \in Tenants, NEW start \in Int, now' <= start + WindowMs,
                        NEW k \in 0..Len(windows[t].requests), GoneAt(windows[t].requests, start, k)
                 PROVE  Cardinality(AdmittedAfter(t, start)') = Len(windows[t].requests) - k
    BY <1>1 DEF WindowsCount
  <2>2. now <= start + WindowMs
    BY <1>1, <2>1
  <2>3. Cardinality(AdmittedAfter(t, start)) = Len(windows[t].requests) - k
    BY <2>1, <2>2 DEF WindowInv, WindowsCount
  <2> QED
    BY <1>5, <2>3
<1>9. WindowsRoomy'
  <2>1. SUFFICES ASSUME NEW r \in Requests, req'[r].verdict = "allowed"
                 PROVE  /\ MaxConcurrent > 0
                        /\ \E q \in Admitted(TenantOf(r))' :
                             /\ req'[q].judgedAt = req'[r].judgedAt
                             /\ Cardinality(AdmittedIn(TenantOf(r), req[r].judgedAt)') <= req'[q].as.limit
    BY DEF WindowsRoomy, AdmittedIn
  <2>2. r \in Requests /\ req[r].verdict = "allowed" /\ TenantOf(r)' = TenantOf(r)
        /\ req'[r].judgedAt = req[r].judgedAt
    BY <2>1 DEF Quiet, TenantOf, Input
  <2>3. /\ MaxConcurrent > 0
        /\ \E q \in Admitted(TenantOf(r)) :
             /\ req[q].judgedAt = req[r].judgedAt
             /\ Cardinality(AdmittedIn(TenantOf(r), req[r].judgedAt)) <= req[q].as.limit
    BY <2>2 DEF WindowInv, WindowsRoomy
  <2>4. AdmittedIn(TenantOf(r), req[r].judgedAt)' = AdmittedIn(TenantOf(r), req[r].judgedAt)
    BY <1>2, <1>3, <2>2 DEF AdmittedIn
  <2>5. Admitted(TenantOf(r))' = Admitted(TenantOf(r))
    BY <1>2, <2>2
  <2> QED
    BY <1>3, <2>2, <2>3, <2>4, <2>5
<1>10. ResetsLeave'
  <2>1. SUFFICES ASSUME NEW r \in Requests, req[r].verdict = "rate_limit", req[r].resetAt # NoReset
                 PROVE  \E o \in Admitted(TenantOf(r))' :
                          /\ req'[o].judgedAt + WindowMs = req[r].resetAt
                          /\ req'[o].judgedAt + WindowMs > req[r].judgedAt
    BY DEF ResetsLeave, Quiet
  <2>2. Admitted(TenantOf(r))' = Admitted(TenantOf(r))
    BY DEF Quiet, Admitted, TenantOf, Input
  <2> QED
    BY <1>3, <2>1, <2>2 DEF WindowInv, ResetsLeave
<1> QED
  BY <1>6, <1>7, <1>8, <1>9, <1>10 DEF WindowInv

LEMMA StepQuiet ==
  ASSUME FreshInv, WindowsInOrder,
         \/ \E r \in Requests : Chain(r) /\ ~Limited(r) /\ ~Authorize(r)
         \/ Elsewhere
  PROVE  Quiet
<1>1. CASE \E r \in Requests : Chain(r) /\ ~Limited(r) /\ ~Authorize(r)
  <2>1. PICK r \in Requests : Chain(r) /\ ~Limited(r) /\ ~Authorize(r)
    BY <1>1
  <2>2. Others(r) /\ Same(r) /\ now' = now /\ StageFollows(r) /\ ServerTypeOK
    BY <2>1, ChainStages, ChainFrame DEF Frame, FreshInv, StagesFollow
  <2>3. UNCHANGED windows
    BY <2>1 DEF Chain, ResolveCached, ResolveFetch, ResolveFill, OpaEvaluates, OpaReplies,
                OpaFails, Decide, Handle, Close
  <2>4. SameVerdict(r) /\ (req[r].verdict # "none" => SameTenant(r))
    <3>1. CASE ResolveCached(r) \/ ResolveFetch(r) \/ ResolveFill(r)
      <4>1. req[r].verdict = "none"
        BY <2>2, <3>1 DEF StageFollows, ResolveCached, ResolveFetch, ResolveFill
      <4> QED
        BY <2>2, <3>1, <4>1, ResolveFields
    <3>2. CASE ~(ResolveCached(r) \/ ResolveFetch(r) \/ ResolveFill(r))
      BY <2>1, <2>2, <3>2, AfterLimiter DEF Chain
    <3> QED
      BY <3>1, <3>2
  <2> QED
    BY <2>2, <2>3, <2>4 DEF Quiet, Others, Same, SameVerdict, SameTenant
<1>2. CASE Elsewhere
  BY <1>2, ElsewhereTypes DEF FreshInv, Quiet, Tick
<1> QED
  BY <1>1, <1>2

\* A request the rate limiter has seen now.
LEMMA JudgedStep ==
  ASSUME FreshInv, WindowInv, NEW r \in Requests, Limited(r) \/ Authorize(r)
  PROVE  /\ Others(r) /\ Same(r) /\ SameTenant(r) /\ JudgedNow(r) /\ UNCHANGED now
         /\ r \notin Admitted(TenantOf(r)) /\ req[r].as \in TenantValues
         /\ RateAnswer(r).verdict \in {"allowed", "rate_limit", "concurrent_limit"}
         /\ Limited(r) <=> RateAnswer(r).verdict # "allowed"
         /\ RateAnswer(r).verdict = "allowed" <=> Len(Kept(r)) < req[r].as.limit /\ MaxConcurrent > 0
         /\ windows' = [windows EXCEPT ![TenantOf(r)] = RateAnswer(r).window]
         /\ RateAnswer(r).window.requests =
              IF RateAnswer(r).verdict = "allowed" THEN Append(Kept(r), now) ELSE Kept(r)
         /\ RateAnswer(r).resetAt # NoReset =>
              Len(Kept(r)) > 0 /\ RateAnswer(r).resetAt = Kept(r)[1] + WindowMs
<1>1. ServerTypeOK /\ WindowsInOrder /\ StageFollows(r)
  BY DEF FreshInv, WindowInv, StagesFollow
<1>2. req[r].stage = "limiting" /\ UNCHANGED now
  BY DEF Limited, Authorize
<1>3. req[r].as \in TenantValues /\ req[r].verdict = "none"
  BY <1>1, <1>2 DEF StageFollows
<1>4. Others(r) /\ Same(r) /\ SameTenant(r) /\ JudgedNow(r)
  BY <1>1, <1>3, LimitedFields, AuthorizeFields
<1>5. /\ windows' = [windows EXCEPT ![TenantOf(r)] = RateAnswer(r).window]
      /\ Limited(r) <=> RateAnswer(r).verdict # "allowed"
  BY DEF Limited, Authorize
<1>6. r \notin Admitted(TenantOf(r))
  BY <1>3 DEF Admitted
<1> QED
  BY <1>1, <1>2, <1>3, <1>4, <1>5, <1>6, RateLemma

\* What is left of the window of its tenant.
LEMMA KeptLemma ==
  ASSUME FreshInv, WindowsInOrder, NEW r \in Requests
  PROVE  /\ TenantOf(r) \in Tenants /\ windows[TenantOf(r)].requests \in Seq(Nat) /\ Kept(r) \in Seq(Nat)
         /\ \A i, j \in 1..Len(Kept(r)) : i <= j => Kept(r)[i] <= Kept(r)[j]
         /\ \A i \in 1..Len(Kept(r)) :
              /\ now - WindowMs < Kept(r)[i] /\ Kept(r)[i] <= now
              /\ \E q \in Admitted(TenantOf(r)) : req[q].judgedAt = Kept(r)[i]
         /\ \E gone \in Nat : /\ Rest(windows[TenantOf(r)].requests, gone, Kept(r))
                              /\ GoneAt(windows[TenantOf(r)].requests, now - WindowMs, gone)
<1>1. PICK times : times = windows[TenantOf(r)].requests
  OBVIOUS
<1>2. PICK kept : kept = Kept(r)
  OBVIOUS
<1>3. PICK start : start = now - WindowMs
  OBVIOUS
<1>4. /\ TenantOf(r) \in Tenants /\ times \in Seq(Nat) /\ start \in Int /\ now \in Nat
      /\ \A i \in 1..Len(times) : times[i] \in Nat
  BY <1>1, <1>3, ServerAssumption, GuardsAssumption, SMTT(60)
  DEF FreshInv, ServerTypeOK, WindowType, ReqRecords, TenantOf, Input, Tenants
<1>5. /\ Ordered(times)
      /\ \A i \in 1..Len(times) : times[i] <= now /\ \E q \in Admitted(TenantOf(r)) : req[q].judgedAt = times[i]
  BY <1>1, <1>4 DEF WindowsInOrder, Ordered
<1>6. kept = After(times, start)
  BY <1>1, <1>2, <1>3 DEF Kept
<1>7. PICK gone \in 0..Len(times) :
        /\ GoneAt(times, start, gone)
        /\ kept \in Seq(Nat) /\ Len(kept) = Len(times) - gone
        /\ \A i \in 1..Len(times) - gone : kept[i] = times[gone + i]
  BY <1>4, <1>5, <1>6, AfterLemma
<1>8. \A i \in 1..Len(kept) : gone + i \in 1..Len(times) /\ kept[i] = times[gone + i]
  BY <1>4, <1>7
<1>9. \A i, j \in 1..Len(kept) : i <= j => kept[i] <= kept[j]
  <2>1. SUFFICES ASSUME NEW i \in 1..Len(kept), NEW j \in 1..Len(kept), i <= j
                 PROVE  kept[i] <= kept[j]
    OBVIOUS
  <2>2. gone + i <= gone + j
    BY <1>4, <1>7, <2>1
  <2>3. times[gone + i] <= times[gone + j]
    BY <1>5, <1>8, <2>2 DEF Ordered
  <2> QED
    BY <1>8, <2>3
<1>10. \A i \in 1..Len(kept) : start < kept[i]
  <2>1. SUFFICES ASSUME NEW i \in 1..Len(kept) PROVE start < kept[i]
    OBVIOUS
  <2>2. 1 \in 1..Len(kept) /\ kept[1] <= kept[i] /\ gone < Len(times)
    BY <1>4, <1>7, <1>9
  <2>3. kept[1] = times[gone + 1] /\ times[gone + 1] > start /\ kept[i] \in Nat /\ kept[1] \in Nat
    BY <1>4, <1>7, <1>8, <2>2 DEF GoneAt
  <2> QED
    BY <1>4, <2>2, <2>3
<1>11. \A i \in 1..Len(kept) : kept[i] <= now /\ \E q \in Admitted(TenantOf(r)) : req[q].judgedAt = kept[i]
  BY <1>5, <1>8
<1>12. gone \in Nat /\ Rest(times, gone, kept)
  BY <1>4, <1>7 DEF Rest
<1> QED
  BY <1>1, <1>2, <1>3, <1>4, <1>7, <1>9, <1>10, <1>11, <1>12

\* A refusal only forgets what has left the window.
LEMMA RefusedWindows ==
  ASSUME FreshInv, WindowInv, NEW r \in Requests, Limited(r)
  PROVE  WindowInv'
<1>1. /\ Others(r) /\ Same(r) /\ JudgedNow(r) /\ now' = now
      /\ r \notin Admitted(TenantOf(r)) /\ req'[r].verdict # "allowed"
      /\ windows' = [windows EXCEPT ![TenantOf(r)] = RateAnswer(r).window]
      /\ RateAnswer(r).window.requests = Kept(r)
      /\ RateAnswer(r).resetAt # NoReset =>
           Len(Kept(r)) > 0 /\ RateAnswer(r).resetAt = Kept(r)[1] + WindowMs
  BY JudgedStep DEF JudgedNow
<1>2. /\ TenantOf(r) \in Tenants /\ windows[TenantOf(r)].requests \in Seq(Nat) /\ Kept(r) \in Seq(Nat)
      /\ \A i, j \in 1..Len(Kept(r)) : i <= j => Kept(r)[i] <= Kept(r)[j]
      /\ \A i \in 1..Len(Kept(r)) :
           /\ now - WindowMs < Kept(r)[i] /\ Kept(r)[i] <= now
           /\ \E q \in Admitted(TenantOf(r)) : req[q].judgedAt = Kept(r)[i]
  BY KeptLemma DEF WindowInv
<1>3. PICK gone \in Nat : /\ Rest(windows[TenantOf(r)].requests, gone, Kept(r))
                          /\ GoneAt(windows[TenantOf(r)].requests, now - WindowMs, gone)
  BY KeptLemma DEF WindowInv
<1>4. now \in Nat /\ WindowMs \in Nat /\ now - WindowMs \in Int
  BY ServerAssumption, GuardsAssumption DEF FreshInv, ServerTypeOK
<1>5. /\ \A t \in Tenants : t # TenantOf(r) => windows'[t] = windows[t]
      /\ windows'[TenantOf(r)].requests = Kept(r)
  BY <1>1, <1>2 DEF FreshInv, ServerTypeOK
<1>6. \A t : Admitted(t)' = Admitted(t)
  BY <1>1 DEF Admitted, TenantOf, Input, Others, Same
<1>7. \A t : \A q \in Admitted(t) : q \in Requests /\ req'[q] = req[q]
  BY <1>1 DEF Admitted, Others
<1>8. (\A t \in Tenants : IsFiniteSet(Admitted(t)))'
  BY <1>6 DEF WindowInv
<1>9. WindowsInOrder'
  <2>1. ASSUME NEW t \in Tenants, NEW times, times = windows'[t].requests
        PROVE  /\ \A i, j \in 1..Len(times) : i <= j => times[i] <= times[j]
               /\ \A i \in 1..Len(times) : times[i] <= now /\ \E q \in Admitted(t) : req[q].judgedAt = times[i]
    <3>1. CASE t = TenantOf(r)
      BY <1>2, <1>5, <2>1, <3>1
    <3>2. CASE t # TenantOf(r)
      BY <1>5, <2>1, <3>2 DEF WindowInv, WindowsInOrder
    <3> QED
      BY <3>1, <3>2
  <2>2. ASSUME NEW t, NEW time, \E q \in Admitted(t) : req[q].judgedAt = time
        PROVE  \E q \in Admitted(t)' : req'[q].judgedAt = time
    BY <1>6, <1>7, <2>2
  <2>3. ASSUME NEW t \in Tenants
        PROVE  /\ \A i, j \in 1..Len(windows'[t].requests) :
                    i <= j => windows'[t].requests[i] <= windows'[t].requests[j]
               /\ \A i \in 1..Len(windows'[t].requests) :
                    /\ windows'[t].requests[i] <= now'
                    /\ \E q \in Admitted(t)' : req'[q].judgedAt = windows'[t].requests[i]
    <3>1. PICK times : times = windows'[t].requests
      OBVIOUS
    <3>2. \A i \in 1..Len(times) : times[i] <= now' /\ \E q \in Admitted(t)' : req'[q].judgedAt = times[i]
      <4>1. SUFFICES ASSUME NEW i \in 1..Len(times)
                     PROVE  times[i] <= now' /\ \E q \in Admitted(t)' : req'[q].judgedAt = times[i]
        OBVIOUS
      <4>2. times[i] <= now
        BY <2>1, <3>1
      <4>3. \E q \in Admitted(t) : req[q].judgedAt = times[i]
        BY <2>1, <3>1
      <4>4. \E q \in Admitted(t)' : req'[q].judgedAt = times[i]
        BY <2>2, <4>3
      <4> QED
        BY <1>1, <4>2, <4>4
    <3> QED
      BY <2>1, <3>1, <3>2
  <2> QED
    BY <2>3 DEF WindowsInOrder
<1>10. WindowsCount'
  <2>1. SUFFICES ASSUME NEW t \in Tenants, NEW start \in Int, now <= start + WindowMs,
                        NEW k \in 0..Len(windows'[t].requests), GoneAt(windows'[t].requests, start, k)
                 PROVE  Cardinality(AdmittedAfter(t, start)') = Len(windows'[t].requests) - k
    BY <1>1 DEF WindowsCount
  <2>2. AdmittedAfter(t, start)' = AdmittedAfter(t, start)
    BY <1>6, <1>7 DEF AdmittedAfter
  <2>3. CASE t # TenantOf(r)
    BY <1>5, <2>1, <2>2, <2>3 DEF WindowInv, WindowsCount
  <2>4. CASE t = TenantOf(r)
    <3>1. PICK times : times = windows[t].requests
      OBVIOUS
    <3>2. PICK kept : kept = Kept(r)
      OBVIOUS
    <3>3. /\ times \in Seq(Nat) /\ kept \in Seq(Nat) /\ Rest(times, gone, kept) /\ GoneAt(times, now - WindowMs, gone)
          /\ k \in Nat /\ k \in 0..Len(kept) /\ GoneAt(kept, start, k) /\ windows'[t].requests = kept
      BY <1>2, <1>3, <1>5, <2>1, <2>4, <3>1, <3>2
    <3>4. now - WindowMs <= start
      BY <1>4, <2>1
    <3>5. gone + k \in 0..Len(times) /\ GoneAt(times, start, gone + k)
      BY <1>4, <3>3, <3>4, GoneLater
    <3>6. Cardinality(AdmittedAfter(t, start)) = Len(times) - (gone + k)
      BY <2>1, <3>1, <3>5 DEF WindowInv, WindowsCount
    <3>7. Len(kept) = Len(times) - gone /\ Len(times) \in Nat
      BY <3>3 DEF Rest
    <3> QED
      BY <2>2, <3>3, <3>6, <3>7
  <2> QED
    BY <2>3, <2>4
<1>11. WindowsRoomy'
  <2>1. SUFFICES ASSUME NEW x \in Requests, req'[x].verdict = "allowed"
                 PROVE  /\ MaxConcurrent > 0
                        /\ \E q \in Admitted(TenantOf(x))' :
                             /\ req'[q].judgedAt = req'[x].judgedAt
                             /\ Cardinality(AdmittedIn(TenantOf(x), req[x].judgedAt)') <= req'[q].as.limit
    BY DEF WindowsRoomy, AdmittedIn
  <2>2. x # r /\ req'[x] = req[x] /\ TenantOf(x)' = TenantOf(x)
    BY <1>1, <2>1 DEF Others, TenantOf, Input
  <2>3. AdmittedIn(TenantOf(x), req[x].judgedAt)' = AdmittedIn(TenantOf(x), req[x].judgedAt)
    BY <1>6, <1>7, <2>2 DEF AdmittedIn
  <2>4. Admitted(TenantOf(x))' = Admitted(TenantOf(x))
    BY <1>6, <2>2
  <2> QED
    BY <1>7, <2>1, <2>2, <2>3, <2>4 DEF WindowInv, WindowsRoomy
<1>12. ResetsLeave'
  <2>1. SUFFICES ASSUME NEW x \in Requests, req'[x].verdict = "rate_limit", req'[x].resetAt # NoReset
                 PROVE  \E o \in Admitted(TenantOf(x))' :
                          /\ req'[o].judgedAt + WindowMs = req'[x].resetAt
                          /\ req'[o].judgedAt + WindowMs > req'[x].judgedAt
    BY DEF ResetsLeave
  <2>2. TenantOf(x)' = TenantOf(x) /\ Admitted(TenantOf(x))' = Admitted(TenantOf(x))
    BY <1>1 DEF Others, Same, TenantOf, Input, Admitted
  <2>3. CASE x = r
    <3>1. PICK first : first = Kept(r)[1]
      OBVIOUS
    <3>2. 1 \in 1..Len(Kept(r)) /\ req'[r].resetAt = first + WindowMs /\ req'[r].judgedAt = now
      BY <1>1, <1>2, <2>1, <2>3, <3>1 DEF JudgedNow
    <3>3. PICK o \in Admitted(TenantOf(r)) : req[o].judgedAt = first
      BY <1>2, <3>1, <3>2
    <3>4. first \in Nat /\ now - WindowMs < first
      BY <1>2, <3>1, <3>2
    <3>5. first + WindowMs > now
      BY <1>4, <3>4
    <3> QED
      BY <1>7, <2>2, <2>3, <3>2, <3>3, <3>5
  <2>4. CASE x # r
    <3>1. req'[x] = req[x]
      BY <1>1, <2>4 DEF Others
    <3> QED
      BY <1>7, <2>1, <2>2, <3>1 DEF WindowInv, ResetsLeave
  <2> QED
    BY <2>3, <2>4
<1> QED
  BY <1>8, <1>9, <1>10, <1>11, <1>12 DEF WindowInv

\* An admission: the request joins those of its tenant, and its time the window.
LEMMA AdmittedWindows ==
  ASSUME FreshInv, WindowInv, NEW r \in Requests, Authorize(r)
  PROVE  WindowInv'
<1>0. PICK home : home = TenantOf(r)
  OBVIOUS
<1>1. /\ Others(r) /\ Same(r) /\ SameTenant(r) /\ JudgedNow(r) /\ now' = now
      /\ r \notin Admitted(home) /\ req'[r].verdict = "allowed"
      /\ req[r].as \in TenantValues /\ Len(Kept(r)) < req[r].as.limit /\ MaxConcurrent > 0
      /\ windows' = [windows EXCEPT ![home] = RateAnswer(r).window]
      /\ RateAnswer(r).window.requests = Append(Kept(r), now)
  <2>1. RateAnswer(r).verdict = "allowed"
    BY DEF Authorize
  <2> QED
    BY <1>0, <2>1, JudgedStep DEF JudgedNow
<1>2. /\ home \in Tenants /\ windows[home].requests \in Seq(Nat) /\ Kept(r) \in Seq(Nat)
      /\ \A i, j \in 1..Len(Kept(r)) : i <= j => Kept(r)[i] <= Kept(r)[j]
      /\ \A i \in 1..Len(Kept(r)) :
           /\ now - WindowMs < Kept(r)[i] /\ Kept(r)[i] <= now
           /\ \E q \in Admitted(home) : req[q].judgedAt = Kept(r)[i]
  BY <1>0, KeptLemma DEF WindowInv
<1>3. PICK gone \in Nat : /\ Rest(windows[home].requests, gone, Kept(r))
                          /\ GoneAt(windows[home].requests, now - WindowMs, gone)
  BY <1>0, KeptLemma DEF WindowInv
<1>4. now \in Nat /\ WindowMs \in Nat \ {0} /\ now - WindowMs \in Int /\ req[r].as.limit \in Nat
  BY <1>1, ServerAssumption, GuardsAssumption DEF FreshInv, ServerTypeOK
<1>5. /\ \A t \in Tenants : t # home => windows'[t] = windows[t]
      /\ windows'[home].requests = Append(Kept(r), now)
  BY <1>1, <1>2 DEF FreshInv, ServerTypeOK
<1>6. /\ \A t : t # home => Admitted(t)' = Admitted(t)
      /\ Admitted(home)' = Admitted(home) \union {r}
  BY <1>0, <1>1 DEF Admitted, TenantOf, Input, Others, Same
<1>7. \A t : \A q \in Admitted(t) : q \in Requests /\ q # r /\ req'[q] = req[q] /\ req[q].judgedAt \in 0..now
  <2>1. SUFFICES ASSUME NEW t, NEW q \in Admitted(t)
                 PROVE  q \in Requests /\ q # r /\ req'[q] = req[q] /\ req[q].judgedAt \in 0..now
    OBVIOUS
  <2>2. q \in Requests /\ TenantOf(q) = t /\ req[q].verdict = "allowed"
    BY <2>1 DEF Admitted
  <2>3. q # r
    BY <1>0, <1>1, <2>1, <2>2
  <2>4. req[q].judgedAt \in Nat /\ req[q].judgedAt <= now
    BY <2>2 DEF FreshInv, TenantsFromStore, TenantFromStore, ServerTypeOK, ReqRecords
  <2> QED
    BY <1>1, <1>4, <2>2, <2>3, <2>4 DEF Others
<1>8. req'[r].judgedAt = now /\ req'[r].as = req[r].as
  BY <1>1 DEF JudgedNow, SameTenant
<1>9. ASSUME NEW t, t # home, NEW time
      PROVE  /\ AdmittedAfter(t, time)' = AdmittedAfter(t, time)
             /\ AdmittedIn(t, time)' = AdmittedIn(t, time)
  BY <1>6, <1>7, <1>9 DEF AdmittedAfter, AdmittedIn
<1>10. ASSUME NEW start \in Int
       PROVE  /\ start < now => AdmittedAfter(home, start)' = AdmittedAfter(home, start) \union {r}
              /\ start >= now => AdmittedAfter(home, start)' = {}
  <2>1. AdmittedAfter(home, start)'
          = {q \in Admitted(home) \union {r} : req'[q].judgedAt > start}
    BY <1>6 DEF AdmittedAfter
  <2> QED
    BY <1>4, <1>7, <1>8, <2>1 DEF AdmittedAfter
<1>11. (\A t \in Tenants : IsFiniteSet(Admitted(t)))'
  <2>1. ASSUME NEW t \in Tenants
        PROVE  IsFiniteSet(Admitted(t)')
    BY <1>6, FS_AddElement DEF WindowInv
  <2> QED
    BY <2>1
<1>12. ASSUME NEW start \in Int, start < now
       PROVE  Cardinality(AdmittedAfter(home, start) \union {r})
                = Cardinality(AdmittedAfter(home, start)) + 1
  <2>1. IsFiniteSet(AdmittedAfter(home, start)) /\ r \notin AdmittedAfter(home, start)
    <3>1. AdmittedAfter(home, start) \subseteq Admitted(home)
      BY DEF AdmittedAfter
    <3> QED
      BY <1>1, <1>2, <3>1, FS_Subset DEF WindowInv
  <2> QED
    BY <2>1, FS_AddElement
<1>13. WindowsInOrder'
  <2>1. ASSUME NEW t \in Tenants, NEW times, times = windows'[t].requests
        PROVE  /\ \A i, j \in 1..Len(times) : i <= j => times[i] <= times[j]
               /\ \A i \in 1..Len(times) : times[i] <= now' /\ \E q \in Admitted(t)' : req'[q].judgedAt = times[i]
    <3>1. CASE t = home
      <4>1. PICK kept : kept = Kept(r)
        OBVIOUS
      <4>2. /\ kept \in Seq(Nat) /\ times = Append(kept, now)
            /\ \A i, j \in 1..Len(kept) : i <= j => kept[i] <= kept[j]
            /\ \A i \in 1..Len(kept) : kept[i] <= now /\ \E q \in Admitted(t) : req[q].judgedAt = kept[i]
        BY <1>2, <1>5, <2>1, <3>1, <4>1
      <4>3. /\ Len(kept) \in Nat /\ Len(times) = Len(kept) + 1 /\ times[Len(kept) + 1] = now
            /\ \A i \in 1..Len(kept) : times[i] = kept[i]
        BY <4>2
      <4>4. \A i, j \in 1..Len(times) : i <= j => times[i] <= times[j]
        BY <1>4, <4>2, <4>3
      <4>5. ASSUME NEW i \in 1..Len(times)
            PROVE  times[i] <= now' /\ \E q \in Admitted(t)' : req'[q].judgedAt = times[i]
        <5>1. CASE i = Len(kept) + 1
          BY <1>1, <1>4, <1>6, <1>8, <3>1, <4>3, <5>1
        <5>2. CASE i \in 1..Len(kept)
          <6>1. PICK q \in Admitted(t) : req[q].judgedAt = kept[i]
            BY <4>2, <5>2
          <6>2. q \in Admitted(t)' /\ req'[q].judgedAt = times[i]
            BY <1>6, <1>7, <3>1, <4>3, <5>2, <6>1
          <6> QED
            BY <1>1, <4>2, <4>3, <5>2, <6>2
        <5> QED
          BY <4>3, <4>5, <5>1, <5>2
      <4> QED
        BY <4>4, <4>5
    <3>2. CASE t # home
      <4>1. /\ \A i, j \in 1..Len(times) : i <= j => times[i] <= times[j]
            /\ \A i \in 1..Len(times) : times[i] <= now /\ \E q \in Admitted(t) : req[q].judgedAt = times[i]
        BY <1>5, <2>1, <3>2 DEF WindowInv, WindowsInOrder
      <4>2. ASSUME NEW i \in 1..Len(times)
            PROVE  \E q \in Admitted(t)' : req'[q].judgedAt = times[i]
        BY <1>6, <1>7, <3>2, <4>1, <4>2
      <4> QED
        BY <1>1, <4>1, <4>2
    <3> QED
      BY <3>1, <3>2
  <2> QED
    BY <2>1 DEF WindowsInOrder
<1>14. WindowsCount'
  <2>1. SUFFICES ASSUME NEW t \in Tenants, NEW start \in Int, now <= start + WindowMs,
                        NEW k \in 0..Len(windows'[t].requests), GoneAt(windows'[t].requests, start, k)
                 PROVE  Cardinality(AdmittedAfter(t, start)') = Len(windows'[t].requests) - k
    BY <1>1 DEF WindowsCount
  <2>2. CASE t # home
    BY <1>5, <1>9, <2>1, <2>2, SMTT(60) DEF WindowInv, WindowsCount
  <2>3. CASE t = home
    <3>1. PICK times : times = windows[t].requests
      OBVIOUS
    <3>2. PICK kept : kept = Kept(r)
      OBVIOUS
    <3>3. /\ times \in Seq(Nat) /\ kept \in Seq(Nat) /\ Rest(times, gone, kept) /\ GoneAt(times, now - WindowMs, gone)
          /\ \A i \in 1..Len(kept) : kept[i] <= now
          /\ windows'[t].requests = Append(kept, now)
      BY <1>2, <1>3, <1>5, <2>3, <3>1, <3>2
    <3>4. /\ Len(Append(kept, now)) = Len(kept) + 1 /\ Len(kept) \in Nat
          /\ k \in Nat /\ GoneAt(Append(kept, now), start, k)
      BY <1>4, <2>1, <3>3
    <3>5. \/ start >= now /\ k = Len(kept) + 1
          \/ start < now /\ k \in 0..Len(kept) /\ GoneAt(kept, start, k)
      BY <1>4, <3>3, <3>4, GoneAppended
    <3>6. CASE start >= now /\ k = Len(kept) + 1
      <4>1. Cardinality(AdmittedAfter(t, start)') = 0
        BY <1>10, <2>1, <2>3, <3>6, FS_EmptySet
      <4> QED
        BY <3>3, <3>4, <3>6, <4>1
    <3>7. CASE start < now /\ k \in 0..Len(kept) /\ GoneAt(kept, start, k)
      <4>1. now - WindowMs <= start
        BY <1>4, <2>1
      <4>2. gone + k \in 0..Len(times) /\ GoneAt(times, start, gone + k)
        BY <1>4, <3>3, <3>4, <3>7, <4>1, GoneLater
      <4>3. Cardinality(AdmittedAfter(t, start)) = Len(times) - (gone + k)
        BY <2>1, <3>1, <4>2 DEF WindowInv, WindowsCount
      <4>4. Len(kept) = Len(times) - gone /\ Len(times) \in Nat
        BY <3>3 DEF Rest
      <4>5. Cardinality(AdmittedAfter(t, start)') = Cardinality(AdmittedAfter(t, start)) + 1
        BY <1>10, <1>12, <2>1, <2>3, <3>7
      <4> QED
        BY <3>3, <3>4, <4>3, <4>4, <4>5
    <3> QED
      BY <3>5, <3>6, <3>7
  <2> QED
    BY <2>2, <2>3
<1>15. ASSUME NEW time, time = now
       PROVE  Cardinality(AdmittedIn(home, time)') <= req[r].as.limit
  <2>1. PICK kept : kept = Kept(r)
    OBVIOUS
  <2>2. PICK times : times = Append(kept, now)
    OBVIOUS
  <2>3. PICK start \in Int : start = now - WindowMs /\ start < now /\ now <= start + WindowMs
    BY <1>4
  <2>4. /\ kept \in Seq(Nat) /\ Len(kept) \in Nat /\ Len(kept) < req[r].as.limit
        /\ \A i \in 1..Len(kept) : start < kept[i]
        /\ windows'[home].requests = times
    BY <1>1, <1>2, <1>5, <2>1, <2>2, <2>3
  <2>5. GoneAt(times, start, 0) /\ 0 \in 0..Len(times) /\ Len(times) = Len(kept) + 1
    <3>1. Len(times) = Len(kept) + 1 /\ times[1] \in {kept[1], now}
      BY <2>2, <2>4
    <3>2. times[1] > start
      <4>1. CASE Len(kept) = 0
        BY <2>2, <2>3, <2>4, <4>1, <1>4
      <4>2. CASE Len(kept) > 0
        <5>1. 1 \in 1..Len(kept) /\ times[1] = kept[1] /\ kept[1] \in Nat
          BY <2>2, <2>4, <4>2
        <5> QED
          BY <2>4, <5>1
      <4> QED
        BY <2>4, <4>1, <4>2
    <3> QED
      BY <2>4, <3>1, <3>2 DEF GoneAt
  <2>6. Cardinality(AdmittedAfter(home, start)') = Len(kept) + 1
    BY <1>1, <1>2, <1>14, <2>3, <2>4, <2>5 DEF WindowsCount
  <2>7. AdmittedIn(home, time)' = AdmittedAfter(home, start)'
    <3>1. \A q \in Admitted(home)' : req'[q].judgedAt \in Int /\ req'[q].judgedAt <= time
      BY <1>4, <1>6, <1>7, <1>8, <1>15
    <3>2. \A q \in Admitted(home)' : time - WindowMs < req'[q].judgedAt <=> req'[q].judgedAt > start
      BY <1>4, <1>15, <2>3, <3>1
    <3> QED
      BY <3>1, <3>2 DEF AdmittedIn, AdmittedAfter
  <2> QED
    BY <1>4, <2>4, <2>6, <2>7
<1>16. WindowsRoomy'
  <2>1. ASSUME NEW x \in Requests, req'[x].verdict = "allowed",
               NEW t, t = TenantOf(x)', NEW time, time = req'[x].judgedAt
        PROVE  \E q \in Admitted(t)' : /\ req'[q].judgedAt = time
                                       /\ Cardinality(AdmittedIn(t, time)') <= req'[q].as.limit
    <3>1. x # r => req'[x] = req[x] /\ t = TenantOf(x) /\ x \in Admitted(t)
      BY <1>1, <2>1 DEF Others, TenantOf, Input, Admitted
    <3>2. x = r => t = home
      BY <1>0, <1>1, <2>1 DEF Same, TenantOf, Input
    <3>3. CASE t = home /\ time = now
      BY <1>6, <1>8, <1>15, <3>3
    <3>4. CASE t # home \/ time # now
      <4>1. x # r /\ x \in Admitted(t) /\ req[x].judgedAt = time /\ time \in 0..now /\ req[x].verdict = "allowed"
        BY <1>7, <1>8, <2>1, <3>1, <3>2, <3>4
      <4>2. PICK q \in Admitted(t) : /\ req[q].judgedAt = time
                                     /\ Cardinality(AdmittedIn(t, time)) <= req[q].as.limit
        BY <3>1, <4>1 DEF WindowInv, WindowsRoomy
      <4>3. q \in Admitted(t)' /\ req'[q] = req[q]
        BY <1>6, <1>7, <4>2
      <4>4. AdmittedIn(t, time)' = AdmittedIn(t, time)
        <5>1. CASE t # home
          BY <1>9, <5>1
        <5>2. CASE t = home
          <6>1. time < now
            BY <1>4, <3>4, <4>1, <5>2
          <6>2. AdmittedIn(t, time)' = {p \in Admitted(t) \union {r} :
                                         time - WindowMs < req'[p].judgedAt /\ req'[p].judgedAt <= time}
            BY <1>6, <5>2 DEF AdmittedIn
          <6>3. ~(req'[r].judgedAt <= time)
            BY <1>4, <1>8, <4>1, <6>1
          <6> QED
            BY <1>7, <6>2, <6>3 DEF AdmittedIn
        <5> QED
          BY <5>1, <5>2
      <4> QED
        BY <4>2, <4>3, <4>4
    <3> QED
      BY <3>3, <3>4
  <2>2. ASSUME NEW x \in Requests, req'[x].verdict = "allowed"
        PROVE  \E q \in Admitted(TenantOf(x))' :
                 /\ req'[q].judgedAt = req'[x].judgedAt
                 /\ Cardinality(AdmittedIn(TenantOf(x), req[x].judgedAt)') <= req'[q].as.limit
    <3>1. PICK t : t = TenantOf(x)'
      OBVIOUS
    <3>2. PICK time : time = req'[x].judgedAt
      OBVIOUS
    <3>3. /\ Admitted(TenantOf(x))' = Admitted(t)'
          /\ AdmittedIn(TenantOf(x), req[x].judgedAt)' = AdmittedIn(t, time)'
      BY <3>1, <3>2 DEF Admitted, AdmittedIn
    <3> QED
      BY <2>1, <2>2, <3>1, <3>2, <3>3
  <2> QED
    BY <1>1, <2>2 DEF WindowsRoomy
<1>17. ResetsLeave'
  <2>1. SUFFICES ASSUME NEW x \in Requests, req'[x].verdict = "rate_limit", req'[x].resetAt # NoReset
                 PROVE  \E o \in Admitted(TenantOf(x))' :
                          /\ req'[o].judgedAt + WindowMs = req'[x].resetAt
                          /\ req'[o].judgedAt + WindowMs > req'[x].judgedAt
    BY DEF ResetsLeave
  <2>2. /\ x # r /\ req'[x] = req[x] /\ TenantOf(x)' = TenantOf(x)
        /\ Admitted(TenantOf(x)) \subseteq Admitted(TenantOf(x))'
    BY <1>1, <2>1 DEF Others, Same, TenantOf, Input, Admitted
  <2> QED
    BY <1>7, <2>1, <2>2 DEF WindowInv, ResetsLeave
<1> QED
  BY <1>11, <1>13, <1>14, <1>16, <1>17 DEF WindowInv

LEMMA InitWindows == Init => WindowInv
<1> SUFFICES ASSUME Init PROVE WindowInv
  OBVIOUS
<1>1. \A t : Admitted(t) = {}
  BY DEF Init, Unseen, Admitted
<1>2. \A t \in Tenants : windows[t].requests = <<>>
  BY DEF Init, NewWindow
<1>3. \A t \in Tenants : IsFiniteSet(Admitted(t))
  BY <1>1, FS_EmptySet
<1>4. WindowsInOrder
  BY <1>2 DEF WindowsInOrder
<1>5. WindowsCount
  <2>1. \A t, start : AdmittedAfter(t, start) = {}
    BY <1>1 DEF AdmittedAfter
  <2>2. SUFFICES ASSUME NEW t \in Tenants, NEW start \in Int, NEW k \in 0..Len(windows[t].requests)
                 PROVE  Cardinality(AdmittedAfter(t, start)) = Len(windows[t].requests) - k
    BY DEF WindowsCount
  <2>3. Len(windows[t].requests) = 0 /\ k = 0
    BY <1>2
  <2> QED
    BY <2>1, <2>3, FS_EmptySet
<1>6. WindowsRoomy /\ ResetsLeave
  BY DEF Init, Unseen, WindowsRoomy, ResetsLeave
<1> QED
  BY <1>3, <1>4, <1>5, <1>6 DEF WindowInv

LEMMA StepWindows ==
  ASSUME FreshInv, WindowInv, [Next]_vars
  PROVE  WindowInv'
<1>1. CASE \E r \in Requests : Limited(r)
  BY <1>1, RefusedWindows
<1>2. CASE \E r \in Requests : Authorize(r)
  BY <1>2, AdmittedWindows
<1>3. CASE (\E r \in Requests : Chain(r) /\ ~Limited(r) /\ ~Authorize(r)) \/ Elsewhere
  BY <1>3, StepQuiet, QuietWindows DEF FreshInv, WindowInv
<1> QED
  BY <1>1, <1>2, <1>3 DEF Next, Elsewhere

\* enterpriseHttp.ts: the stages of the requests, the cache of tenants, the windows
\* and the cached decisions fit each other, and what the store and the policy were.
THEOREM EnterpriseInvariant == Spec => [](FreshInv /\ WindowInv)
<1>1. Init => FreshInv /\ WindowInv
  BY InitFresh, InitWindows
<1>2. FreshInv /\ WindowInv /\ [Next]_vars => (FreshInv /\ WindowInv)'
  BY StepFresh, StepWindows DEF WindowInv
<1> QED
  BY <1>1, <1>2, PTL DEF Spec

\* tenantResolver.ts: a change of a tenant takes effect within the time to live.
THEOREM TenantsAreFresh == Spec => []TenantNoStalerThanTtl
<1>1. FreshInv => TenantNoStalerThanTtl
  <2>1. SUFFICES ASSUME FreshInv, NEW r \in Requests, req[r].verdict # "none"
                 PROVE  /\ req[r].as.status = "active"
                        /\ \E age \in 0..MaxTime :
                             /\ age < CacheTtlMs \/ age = 0
                             /\ age <= req[r].judgedAt
                             /\ \E s \in held[req[r].judgedAt - age].tenants : s[TenantOf(r)] = req[r].as
    BY DEF TenantNoStalerThanTtl
  <2>2. req[r].as.status = "active" /\ StoredRecently(TenantOf(r), req[r].as, req[r].judgedAt)
    BY <2>1 DEF FreshInv, TenantsFromStore, TenantFromStore
  <2> QED
    BY <2>2 DEF StoredRecently, Stored
<1> QED
  BY <1>1, EnterpriseInvariant, PTL

\* A request that the policy let through has one behind it.
LEMMA PassedBacked ==
  ASSUME FreshInv, NEW r \in Requests, Passed(r)
  PROVE  StillBacked(Key(r), req[r].decidedAt)
<1>1. StageFollows(r) /\ AllowFromPolicy(r)
  BY DEF FreshInv, StagesFollow, AllowsFromPolicy
<1>2. req[r].allow /\ req[r].stage # "answered"
  BY <1>1 DEF StageFollows, Passed
<1> QED
  BY <1>1, <1>2 DEF AllowFromPolicy

\* policy/middleware.ts and policy/engine.ts: no failed, late or stale evaluation
\* lets a request reach its handler; behind each one stands an admitted request of
\* the same key that was allowed itself, whatever the hash and the policies.
THEOREM HandlersAreAllowed == Spec => []HandledMeansAllowed
<1>1. FreshInv => HandledMeansAllowed
  BY PassedBacked DEF HandledMeansAllowed, StillBacked, Behind
<1> QED
  BY <1>1, EnterpriseInvariant, PTL

\* The key of the decision cache holds all that a decision depends on: inputs of
\* one key are alike to the embedded rules and to every policy of the OPA server.
KeyDecides ==
  \A c, d \in Callers : hashInput(c) = hashInput(d) =>
    /\ EmbeddedDecision(c) = EmbeddedDecision(d)
    /\ \A p \in Policies : c \in p <=> d \in p

\* Alike inputs are justified alike.
LEMMA AlikeJustified ==
  ASSUME KeyDecides, FreshInv, NEW c \in Callers, NEW d \in Callers, hashInput(c) = hashInput(d),
         NEW time \in 0..now, Justified(c, time)
  PROVE  Justified(d, time)
<1>1. EmbeddedDecision(c) = EmbeddedDecision(d) /\ \A p \in Policies : c \in p <=> d \in p
  BY DEF KeyDecides
<1>2. now \in 0..MaxTime /\ MaxTime \in Nat /\ held \in [0..MaxTime -> HeldType]
  BY ServerAssumption DEF FreshInv, ServerTypeOK
<1>3. CASE engine = "embedded"
  BY <1>1, <1>3 DEF Justified
<1>4. CASE engine # "embedded"
  <2>1. PICK age \in 0..MaxTime : /\ age < PolicyTtl + PolicyTimeout \/ age <= PolicyTimeout
                                  /\ age <= time
                                  /\ \E p \in held[time - age].policies : c \in p
    BY <1>4 DEF Justified
  <2>2. PICK p \in held[time - age].policies : c \in p
    BY <2>1
  <2>3. time - age \in 0..MaxTime
    BY <1>2, <2>1
  <2>4. p \in Policies
    BY <1>2, <2>2, <2>3 DEF HeldType
  <2> QED
    BY <1>1, <1>4, <2>1, <2>2, <2>4 DEF Justified
<1> QED
  BY <1>3, <1>4

\* policy/engine.ts: what it takes for a cached decision to be the request's own.
\* If the key decides, a request that reaches its handler was itself allowed; the
\* run enterprise_cache shows what happens when it does not.
THEOREM OwnInputsAreAllowed ==
  ASSUME KeyDecides
  PROVE  Spec => []OwnInputAllowed
<1>1. FreshInv => OwnInputAllowed
  <2>1. SUFFICES ASSUME FreshInv, NEW r \in Requests, Passed(r)
                 PROVE  Justified(Input(r), req[r].decidedAt)
    BY DEF OwnInputAllowed
  <2>2. PICK q \in Requests : Key(q) = Key(r) /\ Justified(Input(q), req[r].decidedAt)
    BY <2>1, PassedBacked DEF StillBacked, Behind
  <2>3. Input(q) \in Callers /\ Input(r) \in Callers /\ hashInput(Input(q)) = hashInput(Input(r))
    BY <2>1, <2>2 DEF FreshInv, ServerTypeOK, ReqRecords, Input, Key
  <2>4. req[r].decidedAt \in 0..now
    <3>1. StageFollows(r) /\ AllowFromPolicy(r) /\ req[r] \in ReqRecords
      BY <2>1 DEF FreshInv, StagesFollow, AllowsFromPolicy, ServerTypeOK
    <3>2. req[r].decidedAt \in Nat /\ req[r].decidedAt <= now /\ now \in Nat
      BY <2>1, <3>1, ServerAssumption
      DEF Passed, StageFollows, AllowFromPolicy, ReqRecords, FreshInv, ServerTypeOK
    <3> QED
      BY <3>2
  <2> QED
    BY <2>1, <2>2, <2>3, <2>4, AlikeJustified
<1> QED
  BY <1>1, EnterpriseInvariant, PTL

\* rateLimiter.ts: in no interval of the window's length are more requests of a
\* tenant admitted than the largest limit that let one of them in.
THEOREM AdmissionsAreLimited == Spec => []WindowBound
<1>1. FreshInv /\ WindowInv => WindowBound
  <2>1. SUFFICES ASSUME FreshInv, WindowInv, NEW r \in Requests, req[r].verdict = "allowed"
                 PROVE  \E q \in AdmittedIn(TenantOf(r), req[r].judgedAt) :
                          Cardinality(AdmittedIn(TenantOf(r), req[r].judgedAt)) <= req[q].as.limit
    BY DEF WindowBound
  <2> QED
    <3>1. PICK q \in Admitted(TenantOf(r)) :
            /\ req[q].judgedAt = req[r].judgedAt
            /\ Cardinality(AdmittedIn(TenantOf(r), req[r].judgedAt)) <= req[q].as.limit
      BY <2>1 DEF WindowInv, WindowsRoomy
    <3>2. req[r].judgedAt \in Nat /\ WindowMs \in Nat \ {0}
      BY <2>1, GuardsAssumption DEF FreshInv, ServerTypeOK, ReqRecords
    <3>3. q \in AdmittedIn(TenantOf(r), req[r].judgedAt)
      BY <3>1, <3>2 DEF AdmittedIn
    <3> QED
      BY <3>1, <3>3
<1> QED
  BY <1>1, EnterpriseInvariant, PTL

\* The last of a set of admitted requests.
LEMMA LastAdmitted ==
  ASSUME ServerTypeOK, NEW some, some \subseteq Requests, some # {},
         \A q \in some : req[q].judgedAt <= now
  PROVE  \E x \in some : \A q \in some : req[q].judgedAt <= req[x].judgedAt
<1>1. now \in Nat /\ \A q \in some : req[q].judgedAt \in Nat
  BY ServerAssumption DEF ServerTypeOK, ReqRecords
<1> DEFINE ages == {age \in Nat : \E q \in some : now - req[q].judgedAt = age}
<1>2. \A q \in some : now - req[q].judgedAt \in ages
  BY <1>1
<1>3. ages \subseteq Nat /\ ages # {} /\ \A age \in ages : \E q \in some : now - req[q].judgedAt = age
  BY <1>2
<1> HIDE DEF ages
<1>4. PICK least \in ages : \A age \in ages : ~(<<age, least>> \in OpToRel(<, Nat))
  BY <1>3, NatLessThanWellFounded, WFMin
<1>5. \A age \in ages : ~(age < least)
  BY <1>3, <1>4 DEF OpToRel
<1>6. PICK x \in some : now - req[x].judgedAt = least
  BY <1>3
<1>7. \A q \in some : req[q].judgedAt <= req[x].judgedAt
  <2>1. SUFFICES ASSUME NEW q \in some PROVE req[q].judgedAt <= req[x].judgedAt
    OBVIOUS
  <2>2. ~(now - req[q].judgedAt < now - req[x].judgedAt)
    BY <1>2, <1>5, <1>6
  <2> QED
    BY <1>1, <2>2
<1> QED
  BY <1>7

\* rateLimiter.ts: when the resetAt of a refusal has come the tenant has room
\* again, unless it was filled meanwhile, or under a larger limit, or has none.
THEOREM RefusalsSayWhen == Spec => []RetryAfterIsEnough
<1>1. FreshInv /\ WindowInv => RetryAfterIsEnough
  <2>1. SUFFICES ASSUME FreshInv, WindowInv, NEW r \in Requests, NEW recent,
                        recent = AdmittedIn(TenantOf(r), now),
                        req[r].verdict = "rate_limit", req[r].resetAt # NoReset,
                        now >= req[r].resetAt, req[r].as.limit > 0,
                        \A q \in recent : /\ req[q].judgedAt <= req[r].judgedAt
                                          /\ req[q].as.limit <= req[r].as.limit
                 PROVE  RateAnswer(r).verdict = "allowed"
    BY DEF RetryAfterIsEnough, RateAnswer
  <2>2. PICK t : t = TenantOf(r)
    OBVIOUS
  <2>3. /\ t \in Tenants /\ now \in Nat /\ WindowMs \in Nat \ {0} /\ req[r].as \in TenantValues
        /\ req[r].as.limit \in Nat /\ req[r].judgedAt \in Nat /\ req[r].resetAt \in Int
    BY <2>1, <2>2, ServerAssumption, GuardsAssumption
    DEF FreshInv, ServerTypeOK, ReqRecords, TenantOf, Input, Tenants, StagesFollow, StageFollows
  <2>4. \A q \in Admitted(t) : /\ q \in Requests /\ req[q].verdict = "allowed" /\ TenantOf(q) = t
                               /\ req[q].judgedAt \in Nat /\ req[q].judgedAt <= now
                               /\ req[q].as.limit \in Nat
    BY <2>1, ServerAssumption
    DEF Admitted, FreshInv, ServerTypeOK, ReqRecords, StagesFollow, StageFollows, TenantsFromStore, TenantFromStore
  <2>5. PICK o \in Admitted(t) : /\ req[o].judgedAt + WindowMs = req[r].resetAt
                                 /\ req[o].judgedAt + WindowMs > req[r].judgedAt
    BY <2>1, <2>2 DEF WindowInv, ResetsLeave
  <2>6. MaxConcurrent > 0
    BY <2>1, <2>4, <2>5 DEF WindowInv, WindowsRoomy
  <2>7. \A q : q \in recent <=> q \in Admitted(t) /\ now - WindowMs < req[q].judgedAt
    BY <2>1, <2>2, <2>4 DEF AdmittedIn
  <2>8. IsFiniteSet(recent) /\ o \notin recent
    <3>1. recent \subseteq Admitted(t)
      BY <2>7
    <3>2. ~(now - WindowMs < req[o].judgedAt)
      BY <2>1, <2>3, <2>4, <2>5
    <3> QED
      BY <2>1, <2>3, <2>7, <3>1, <3>2, FS_Subset DEF WindowInv
  <2>9. Cardinality(recent) = Len(Kept(r))
    <3>1. PICK start \in Int : start = now - WindowMs /\ now <= start + WindowMs
      BY <2>3
    <3>2. PICK times : times = windows[t].requests
      OBVIOUS
    <3>3. PICK gone \in Nat : Rest(times, gone, Kept(r)) /\ GoneAt(times, start, gone)
      BY <2>1, <2>2, <3>1, <3>2, KeptLemma DEF WindowInv
    <3>4. recent = AdmittedAfter(t, start)
      BY <2>3, <2>4, <2>7, <3>1 DEF AdmittedAfter
    <3>5. Cardinality(AdmittedAfter(t, start)) = Len(times) - gone
      BY <2>1, <2>3, <3>1, <3>2, <3>3 DEF WindowInv, WindowsCount, Rest
    <3> QED
      BY <3>3, <3>4, <3>5 DEF Rest
  <2>10. Cardinality(recent) < req[r].as.limit
    <3>1. CASE recent = {}
      BY <2>1, <3>1, FS_EmptySet
    <3>2. CASE recent # {}
      <4>1. PICK x \in recent : \A q \in recent : req[q].judgedAt <= req[x].judgedAt
        BY <2>1, <2>4, <2>7, <3>2, LastAdmitted DEF FreshInv
      <4>2. PICK time : time = req[x].judgedAt
        OBVIOUS
      <4>3. PICK q \in Admitted(t) : /\ req[q].judgedAt = time
                                     /\ Cardinality(AdmittedIn(t, time)) <= req[q].as.limit
        BY <2>1, <2>4, <2>7, <4>1, <4>2 DEF WindowInv, WindowsRoomy
      <4>4. q \in recent /\ req[q].as.limit \in Nat /\ req[q].as.limit <= req[r].as.limit
        BY <2>1, <2>4, <2>7, <4>1, <4>2, <4>3
      <4>5. time \in Nat /\ time <= now /\ now - WindowMs < time /\ time <= req[r].judgedAt
        BY <2>1, <2>4, <2>7, <4>1, <4>2
      <4>6. recent \union {o} \subseteq AdmittedIn(t, time)
        <5>1. ASSUME NEW p \in recent
              PROVE  p \in AdmittedIn(t, time)
          BY <2>3, <2>4, <2>7, <4>1, <4>2, <4>5, <5>1 DEF AdmittedIn
        <5>2. o \in AdmittedIn(t, time)
          <6>1. req[o].judgedAt \in Nat /\ req[o].judgedAt + WindowMs <= now
            BY <2>1, <2>4, <2>5
          <6>2. time - WindowMs < req[o].judgedAt
            BY <2>3, <2>5, <4>5, <6>1
          <6>3. req[o].judgedAt <= time
            BY <2>3, <4>5, <6>1
          <6> QED
            BY <2>5, <6>2, <6>3 DEF AdmittedIn
        <5> QED
          BY <5>1, <5>2
      <4>7. IsFiniteSet(AdmittedIn(t, time))
        <5>1. AdmittedIn(t, time) \subseteq Admitted(t)
          BY DEF AdmittedIn
        <5> QED
          BY <2>1, <2>3, <5>1, FS_Subset DEF WindowInv
      <4>8. Cardinality(recent \union {o}) <= Cardinality(AdmittedIn(t, time))
        BY <4>6, <4>7, FS_Subset
      <4>9. Cardinality(recent \union {o}) = Cardinality(recent) + 1 /\ Cardinality(recent) \in Nat
        BY <2>8, FS_AddElement, FS_CardinalityType
      <4>10. Cardinality(AdmittedIn(t, time)) \in Nat
        BY <4>7, FS_CardinalityType
      <4> QED
        BY <2>3, <4>3, <4>4, <4>8, <4>9, <4>10
    <3> QED
      BY <3>1, <3>2
  <2> QED
    BY <2>1, <2>3, <2>6, <2>9, <2>10, RateLemma DEF FreshInv, WindowInv
<1> QED
  BY <1>1, EnterpriseInvariant, PTL

-----------------------------------------------------------------------------
(* The audit log.                                                          *)

\* Every entry carries the hash of its content, and from the second on the hash
\* of its predecessor.
Chained(log) ==
  /\ \E S : log \in Seq(S)
  /\ \A i \in 1..Len(log) :
       /\ log[i].contentHash = HashOf(log[i].sequence, log[i].content, log[i].previousHash)
       /\ i > 1 => log[i].previousHash = log[i - 1].contentHash

\* An append to a chained log, whatever its content, gives a chained log.
LEMMA AppendedChained ==
  ASSUME NEW log, Chained(log), NEW content
  PROVE  Chained(Appended(log, content))
<1>1. PICK S : log \in Seq(S)
  BY DEF Chained
<1>2. PICK e : /\ Appended(log, content) = Append(log, e)
               /\ e.previousHash = LinkAt(log, Len(log))
               /\ e.contentHash = HashOf(e.sequence, e.content, e.previousHash)
  <2>1. DEFINE p == LinkAt(log, Len(log))
               x == [sequence |-> Len(log), content |-> content, previousHash |-> p,
                     contentHash |-> HashOf(Len(log), content, p)]
  <2>2. Appended(log, content) = Append(log, x)
    BY DEF Appended
  <2>3. x.previousHash = p /\ x.contentHash = HashOf(x.sequence, x.content, x.previousHash)
    OBVIOUS
  <2> QED
    BY <2>2, <2>3
<1>3. /\ Append(log, e) \in Seq(S \union {e})
      /\ Len(Append(log, e)) = Len(log) + 1
      /\ \A i \in 1..Len(log) : Append(log, e)[i] = log[i]
      /\ Append(log, e)[Len(log) + 1] = e
      /\ Len(log) \in Nat
  <2>1. log \in Seq(S \union {e})
    BY <1>1
  <2> QED
    BY <2>1
<1>4. Len(log) > 0 => e.previousHash = log[Len(log)].contentHash
  BY <1>2, <1>3 DEF LinkAt
<1>5. PICK longer : longer = Append(log, e)
  OBVIOUS
<1>6. ASSUME NEW i \in 1..Len(longer)
      PROVE  /\ longer[i].contentHash = HashOf(longer[i].sequence, longer[i].content, longer[i].previousHash)
             /\ i > 1 => longer[i].previousHash = longer[i - 1].contentHash
  <2>1. CASE i \in 1..Len(log)
    <3>1. longer[i] = log[i] /\ (i > 1 => longer[i - 1] = log[i - 1])
      BY <1>3, <1>5, <2>1
    <3> QED
      BY <3>1, <2>1 DEF Chained
  <2>2. CASE i = Len(log) + 1
    <3>1. longer[i] = e /\ (i > 1 => longer[i - 1] = log[Len(log)])
      BY <1>3, <1>5, <2>2
    <3> QED
      BY <3>1, <1>2, <1>3, <1>4, <2>2
  <2> QED
    BY <1>3, <1>5, <1>6, <2>1, <2>2
<1>7. Chained(longer)
  BY <1>3, <1>5, <1>6 DEF Chained
<1> QED
  BY <1>2, <1>5, <1>7

\* A chained log verifies over every range.
LEMMA ChainedVerifies ==
  ASSUME NEW log, Chained(log),
         NEW i \in 0..Len(log), NEW j \in 0..Len(log), InRange(log, i, j)
  PROVE  VerifyChain(log, i, j).valid
<1>1. Len(log) \in Nat
  BY DEF Chained
<1>2. ASSUME NEW k \in i..j
      PROVE  Intact(log, k)
  <2>1. k + 1 \in 1..Len(log) /\ k \in Nat
    BY <1>1 DEF InRange
  <2>2. log[k + 1].contentHash
          = HashOf(log[k + 1].sequence, log[k + 1].content, log[k + 1].previousHash)
    BY <2>1 DEF Chained
  <2>3. k > 0 => log[k + 1].previousHash = log[k].contentHash
    <3>1. k + 1 > 1 => log[k + 1].previousHash = log[(k + 1) - 1].contentHash
      BY <2>1 DEF Chained
    <3> QED
      BY <3>1, <2>1
  <2> QED
    BY <2>2, <2>3 DEF Intact
<1>3. {k \in i..j : ~Intact(log, k)} = {}
  BY <1>2
<1> QED
  BY <1>3 DEF VerifyChain

\* Every action leaves the log alone or appends to it.
LEMMA StepAppends ==
  ASSUME Chained(entries), [Next]_vars
  PROVE  Chained(entries')
<1>1. ASSUME NEW r \in Requests, Handle(r)
      PROVE  Chained(entries')
  BY <1>1, AppendedChained DEF Handle
<1>2. ASSUME NEW r \in Requests, Close(r)
      PROVE  Chained(entries')
  BY <1>2, AppendedChained DEF Close
<1>3. ASSUME NEW r \in Requests, Chain(r), ~Handle(r), ~Close(r)
      PROVE  UNCHANGED entries
  BY <1>3 DEF Chain, ResolveCached, ResolveFetch, ResolveFill, Limited, Authorize,
              OpaEvaluates, OpaReplies, OpaFails, Decide
<1>4. ASSUME NEW t \in Tenants, ChangeTenant(t) \/ Invalidate(t)
      PROVE  UNCHANGED entries
  BY <1>4 DEF ChangeTenant, Invalidate
<1>5. ASSUME ChangePolicy \/ Tick \/ UNCHANGED vars
      PROVE  UNCHANGED entries
  BY <1>5 DEF ChangePolicy, Tick, vars
<1> QED
  BY <1>1, <1>2, <1>3, <1>4, <1>5 DEF Next

LEMMA InitChained == Init => Chained(entries)
<1>1. SUFFICES ASSUME entries = <<>> PROVE Chained(entries)
  BY DEF Init
<1>2. entries \in Seq({}) /\ Len(entries) = 0
  BY <1>1
<1> QED
  BY <1>2 DEF Chained

\* enterpriseHttp.ts and audit/store.ts: whatever the order of the requests, of
\* the handlers' own entries and of the middleware's, verifyChain accepts every
\* range of the log.
THEOREM AuditLogVerifies == Spec => []AuditChainVerifies
<1>1. Init => Chained(entries)
  BY InitChained
<1>2. Chained(entries) /\ [Next]_vars => Chained(entries)'
  BY StepAppends DEF Chained
<1>3. Chained(entries) => AuditChainVerifies
  BY ChainedVerifies DEF AuditChainVerifies
<1> QED
  BY <1>1, <1>2, <1>3, PTL DEF Spec

-----------------------------------------------------------------------------
(* What the audit log says of each request.                                *)

\* An append adds its content behind that of the others.
LEMMA AppendedContents ==
  ASSUME NEW log, Chained(log), NEW content, NEW longer, longer = Appended(log, content)
  PROVE  /\ Len(log) \in Nat /\ DOMAIN log = 1..Len(log) /\ DOMAIN longer = 1..Len(log) + 1
         /\ \A i \in 1..Len(log) : longer[i] = log[i]
         /\ longer[Len(log) + 1].content = content
<1>1. PICK S : log \in Seq(S)
  BY DEF Chained
<1>2. PICK e : Appended(log, content) = Append(log, e) /\ e.content = content
  <2> DEFINE x == [sequence |-> Len(log), content |-> content, previousHash |-> LinkAt(log, Len(log)),
                   contentHash |-> HashOf(Len(log), content, LinkAt(log, Len(log)))]
  <2>1. Appended(log, content) = Append(log, x)
    BY DEF Appended
  <2>2. x.content = content
    OBVIOUS
  <2> QED
    BY <2>1, <2>2
<1>3. log \in Seq(S \union {e})
  BY <1>1
<1> QED
  BY <1>2, <1>3

\* Only the last step of a request may leave it done and allowed.
LEMMA NotYetDue ==
  ASSUME FreshInv, WindowsInOrder, NEW r \in Requests, Chain(r), ~Close(r)
  PROVE  ~Due(r) /\ ~Due(r)'
<1>1. ServerTypeOK /\ StageFollows(r) /\ 403 \in Nat /\ "done" \in ReqStages
  BY DEF FreshInv, StagesFollow, ReqStages
<1>2. req[r].stage # "done"
  BY DEF Chain, ResolveCached, ResolveFetch, ResolveFill, Limited, Authorize,
         OpaEvaluates, OpaReplies, OpaFails, Decide, Handle
<1>3. ~(req'[r].stage = "done" /\ req'[r].allow)
  <2>1. CASE ResolveCached(r) \/ ResolveFetch(r) \/ ResolveFill(r) \/ Limited(r)
    BY <1>1, <2>1, BeforeEngine
  <2>2. CASE Authorize(r)
    <3>1. req[r].as \in TenantValues
      BY <1>1, <2>2 DEF Authorize, StageFollows
    <3> QED
      BY <1>1, <2>2, <3>1, AuthorizeFields DEF FromCache, FromRules, AsksOpa, Goes
  <2>3. CASE OpaEvaluates(r) \/ OpaReplies(r) \/ OpaFails(r)
    BY <1>1, <2>3, OpaFields DEF Goes
  <2>4. CASE Decide(r)
    <3>1. CASE req[r].allow
      <4>1. Answer(r, 403, "closing") \/ Move(r, "handling")
        BY <2>4, <3>1 DEF Decide
      <4>2. "closing" \in ReqStages /\ "handling" \in ReqStages
        BY DEF ReqStages
      <4> QED
        BY <1>1, <4>1, <4>2, AnswerFields, MoveFields DEF Goes
    <3>2. CASE ~req[r].allow
      BY <1>1, <2>4, <3>2, AfterLimiter DEF SameDecision
    <3> QED
      BY <3>1, <3>2
  <2>5. CASE Handle(r)
    <3>1. PICK o \in Outcomes(Input(r).route) : Answer(r, o.status, "closing")
      BY <2>5 DEF Handle
    <3>2. o.status \in Nat /\ "closing" \in ReqStages
      BY DEF Outcomes, Outcome, Refusal, Failure, ReqStages
    <3>3. PICK status \in Nat : status = o.status
      BY <3>2, Zenon
    <3> QED
      BY <1>1, <3>1, <3>2, <3>3, AnswerFields DEF Goes
  <2> QED
    BY <2>1, <2>2, <2>3, <2>4, <2>5 DEF Chain
<1> QED
  BY <1>2, <1>3 DEF Due

\* What the log owes to one request.
Trail(r) ==
  /\ ~Due(r) => Mine(r) = {}
  /\ Due(r) => \E i \in DOMAIN entries :
                 Mine(r) = {i} /\ entries[i].content.outcome = OutcomeOf(req[r].status)

LEMMA TrailKept ==
  ASSUME NEW q \in Requests, Trail(q), Mine(q)' = Mine(q), Due(q)' <=> Due(q),
         Due(q) => req'[q].status = req[q].status,
         \A i \in DOMAIN entries : i \in DOMAIN entries' /\ entries'[i] = entries[i]
  PROVE  Trail(q)'
BY DEF Trail

LEMMA StepTrail ==
  ASSUME FreshInv, WindowsInOrder, Chained(entries), TrailInv, [Next]_vars
  PROVE  TrailInv'
<1>1. \A q \in Requests : Trail(q)
  BY DEF TrailInv, Trail
<1>2. ASSUME \A q \in Requests : Trail(q)'
      PROVE  TrailInv'
  BY <1>2 DEF TrailInv, Trail
<1>3. ASSUME NEW r \in Requests, Chain(r), NEW q \in Requests, q # r
      PROVE  req'[q] = req[q] /\ (Due(q)' <=> Due(q))
  <2>1. req'[q] = req[q]
    BY <1>3, ChainStages DEF FreshInv, Others
  <2> QED
    BY <2>1 DEF Due, Input
<1>4. ASSUME NEW r \in Requests, Chain(r), UNCHANGED entries, ~Due(r), ~Due(r)'
      PROVE  TrailInv'
  <2>1. \A q \in Requests : Mine(q)' = Mine(q)
    BY <1>4 DEF Mine
  <2>2. ASSUME NEW q \in Requests
        PROVE  Trail(q)'
    BY <1>1, <1>3, <1>4, <2>1, TrailKept
  <2> QED
    BY <1>2, <2>2
<1>5. ASSUME NEW r \in Requests, Chain(r), NEW entry, entries' = Appended(entries, entry),
             entry.request = r, entry.writer \in {"handler", "middleware"},
             entry.writer = "handler" => ~Due(r) /\ ~Due(r)',
             entry.writer = "middleware" =>
               ~Due(r) /\ Due(r)' /\ entry.outcome = OutcomeOf(req'[r].status)
      PROVE  TrailInv'
  <2>1. PICK n \in Nat :
          /\ DOMAIN entries = 1..n /\ DOMAIN entries' = 1..n + 1
          /\ \A i \in 1..n : entries'[i] = entries[i]
          /\ entries'[n + 1].content = entry
    BY <1>5, AppendedContents
  <2>2. ASSUME NEW q \in Requests
        PROVE  Mine(q)' = IF q = r /\ entry.writer = "middleware" THEN Mine(q) \union {n + 1} ELSE Mine(q)
    BY <1>5, <2>1 DEF Mine
  <2>3. ASSUME NEW q \in Requests, q # r \/ entry.writer = "handler"
        PROVE  Trail(q)'
    <3>1. Mine(q)' = Mine(q)
      BY <2>2, <2>3
    <3> QED
      BY <1>1, <1>3, <1>5, <2>1, <2>3, <3>1, TrailKept
  <2>4. ASSUME entry.writer = "middleware"
        PROVE  Trail(r)'
    <3>1. Mine(r)' = {n + 1}
      BY <1>1, <1>5, <2>2, <2>4 DEF Trail
    <3> QED
      BY <1>5, <2>1, <2>4, <3>1 DEF Trail
  <2>5. ASSUME NEW q \in Requests
        PROVE  Trail(q)'
    BY <1>5, <2>3, <2>4
  <2> QED
    BY <1>2, <2>5
<1>6. ASSUME NEW r \in Requests, Chain(r), ~Handle(r), ~Close(r)
      PROVE  TrailInv'
  <2>1. UNCHANGED entries
    BY <1>6 DEF Chain, ResolveCached, ResolveFetch, ResolveFill, Limited, Authorize,
                OpaEvaluates, OpaReplies, OpaFails, Decide
  <2> QED
    BY <1>4, <1>6, <2>1, NotYetDue
<1>7. ASSUME NEW r \in Requests, Handle(r)
      PROVE  TrailInv'
  <2>1. Chain(r) /\ ~Close(r)
    BY <1>7 DEF Chain, Handle, Close
  <2>2. ~Due(r) /\ ~Due(r)'
    BY <2>1, NotYetDue
  <2>3. PICK o : entries' = IF o.logged = "none" THEN entries
                            ELSE Appended(entries, Entry(r, "handler", o.logged))
    BY <1>7 DEF Handle
  <2>4. CASE UNCHANGED entries
    BY <1>4, <2>1, <2>2, <2>4
  <2>5. CASE entries' = Appended(entries, Entry(r, "handler", o.logged))
    <3>1. PICK entry : entry = Entry(r, "handler", o.logged)
      OBVIOUS
    <3>2. entry.request = r /\ entry.writer = "handler"
      BY <3>1 DEF Entry
    <3> QED
      BY <1>5, <2>1, <2>2, <2>5, <3>1, <3>2
  <2> QED
    BY <2>3, <2>4, <2>5
<1>8. ASSUME NEW r \in Requests, Close(r)
      PROVE  TrailInv'
  <2>1. Chain(r) /\ req[r].stage = "closing" /\ ServerTypeOK /\ "done" \in ReqStages /\ StageFollows(r)
    BY <1>8 DEF Chain, Close, FreshInv, StagesFollow, ReqStages
  <2>2. /\ req'[r].stage = "done" /\ req'[r].allow = req[r].allow /\ req[r].allow
        /\ req'[r].caller = req[r].caller /\ req'[r].status = req[r].status
    BY <1>8, <2>1, MoveFields DEF Close, Goes, Same, SameDecision, StageFollows
  <2>3. ~Due(r) /\ (Due(r)' <=> AuditAction(Input(r).route) # "none")
    BY <2>1, <2>2 DEF Due, Input
  <2>4. CASE AuditAction(Input(r).route) = "none"
    BY <1>4, <1>8, <2>1, <2>3, <2>4 DEF Close
  <2>5. CASE AuditAction(Input(r).route) # "none"
    <3>1. PICK entry : entry = Entry(r, "middleware", OutcomeOf(req[r].status))
      OBVIOUS
    <3>2. /\ entry.request = r /\ entry.writer = "middleware"
          /\ entry.outcome = OutcomeOf(req'[r].status) /\ entries' = Appended(entries, entry)
      BY <1>8, <2>2, <2>5, <3>1 DEF Entry, Close
    <3> QED
      BY <1>5, <2>1, <2>3, <2>5, <3>2
  <2> QED
    BY <2>4, <2>5
<1>9. ASSUME Elsewhere
      PROVE  TrailInv'
  <2>1. UNCHANGED <<entries, req>>
    BY <1>9, ElsewhereTypes DEF FreshInv
  <2> QED
    BY <2>1 DEF TrailInv, Mine, Due, Input
<1> QED
  BY <1>6, <1>7, <1>8, <1>9 DEF Next, Elsewhere

\* audit/middleware.ts: each request that passed the policy on an audited route
\* leaves one entry of the middleware with the outcome of its reply, and the
\* others leave none.
THEOREM TrailIsComplete == Spec => []AuditTrailComplete
<1>1. Init => Chained(entries) /\ TrailInv
  <2>1. SUFFICES ASSUME Init PROVE TrailInv
    BY InitChained
  <2>2. \A r \in Requests : Mine(r) = {} /\ ~Due(r)
    BY <2>1 DEF Init, Unseen, Mine, Due
  <2> QED
    BY <2>2 DEF TrailInv
<1>2. FreshInv /\ WindowInv /\ Chained(entries) /\ TrailInv /\ [Next]_vars
        => (Chained(entries) /\ TrailInv)'
  BY StepAppends, StepTrail DEF WindowInv, Chained
<1>3. TrailInv => AuditTrailComplete
  <2>1. SUFFICES ASSUME TrailInv, NEW r \in Requests
                 PROVE  /\ Cardinality(Mine(r)) = IF Due(r) THEN 1 ELSE 0
                        /\ \A i \in Mine(r) : entries[i].content.outcome = OutcomeOf(req[r].status)
    BY DEF AuditTrailComplete, Mine, Due
  <2>2. CASE Due(r)
    BY <2>1, <2>2, FS_Singleton DEF TrailInv
  <2>3. CASE ~Due(r)
    BY <2>1, <2>3, FS_EmptySet DEF TrailInv
  <2> QED
    BY <2>2, <2>3
<1> QED
  BY <1>1, <1>2, <1>3, EnterpriseInvariant, PTL DEF Spec
=============================================================================
