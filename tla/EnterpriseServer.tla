-------------------------- MODULE EnterpriseServer --------------------------
(***************************************************************************)
(* The middleware chain of src/server/enterpriseHttp.ts with OIDC on: a    *)
(* request is authenticated, its tenant resolved (cached), counted against *)
(* the tenant's rate limit, judged by the policy engine (cached, embedded  *)
(* or remote), checked against the permission of its route, handled, and   *)
(* recorded in the audit log on the way out.                               *)
(*                                                                         *)
(* A step is what runs between two awaits.  The awaits of the chain up to  *)
(* the handler are microtasks, unless the engine is remote: no time passes *)
(* while a request is in such a stage (see Urgent).                        *)
(***************************************************************************)
EXTENDS AccessRules, AuditLog, TenantGuards, FiniteSets

CONSTANTS
  Requests,
  Callers,        \* what a request may ask, and as whom: see Input
  TenantValues,   \* values a tenant of the store may take: [status, limit]
  Engines,        \* subset of {"embedded", "remote"}: options.enterprise.policy.mode
  Policies,       \* what the remote OPA may allow: sets of inputs
  HashInput(_),   \* the 32-bit hash of the fields the decision cache keeps
  PolicyTtl,      \* cacheTtlSeconds of the engine
  PolicyTimeout,  \* timeoutMs of the remote engine
  MaxConcurrent,  \* maxConcurrentTasks of every tenant
  MaxTime,        \* bound on the clock
  MaxChanges      \* bound on changes of tenants and of the remote policy

\* No X-Tenant-ID header, or no tenant claim in the token.
NoTenant == "no tenant"

\* resolveTenantId: the tenant the header names, whoever sends it, or else that of
\* the token.  (A request with neither is answered 401 and touches nothing.)
resolveTenantId(c) == IF c.header # NoTenant THEN c.header ELSE c.home

Tenants == {resolveTenantId(c) : c \in Callers}

\* The key of a decision: a hash of the action, of the resource with its tenant,
\* and of the id and the roles of the subject.  The attributes of the subject and
\* the context of the request are not in it, and different fields may collide.
hashInput(c) ==
  HashInput(<<PolicyAction(c.route), c.route, resolveTenantId(c), c.user, c.role>>)

Keys == {hashInput(c) : c \in Callers}

ASSUME ServerAssumption ==
  /\ \A c \in Callers : c.role \in Roles /\ c.route \in Routes
  /\ \A v \in TenantValues : v.status \in Statuses /\ v.limit \in Nat
  /\ Engines \subseteq {"embedded", "remote"} /\ Policies \subseteq SUBSET Callers
  /\ PolicyTtl \in Nat /\ PolicyTimeout \in Nat /\ MaxConcurrent \in Nat
  /\ MaxTime \in Nat /\ MaxChanges \in Nat

VARIABLES
  now,       \* Date.now()
  engine,    \* which policy engine was configured
  store,     \* TenantStore: tenant -> value, or Absent
  resolved,  \* TenantResolver.cache: tenant -> [tenant, fetchedAt], or Absent
  windows,   \* TenantRateLimiter.state: tenant -> window
  policy,    \* inputs the remote OPA allows
  decisions, \* decision cache of the engine: key -> [allow, fetchedAt], or Absent
  entries,   \* the audit log
  req,       \* where each request is, and what it carries
  changes,   \* changes of tenants and policy so far
  held       \* what store and policy held at each time (history)

vars == <<now, engine, store, resolved, windows, policy, decisions, entries, req, changes, held>>

\* A request of caller c before it is looked at.  stage: new, fetched, limiting,
\* asking, answered, decided, handling, closing, done; as: the tenant value it acts
\* for; judgedAt: when the rate limiter saw it, with its verdict and resetAt;
\* askedAt: when the OPA timer was armed; allow: the policy decision, taken from
\* the cache or the engine at decidedAt; status: of the reply, 0 before.
Unseen(c) == [stage |-> "new", caller |-> c, as |-> Absent,
              verdict |-> "none", judgedAt |-> 0, resetAt |-> NoReset, askedAt |-> 0,
              allow |-> FALSE, decidedAt |-> 0, status |-> 0]

\* AuthzInput: what the policy engine is given.  user: id of the subject, who has
\* one role; home: the tenant of the token; header: the tenant the header names;
\* route: action and resource; attributes: the other claims of the token and the
\* context of the request (its id, time, address and user agent).
Input(r) == req[r].caller

Key(r) == hashInput(Input(r))

Init ==
  /\ now = 0
  /\ engine \in Engines
  /\ store \in [Tenants -> {v \in TenantValues : v.status = "active"}]
  /\ resolved = [t \in Tenants |-> Absent]
  /\ windows = [t \in Tenants |-> NewWindow]
  /\ policy \in IF engine = "remote" THEN Policies ELSE {{}}
  /\ decisions = [k \in Keys |-> Absent]
  /\ entries = <<>>
  /\ req \in [Requests -> {Unseen(c) : c \in Callers}]
  /\ changes = 0
  /\ held = [t \in 0..MaxTime |-> IF t = 0 THEN [tenants |-> {store}, policies |-> {policy}]
                                  ELSE [tenants |-> {}, policies |-> {}]]

\* The tenant a request acts for.
TenantOf(r) == resolveTenantId(Input(r))

Move(r, stage) == req' = [req EXCEPT ![r].stage = stage]

Answer(r, status, stage) == req' = [req EXCEPT ![r].status = status, ![r].stage = stage]

----------------------------------------------------------------------------
\* OIDC middleware.  The token names the caller: verifying it reads the token
\* only, so a request starts here with resolve.  (A bad token is answered 401 and
\* touches nothing.)

\* The rest of resolve once a tenant value is at hand: validateTenant.
Validate(r, tenant) ==
  req' = [req EXCEPT ![r].as = tenant,
                     ![r].stage = IF Valid(tenant) THEN "limiting" ELSE "done",
                     ![r].status = IF Valid(tenant) THEN 0 ELSE 403]

\* resolve, cache hit.
ResolveCached(r) ==
  /\ req[r].stage = "new"
  /\ Fresh(resolved[TenantOf(r)], now)
  /\ Validate(r, resolved[TenantOf(r)].tenant)
  /\ UNCHANGED <<now, engine, store, resolved, windows, policy, decisions, entries, changes, held>>

\* resolve, cache miss: store.get reads the tenant and the function awaits it.
ResolveFetch(r) ==
  /\ req[r].stage = "new"
  /\ ~Fresh(resolved[TenantOf(r)], now)
  /\ IF store[TenantOf(r)] = Absent
     THEN Answer(r, 403, "done")
     ELSE req' = [req EXCEPT ![r].as = store[TenantOf(r)], ![r].stage = "fetched"]
  /\ UNCHANGED <<now, engine, store, resolved, windows, policy, decisions, entries, changes, held>>

\* resolve after the await: the value read is cached, valid or not.
ResolveFill(r) ==
  /\ req[r].stage = "fetched"
  /\ resolved' = [resolved EXCEPT ![TenantOf(r)] = [tenant |-> req[r].as, fetchedAt |-> now]]
  /\ Validate(r, req[r].as)
  /\ UNCHANGED <<now, engine, store, windows, policy, decisions, entries, changes, held>>

----------------------------------------------------------------------------
\* Mutated form of CachedDecision: the age of the decision is not looked at.
DecisionOfAnyAge(r) == PolicyTtl > 0 /\ decisions[Key(r)] # Absent

\* A cached decision young enough to be used.
CachedDecision(r) ==
  /\ PolicyTtl > 0
  /\ decisions[Key(r)] # Absent
  /\ now - decisions[Key(r)].fetchedAt < PolicyTtl

Remember(r, allow) ==
  decisions' = IF PolicyTtl > 0
               THEN [decisions EXCEPT ![Key(r)] = [allow |-> allow, fetchedAt |-> now]]
               ELSE decisions

\* The policy middleware hands the engine the endpoint as the resource, owned by
\* the tenant of the request, and the user with that same tenant.
EmbeddedDecision(c) ==
  Evaluate(PolicyAction(c.route),
           [type |-> "endpoint", root |-> FALSE, tenant |-> resolveTenantId(c)],
           [tenant |-> resolveTenantId(c), role |-> c.role])

Judged(r, answer, stage) ==
  [req[r] EXCEPT !.verdict = answer.verdict, !.judgedAt = now, !.resetAt = answer.resetAt,
                 !.stage = stage]

RateAnswer(r) == CheckLimit(windows[TenantOf(r)], req[r].as.limit, MaxConcurrent, now)

\* The rate limit middleware refuses.
Limited(r) ==
  /\ req[r].stage = "limiting"
  /\ RateAnswer(r).verdict # "allowed"
  /\ windows' = [windows EXCEPT ![TenantOf(r)] = RateAnswer(r).window]
  /\ req' = [req EXCEPT ![r] = [Judged(r, RateAnswer(r), "done") EXCEPT !.status = 429]]
  /\ UNCHANGED <<now, engine, store, resolved, policy, decisions, entries, changes, held>>

\* The rate limit middleware lets the request pass, and in the same job the
\* policy middleware calls authorize, up to its first await: a cached decision,
\* the embedded rules, or the call to the remote OPA with its timer.
Authorize(r) ==
  LET passed(stage) == Judged(r, RateAnswer(r), stage)
      decision(allow) == [passed("decided") EXCEPT !.allow = allow, !.decidedAt = now]
  IN /\ req[r].stage = "limiting"
     /\ RateAnswer(r).verdict = "allowed"
     /\ windows' = [windows EXCEPT ![TenantOf(r)] = RateAnswer(r).window]
     /\ \/ /\ CachedDecision(r)
           /\ req' = [req EXCEPT ![r] = decision(decisions[Key(r)].allow)]
           /\ UNCHANGED decisions
        \/ /\ ~CachedDecision(r) /\ engine = "embedded"
           /\ req' = [req EXCEPT ![r] = decision(EmbeddedDecision(Input(r)))]
           /\ Remember(r, EmbeddedDecision(Input(r)))
        \/ /\ ~CachedDecision(r) /\ engine = "remote"
           /\ req' = [req EXCEPT ![r] = [passed("asking") EXCEPT !.askedAt = now]]
           /\ UNCHANGED decisions
     /\ UNCHANGED <<now, engine, store, resolved, policy, entries, changes, held>>

\* External: the OPA server evaluates the whole input; its answer travels back.
OpaEvaluates(r) ==
  /\ req[r].stage = "asking"
  /\ req' = [req EXCEPT ![r].stage = "answered", ![r].allow = (Input(r) \in policy)]
  /\ UNCHANGED <<now, engine, store, resolved, windows, policy, decisions, entries, changes, held>>

\* authorize after callOPA: the answer is cached, an allow as well as a denial.
OpaReplies(r) ==
  /\ req[r].stage = "answered"
  /\ Remember(r, req[r].allow)
  /\ req' = [req EXCEPT ![r].stage = "decided", ![r].decidedAt = now, ![r].askedAt = 0]
  /\ UNCHANGED <<now, engine, store, resolved, windows, policy, entries, changes, held>>

\* callOPA fails: no connection, a bad status, or the timer aborts the fetch or
\* the reading of its body.  The middleware denies, and nothing is cached.  An
\* answer that is null is a TypeError, which the middleware does not expect: 500.
OpaFails(r) ==
  /\ req[r].stage \in {"asking", "answered"}
  /\ \E status \in {403} \union (IF req[r].stage = "answered" THEN {500} ELSE {}) :
       req' = [req EXCEPT ![r] = [@ EXCEPT !.stage = "done", !.status = status,
                                           !.allow = FALSE, !.askedAt = 0]]
  /\ UNCHANGED <<now, engine, store, resolved, windows, policy, decisions, entries, changes, held>>

\* requirePermission of the route.
Permitted(r) == RoutePermission(Input(r).route) \in RolePermissions[Input(r).role]

\* The policy middleware after authorize; then requirePermission, which runs
\* inside the audit middleware.
Decide(r) ==
  /\ req[r].stage = "decided"
  /\ IF ~req[r].allow THEN Answer(r, 403, "done")
     ELSE IF Permitted(r) THEN Move(r, "handling")
     ELSE Answer(r, 403, "closing")
  /\ UNCHANGED <<now, engine, store, resolved, windows, policy, decisions, entries, changes, held>>

----------------------------------------------------------------------------
\* What a handler may end with: the class of the status of its reply, and the
\* outcome of the entry it writes itself ("none" when it writes none).  400 is a
\* body that is refused or a task that is not found; 500 an exception, a full
\* limiter, or for invoke a result of kind error.  Sending to an empty registry
\* answers 200 and logs nothing.
Outcome(status, logged) == [status |-> status, logged |-> logged]

Refusal == Outcome(400, "none")
Failure == Outcome(500, "none")

Outcomes(route) ==
  CASE route = "/a2a/tasks/send" -> {Refusal, Failure, Outcome(200, "none"), Outcome(200, "success"), Outcome(200, "failure")}
    [] route = "/a2a/invoke" -> {Refusal, Failure, Outcome(200, "success")}
    [] route = "/a2a/tasks/cancel" -> {Refusal, Outcome(200, "success")}
    [] route \in {"/a2a/tasks/get", "/enterprise/audit/query"} -> {Refusal, Outcome(200, "none")}
    [] route = "/a2a/tasks/list" -> {Outcome(200, "none")}
    [] OTHER -> {Refusal, Failure, Outcome(200, "none")}

\* The outcome the audit middleware derives from the status.
OutcomeOf(status) ==
  IF status >= 500 THEN "error" ELSE IF status >= 400 THEN "denied" ELSE "success"

\* An entry: who wrote it, for which request, and what it says.
Entry(r, writer, outcome) ==
  [writer |-> writer, request |-> r, tenant |-> TenantOf(r),
   action |-> AuditAction(Input(r).route), outcome |-> outcome]

\* The handler ends; when it logs, the append is in the job that replies.
Handle(r) ==
  /\ req[r].stage = "handling"
  /\ \E o \in Outcomes(Input(r).route) :
       /\ Answer(r, o.status, "closing")
       /\ entries' = IF o.logged = "none" THEN entries
                     ELSE Appended(entries, Entry(r, "handler", o.logged))
  /\ UNCHANGED <<now, engine, store, resolved, windows, policy, decisions, changes, held>>

\* Mutated form of Close: only requests that succeeded are recorded.
CloseSuccessful(r) ==
  /\ req[r].stage = "closing"
  /\ entries' = IF AuditAction(Input(r).route) = "none" \/ req[r].status >= 400 THEN entries
                ELSE Appended(entries, Entry(r, "middleware", OutcomeOf(req[r].status)))
  /\ Move(r, "done")
  /\ UNCHANGED <<now, engine, store, resolved, windows, policy, decisions, changes, held>>

\* The finally block of the audit middleware, on the way out.
Close(r) ==
  /\ req[r].stage = "closing"
  /\ entries' = IF AuditAction(Input(r).route) = "none" THEN entries
                ELSE Appended(entries, Entry(r, "middleware", OutcomeOf(req[r].status)))
  /\ Move(r, "done")
  /\ UNCHANGED <<now, engine, store, resolved, windows, policy, decisions, changes, held>>

----------------------------------------------------------------------------
\* update, create or delete of the tenant store, by whoever administers it.
ChangeTenant(t) ==
  /\ changes < MaxChanges
  /\ \E v \in TenantValues \union {Absent} : v # store[t] /\ store' = [store EXCEPT ![t] = v]
  /\ changes' = changes + 1
  /\ held' = [held EXCEPT ![now].tenants = @ \union {store'}]
  /\ UNCHANGED <<now, engine, resolved, windows, policy, decisions, entries, req>>

\* invalidate.
Invalidate(t) ==
  /\ resolved[t] # Absent
  /\ resolved' = [resolved EXCEPT ![t] = Absent]
  /\ UNCHANGED <<now, engine, store, windows, policy, decisions, entries, req, changes, held>>

\* External: the OPA server gets another policy.
ChangePolicy ==
  /\ engine = "remote" /\ changes < MaxChanges
  /\ \E p \in Policies : p # policy /\ policy' = p
  /\ changes' = changes + 1
  /\ held' = [held EXCEPT ![now].policies = @ \union {policy'}]
  /\ UNCHANGED <<now, engine, store, resolved, windows, decisions, entries, req>>

\* A request whose next step is a microtask already queued.
Urgent(r) == req[r].stage \in {"fetched", "limiting", "decided", "closing"}

\* A request whose OPA timer is due.
TimerDue(r) ==
  req[r].stage \in {"asking", "answered"} /\ now - req[r].askedAt >= PolicyTimeout

\* Time passes while the event loop is idle.
Tick ==
  /\ now < MaxTime
  /\ \A r \in Requests : ~Urgent(r) /\ ~TimerDue(r)
  /\ now' = now + 1
  /\ held' = [held EXCEPT ![now'] = [tenants |-> {store}, policies |-> {policy}]]
  /\ UNCHANGED <<engine, store, resolved, windows, policy, decisions, entries, req, changes>>

Chain(r) ==
  \/ ResolveCached(r) \/ ResolveFetch(r) \/ ResolveFill(r)
  \/ Limited(r) \/ Authorize(r) \/ OpaEvaluates(r) \/ OpaReplies(r) \/ OpaFails(r)
  \/ Decide(r) \/ Handle(r) \/ Close(r)

Next ==
  \/ \E r \in Requests : Chain(r)
  \/ \E t \in Tenants : ChangeTenant(t) \/ Invalidate(t)
  \/ ChangePolicy
  \/ Tick

Spec == Init /\ [][Next]_vars

----------------------------------------------------------------------------
Admitted(t) == {r \in Requests : TenantOf(r) = t /\ req[r].verdict = "allowed"}

\* Requests admitted in the window that ends at an instant.
AdmittedIn(t, end) == {r \in Admitted(t) : end - WindowMs < req[r].judgedAt /\ req[r].judgedAt <= end}

\* Sliding window, not fixed: in no interval of the window's length does a
\* tenant get more requests admitted than the largest limit that was in force
\* for one of them, wherever the interval starts and however limits change.
WindowBound ==
  \A r \in Requests : req[r].verdict = "allowed" =>
    LET together == AdmittedIn(TenantOf(r), req[r].judgedAt)
    IN \E q \in together : Cardinality(together) <= req[q].as.limit

\* Retry-After can be trusted: once resetAt of a refusal has come, the tenant is
\* admitted again, unless requests admitted meanwhile, or under a larger limit,
\* fill the window, or its limit admits nobody.
RetryAfterIsEnough ==
  \A r \in Requests : (req[r].verdict = "rate_limit" /\ req[r].resetAt # NoReset) =>
    LET recent == AdmittedIn(TenantOf(r), now)
    IN (/\ now >= req[r].resetAt /\ req[r].as.limit > 0
        /\ \A q \in recent : req[q].judgedAt <= req[r].judgedAt /\ req[q].as.limit <= req[r].as.limit)
       => CheckLimit(windows[TenantOf(r)], req[r].as.limit, MaxConcurrent, now).verdict = "allowed"

\* A change of a tenant takes effect within the cache's time to live: a request
\* that the rate limiter saw acts for an active tenant, as the store held it
\* less than the time to live before, whatever fetches and invalidations race.
TenantNoStalerThanTtl ==
  \A r \in Requests : req[r].verdict # "none" =>
    /\ req[r].as.status = "active"
    /\ \E age \in 0..MaxTime :
         /\ age < CacheTtlMs \/ age = 0
         /\ age <= req[r].judgedAt
         /\ \E s \in held[req[r].judgedAt - age].tenants : s[TenantOf(r)] = req[r].as

\* An input is allowed by the embedded rules, or by a policy that the OPA server
\* had less than the time to live plus one call before an instant.
Justified(input, at) ==
  IF engine = "embedded" THEN EmbeddedDecision(input)
  ELSE \E age \in 0..MaxTime :
         /\ age < PolicyTtl + PolicyTimeout \/ age <= PolicyTimeout
         /\ age <= at
         /\ \E p \in held[at - age].policies : input \in p

\* Requests the policy let through: handled, or past it and answered.
Passed(r) == req[r].stage = "handling" \/ (req[r].allow /\ req[r].status # 0)

\* What the decision cache guarantees: behind a request that reaches its handler
\* stands an admitted request of the same key whose input was allowed, recently
\* enough.  A failed, late or timed out evaluation never lets one through, and an
\* allow does not outlive its time.
HandledMeansAllowed ==
  \A r \in Requests : Passed(r) =>
    \E q \in Requests : /\ Key(q) = Key(r) /\ req[q].verdict = "allowed"
                        /\ Justified(Input(q), req[r].decidedAt)

\* The policy middleware enforces the policy on requests, and the input of a
\* decision is all that it is told of one: a request that reaches its handler was
\* itself allowed.  (The key of the cache leaves out a part of the input.)
OwnInputAllowed ==
  \A r \in Requests : Passed(r) => Justified(Input(r), req[r].decidedAt)

\* However the appends of concurrent requests interleave, the log verifies over
\* every range of it.
AuditChainVerifies ==
  \A i, j \in 0..Len(entries) : InRange(entries, i, j) => VerifyChain(entries, i, j).valid

\* Each request that passed the policy on an audited route leaves exactly one
\* entry of the middleware, whose outcome is that of its reply, and a request
\* refused before leaves none.
AuditTrailComplete ==
  \A r \in Requests :
    LET mine == {i \in DOMAIN entries : /\ entries[i].content.request = r
                                        /\ entries[i].content.writer = "middleware"}
        due == req[r].stage = "done" /\ req[r].allow /\ AuditAction(Input(r).route) # "none"
    IN /\ Cardinality(mine) = IF due THEN 1 ELSE 0
       /\ \A i \in mine : entries[i].content.outcome = OutcomeOf(req[r].status)
=============================================================================
