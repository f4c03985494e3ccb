# Formal models of liku-enterprise

TLA+ models of the liku-enterprise server and its orchestration core, model-checked with
TLC and, where it matters most, proved with TLAPS. Source paths below are relative to
the repository's `src/` directory (`liku/orchestrator/orchestrator.ts` is
`src/src/liku/orchestrator/orchestrator.ts` from the checkout's root).

Contents: [the system](#the-system) · [modules](#modules) · [runs](#runs) ·
[fairness](#fairness) · [proofs](#proofs) · [disagreements](#disagreements-with-the-documentation) ·
[abstractions](#abstractions) · [not modelled](#not-modelled) · [plan](#plan) ·
[running it](#running-it)

## The system

Liku runs a pipeline of LLM agents (supervisor, parser, planner, the steps of the plan,
synthesizer) for a query. It is one Node.js process: what interleaves is the code between
two `await`s, timers, and the outside world behind each `await`. State lives in memory,
except the SQLite event memory and paper trails.

| Component | State | Operations | Talks to |
|---|---|---|---|
| Concurrency limiter `liku/utils/concurrencyLimiter.ts` | counter, FIFO of parked callers, one timer each | `run`, `tryRun`, `clearQueue` | wraps HTTP work (ingress) and plan steps |
| Task registry `liku/orchestrator/taskRegistry.ts` | two Maps (tasks, abort controllers) in insertion order, bounded | `create` (evicts), `updateStatus`, `setResult`, `cancel`, `delete`, `get`, `list` | written by orchestrator and HTTP routes |
| Orchestrator `liku/orchestrator/orchestrator.ts` | locals of `run` and of the executor, event listeners | `run`, `runStepWithEvents`, `executeStepsWithEvents`, `finishRun` | limiter, registry, engine, LLM client |
| Plan validator `liku/orchestrator/planValidator.ts` | none | `validatePlan` and its checks | meant to precede the executor; nothing calls it |
| HTTP server `server/http.ts` | one limiter, the singleton registry | `tasks/send`, `invoke`, `tasks/cancel`, `get`, `list`, health | limiter, orchestrator, registry |
| Enterprise server `server/enterpriseHttp.ts` | the middlewares' stores | the same routes behind OIDC, tenant, rate limit, policy, RBAC, audit; audit endpoints | everything below |
| Tenant resolver `enterprise/auth/tenantResolver.ts` | tenant store, cache with time to live | `resolve`, `invalidate`, `clearCache`, store `create/update/delete` | OIDC middleware |
| Rate limiter `enterprise/auth/rateLimiter.ts` | sliding window and running tasks per tenant | `checkLimit`, `increment/decrementConcurrent`, `reset` | rate limit middleware |
| Policy engines `enterprise/policy/engine.ts` | decision cache with time to live | `authorize` (embedded rules, or a remote OPA with a timeout) | policy middleware |
| Audit store `enterprise/audit/store.ts` | hash chain of entries | `append`, `verifyChain`, `query`, `export` | audit middleware, routes |
| Vault clients `enterprise/vault/client.ts` | secret cache, token | `get`, `set`, `delete`, `invalidateCache` | backend |
| OpenAI client `liku/llm/openai.ts` | timer and abort controller of each call | `generate` | HTTP API, the caller's signal |
| SQLite memory `liku/memory/sqliteMemory.ts`, MCP server `mcp.ts` | database image in memory and on disk, degraded flags | `init`, `logEvent`, `flush`, tools | file system |
| Agent engine `liku/engine.ts` | directories, skill files, memory | `init`, `invokeAgent`, `recordFailure` | file system, memory |
| Skills `liku/skills/` | the `skills.xml` files from a residence upwards | load, inherit, validate | engine, orchestrator |
| Agent contracts `liku/orchestrator/contracts.ts` | none | `validateAgentOutput`, `getViolationAction` | meant for a retry loop; nothing calls it |
| CLI `cli.ts` | signal count, abort controller | `liku run`, `init`, `serve`, `task:new` | engine, orchestrator, process |

What is hard here, and what each component has to keep:

* **Hand-over of a slot** takes two microtasks: the finishing task frees it and wakes a
  waiter, the waiter counts itself later. The counter must be the number of tasks that hold
  a slot, no wake-up may be lost, a timeout and a wake-up may not both win, and the parked
  are served in order.
* **The registry is shared** by a run that lasts minutes and requests that cancel, delete
  or evict its task meanwhile. Outcomes are final, results are not lost without a reason,
  the collections agree.
* **The run** has eight early returns, two kinds of concurrency inside a batch, and steps
  that outlive a failure of a sibling. Dependencies come first, nothing runs after the
  return, the result lists what ran, the event stream is well formed, and the run returns
  whatever the plan's graph looks like.
* **The request path** holds a slot, a task and a reply that must belong together under
  cancel, refusal and timeout.
* **The enterprise chain** judges on cached data: a tenant that changes during a fetch, a
  policy that changes behind a cached decision, a window whose limit changes, a remote
  engine whose answer races its timer. Staleness must stay within the configured time to live,
  a failure must refuse, and every admitted audited request leaves exactly one entry of the
  middleware, in a log that verifies. A cached decision is found by a hash of a part of what
  the engine was asked, and the tenant comes from a header before the token.
* **The memory** is rewritten whole, in place, by processes that know nothing of each other,
  each with a copy of it that an init replaces between two awaits. What was logged must stay
  through restarts, kills and failed inits; two degraded flags have to agree on who may call.

* **The secret cache** is filled by a reply that left before a write, and emptied by a write
  whose reply may be lost. A get may be stale only by the time to live, and a client must read its own writes.
* **`liku run`** has two signals, an LLM call whose listener may be registered too late and a
  timer that stops at the headers. An exit code that names an outcome must be right, and a cancelled run must exit.
* **Counting running tasks** happens in another middleware than the check of the count.

`PROJECT.json` lists the hazards one by one with their lines and properties.

## Modules

```
SequenceLemmas ─────┐
ConcurrencyLimiter ─┼─ ConcurrencyLimiterProofs ──┐
      │ INSTANCE    │                             ├─INSTANCE── HttpServerProofs
TaskRegistry ─ TaskLifecycle ─ TaskLifecycleProofs ┘
   │  │              ↑ implemented by HttpServer (UsesRegistry)
   │  └──INSTANCE── Orchestrator ─ OrchestratorProps ─ MCOrchestrator
   │                     │               │     └─ OrchestratorProofs
   │                     │               ↓ implements
   │                     │          AbstractRun ──INSTANCE── CliRun
   └─ HttpServer       Plans ─ PlanValidator ─ MCPlanValidator
          │                        │                  │
          │                      Skills               │
          └───────────── MCHttpServer ────────────────┘
AccessRules, AuditLog, TenantGuards ─ EnterpriseServer ─ MCEnterpriseServer
               │            │               └─ EnterpriseServerProofs
          AuditReader  TenantConcurrency
SqliteMemory ─ McpServer ─┬─ MCMcpServer ─ VaultClient
                          └─ McpServerProofs
ConcurrencyLimiter, TaskLifecycle, CliRun, TenantConcurrency, AuditReader, AgentContracts ─ MCParts
PlanValidator, AuditReader, TenantConcurrency, VaultClient, CliRun, AgentContracts ─ PartProofs
```

| Module | Models | State ↔ code, actions ↔ code |
|---|---|---|
| `ConcurrencyLimiter` | the limiter class | `currentCount`, `queue`, `timers` are its fields; `status` is where each caller stands in `run`; `jobs` is the microtask queue restricted to limiter code. One action per job: `RunNow`/`WaitForSlot`/`TryRun` (the synchronous start), `Resume` (after `await waitForSlot()`), `Finish` (the `finally`), `Throw`, `TimeoutWait` (timer callback), `ClearQueue`. `Call` and `Settle` are the world. |
| `TaskRegistry` | the registry, as operators from one registry value to the next | `Created` (with `Evicted`), `StatusUpdated`, `ResultSet`, `Cancelled`, `Deleted`, `LastListed`: the methods are synchronous, so each is one step of whoever calls it |
| `TaskLifecycle` | who calls the registry and when | `Start` (`create` and `updateStatus` in one stretch of `run`), `FinishRun` (`finishRun`), `Cancel`, `Delete`; `run` and `outcome` are the caller's side |
| `HttpServer` | both servers' `tasks/send`, `invoke`, `tasks/cancel` | composes limiter and registry by `INSTANCE`: an action of a handler is an action of the limiter and its effect on the registry; `phase` and `reply` are the handler's locals |
| `Plans` | plan records, `readySteps`, and the definition of an executable plan | – |
| `Orchestrator` | one `run` with its executor | `pc` is the `await` it stands at; one action per stretch between `await`s (`AfterSupervisor`, `NextBatch`, `LaunchParallel`, `Collect`, …); `Begin`/`End` are the steps, queued at the shared limiter; `Cancel`, `Evict`, `Expire` come from outside |
| `OrchestratorProps` | what a run promises | properties, and the mapping to `AbstractRun` |
| `AbstractRun` | a run as its callers see it | `launched`, `ended`, `reported`, `result`: steps begin and end, and the promise resolves once, with every step that began, when all have ended |
| `PlanValidator` | `validatePlan`, and the executor's loop run on what it accepts, each step checked by its skills | `BeginValidation` and `EndValidation` are the checks before and after the cycle search; the recursive `dfs` is a machine: `calls` is its stack, each call with the dependencies its loop has not come to, `visited` the set of that name, `looked` the loop over the steps; `SearchNext`, `SearchDeeper` (`LookAt` one dependency), `SearchReturns`; `RunBatch` is one turn of the executor |
| `Skills` | `loadSkillsXml`, `loadInheritedSkills`, `validateSkillExecution`, `checkForEscalation`, and the files `init` seeds | operators on the skill files of a residence; `loadInheritedSkills` folds `withFile` over the files from the root down, and that folds `withSkill` over the skills of a file |
| `AccessRules` | role, route, policy and audit tables, the embedded rules | operators |
| `AuditLog` | `append`, `verifyChain`, `query` | operators on the array of entries |
| `AuditReader` | a client that pages through the log with `afterSequence` while it grows | `AppendEntry`, `ReadPage` (one query) |
| `TenantGuards` | freshness of the resolver cache, `checkLimit` | operators on cache entries and windows |
| `EnterpriseServer` | the middleware chain | `req[r]` is a request with the stage (`await`) it stands at; `ResolveCached`, `ResolveFetch`, `ResolveFill` split `resolve` at its `await`; `Limited`/`Authorize`, `OpaEvaluates` (external), `OpaReplies`, `OpaFails`, `Decide`, `Handle`, `Close`; `ChangeTenant`, `Invalidate`, `ChangePolicy`, `Tick` come from outside; `held` is a history of store and policy. A caller is the input of the policy engine (user, role, tenants of token and header, route, attributes); `hashInput` is the key of its decision, over the constant `HashInput`, the 32-bit hash |
| `SqliteMemory` | the memory of each process and the one file | `image`, `degraded` are `bundle.db` and `_degraded`; `file` what is on disk. `writeFileSync` is cut in two (`FlushBegin`, `FlushEnd`, or `FlushFails`): it blocks its process, not the others, and a kill may fall inside |
| `McpServer` | the MCP servers of one repository | `act` is where the main of a process and each tool call stand; `degradedMode` is the server's own flag. `Boot`, `Connect`, `Fault`, `Kill` are the process; `LoadFails`, `Open`, `Take`, `Written`, `WriteFails`, `Flushed` are `init` between its awaits; `RefuseDegraded`, `CallInit`, `FinishInit`, `CallSearch`, `CallInvoke`, `Park`, `Unpark`, `RefuseCapacity`, `FinishInvoke` the tools; `logged` and `risky` are histories |
| `TenantConcurrency` | `checkLimit` and, further down the chain, `createConcurrentTaskMiddleware`, with `reset` | `task[r]` is the middleware a request waits in; `CheckRequest`, `DropRequest` (what is mounted in between), `CountTask`, `FinishTask` (the `finally`), `ResetTenant`; `crowd`, `forgotten` are histories |
| `VaultClient` | the memory, env and HashiCorp client and its cache, seen through one secret | `cached`, `hasToken` are its fields; `vcall[c]` is a call with the await it stands at (`login`, `sent`, `answered`); `secret` is the sequence of versions in the backend, which others write too; `settled`, `got` are histories |
| `CliRun` | `liku run` | `generate[s]` is how far the LLM call of a step is; `FirstSignal`, `SecondSignal`, `InitDone`, `RunEnds` are the CLI, `Connect`, `Headers`, `TimerFires`, `CallEnds` are `generate` of the OpenAI client; of the orchestrator only `AbstractRun` is used |
| `AgentContracts` | `parse` and `onViolation` of each role | `Attempt`: an answer, its validation and the action that follows. The loop around them has no code: only the header of `contracts.ts` describes it, and nothing calls the contracts |
| `MCParts`, `MCHttpServer`, `MCMcpServer` | components that share no state, side by side: limiter, registry, CLI, tenant concurrency, audit reader and contracts; HTTP server and plan validator; MCP servers and vault client | a behaviour is one of a single part, picked by the initial state; the others stand still |
| `SequenceLemmas`, `*Proofs` | lemmas and theorems; `PartProofs` is about the small parts | – |

Definitions named `…Without…`, `…Late`, `…Any` and the like under a comment "Mutated form
of" are plausible bugs. No specification uses them; each is there so that the property that would catch it can
be seen to fail when it replaces the real definition (`PROJECT.json`, "mutants").

## Runs

`CHECK_DEADLOCK FALSE` is set where the system may stop: every request answered, every run
returned, every plan executed. `limiter_overshoot` is the one that leaves it out: the limiter may be called again
at any time. That nobody is left behind where it is off is said by `NoStrandedWaiter` and by the liveness properties.

| Run | Instance | Shows |
|---|---|---|
| `http` | *server*: 3 sends, 1 invoke, 1 slot, registry of 2; *validator*: see below; 472 173 states | *server*: `RunningTasksHoldSlots`, `UsesRegistry` (the refinement of `TaskLifecycle`), `NobodyParkedForever`; *validator*: `SearchFindsCycles`, `OnlyMixedBatchesExceed`, `RootSkillsNeedRootContext`, `ValidPlanRunsEveryStep`, `EveryTurnCounts`, `StepEscalatesForItsSkills` |
| `orchestrator` | default plan, two-step plans with every dependency on the first step and a missing one, six shapes of three steps; both settings of `abortOnError`; 376 786 states | `DependenciesFirst`, `SequentialRunsAlone`, `EventsWellFormed`, `OutcomeMatchesSteps`, `ExecutablePlanRunsCompletely`, `NothingLaunchedAfterFailure`, `EveryMoveCounts`, `ImplementsRun` (the refinement of `AbstractRun`, and that the run resolves) |
| `enterprise` | 4 readers of one tenant, clock 0..4, or 2 of 4 senders (two a developer in the office, one the same developer abroad, one a viewer), clock 0..3, under a hash that gives developer and viewer one key; the readers name the tenant in the header, their tokens name another one; window 2, both times to live 2, OPA timeout 1, limits 1 and 2, both engines, one change of tenant or policy; 992 344 states | `WindowBound`, `RetryAfterIsEnough`, `TenantNoStalerThanTtl`, `HandledMeansAllowed`, `AuditChainVerifies`, `AuditTrailComplete` |
| `mcp` | *memory*: 2 processes on one file, 3 tool calls, 1 kill, 1 uncaught exception; *secret*: see below; 2 956 058 states | *memory*: `LogIsDurable`, `NeverUnprepared`; *secret*: `ReadNoStalerThanTtl`, `OwnWritesVisible` |
| `parts` | see below; 131 065 states | *limiter*: `CountIsRunning`, `NoStrandedWaiter`, `OnlyOvertakingExceeds`, `EveryEndAdvances`, `EveryWaiterServed`; *registry*: `RegistryConsistent` (`MapsAgree`, `StatusMatchesData` and `StatusMatchesRun`), `ResultLostOnlyIfCancelledOrGone`, `TerminalIsFinal`; *cli*: `ExitCodeIsTrue`, `CancelledRunExits`; *tenant*: `ConcurrencyBounded`; *audit*: `PagesMissNothing`; *contracts*: `OneRetryRepairs` |
| `limiter_overshoot` | 4 callers, 2 slots, no timeouts | violation of `AtMostMaxConcurrent` |
| `http_reply` | 2 sends, 1 invoke | violation of `ReplyNamesOwnTask` |
| `orchestrator_cancel`, `orchestrator_hang` | default plan | violations of `CancelledRunStops` and of `StepsTimeOut` |
| `enterprise_cache` | 2 senders with one user id, as a developer (office, abroad) and after losing that role, a hash without collisions, a remote policy that looks at the attributes | violation of `OwnInputAllowed` |
| `plan_batches` | two chains of two steps, with a limit of one parallel step | violation of `BatchesWithinMaxParallelism` |
| `cli_cancelled` | 3 steps, 2 signals | violation of `CancelledExitsCancelled` |

The instances of the parts:

* *limiter*: 4 callers, 2 slots, timeouts armed; *registry*: 4 tasks, capacity 2;
* *validator*: every graph of three steps over {a, b, c, missing}, every two-step plan with the
  other attributes, two chains, single steps at any mixture of skill files and at what `init` seeds; three sets of constraints;
* *secret*: each of three providers, 3 calls of any kind, 3 versions of the secret, clock 0..2,
  time to live 1, flight time 1. `VaultBound` lets the secret have its third version only
  while the clock stands at its start;
* *cli*: 3 steps, 2 signals; *tenant*: 4 requests, 2 tasks and 3 requests allowed, clock 0..2, window 1;
* *audit*: 5 entries, pages of 2, both orders, every filter; *contracts*: every role and output.

Why the bounds are enough for the interesting cases:

* *Limiter.* With two slots and four callers two can hold slots while two are parked, or one
  is parked while one is woken and another enters `run`: every pair of {parked, woken,
  rejected, entering, finishing} occurs. The proofs remove the bound for the safety part.
* *Registry.* Four ids in two places: an eviction hits a pending, running, completed and
  cancelled task, and the evicted task's run still ends. The proofs remove the bound.
* *HTTP.* One slot parks three requests; with three sends and a registry of two, a task is
  evicted while its request is still working or still to be answered.
* *Orchestrator.* Three steps are the fewest that make a mixed batch, a join, a fork, a
  chain and a cycle reached from outside it. Every outcome of every step, cancel, eviction
  and the total timeout are allowed at every moment.
* *Plans and skills.* Cycles of length one, two and three, several components, and roots that
  reach a cycle they are not part of are all among the graphs of three steps, and the search
  comes to the dependencies of a step in every order. The proofs remove the bound. Two skill ids,
  one defined twice, in one file or in two, meet every way in which a definition can override another.
* *Enterprise.* Four readers are twice the larger limit, so a window fills, empties and
  fills again while the clock runs over two windows; a fetch, a change, an invalidation and
  a fill can come in any order, and one change is enough for every stale read, since each
  property relates a request to one earlier value. For policy and audit, the clock runs past a
  time to live and a timeout, and two senders suffice for one to reuse the other's decision,
  of the same input, of the same user with other attributes, or of a colliding key, and for
  their appends to interleave (`FewSenders` bounds them; with them the tenant does
  not change). Requests are interchangeable (`SYMMETRY`; neither this run nor `mcp` checks liveness).
* *MCP.* Three calls are the fewest with which one logs, one initialises the memory again and
  a third logs or searches while the two overlap; two processes can read, write and clobber
  each other's file; one kill makes one of them start over on whatever the other left. A second
  kill, or a second exception, finds a process in a state that it can also be in after the
  first. Processes and calls are interchangeable (`SYMMETRY`).
* *Vault.* A stale fill needs a get, a write and a second get; what depends on time needs one
  replacement, what depends on order no time. The proofs remove the bounds.
* *CLI.* One step that has not called yet, one that is connecting and one that is reading can
  meet a signal at once. *Tenant*: three requests between the two middlewares overshoot a
  limit of two, and the fourth comes in turn. Both are proved without bounds.
* *Audit reader.* Five entries are two full pages and a part of one; proved without bounds. *Contracts*: the loop
  ends after the second violation by itself, so nothing is cut off.

## Fairness

* *Limiter, `LimiterFairness`*: weak fairness on executing a job (the engine drains the microtask
  queue) and on the end of each task. Timers get none: a queue timeout is optional, so
  `EveryWaiterServed` holds without one, and without fairness for newcomers.
* *HTTP, `HttpFairness`*: weak fairness on the handlers' own steps, strong fairness on the queue
  timeouts, since a timer fires only between two drains of the microtask queue and is
  disabled while a job is pending. Admitted work is *not* assumed to end: `NobodyParkedForever`
  holds because of the timeout that both servers always configure.
* *Orchestrator, `FairSpec`*: one weak fairness condition on the run's own steps together
  with the beginning and the end of its steps. `HangSpec`, used for `StepsTimeOut`, assumes
  the engine and the limiter to be fair, and of the calls only those to end that `runStep` itself gives up.
  `ImplementsRun` is checked under `FairSpec`: a run resolves as long as its calls end.
* *CLI, `CliFairness`*: weak fairness on the engine and orchestrator going on, on each timer
  that is set, and on a call that was cut off coming to its end (an abort is delivered). A
  provider need not answer, a user need not send a signal, so `CancelledRunExits` holds
  because of the abort. It names its exception: a call that began after the abort does not
  hear of it, and nothing bounds it once its headers have arrived.
* Where parts stand side by side, a part that stands still has no step to take, so its fairness asks for nothing
  (the limiter has no job, the server no request) or is asked of the behaviours about that part only (the CLI).
* The *enterprise* and *mcp* runs and the other parts check safety only: their calls end by
  the outside world answering, which no code bounds.

## Proofs

All proofs are for any number of callers, tasks, requests, slots and capacities.

* **`ConcurrencyLimiterProofs`** (from `LimiterAssumption`: finitely many callers, a
  positive number of slots). `LimiterInvariant`: `Spec => []IInv` with
  `IInv == TypeOK ∧ JobsMatchStatus ∧ QueueIsWaiting ∧ CountIsRunning ∧ NoStrandedWaiter`.
  None of the safety properties is inductive alone: that `Finish` decrements a positive
  counter needs `CountIsRunning`; that the woken caller is a parked one, and its job not
  queued already, needs `QueueIsWaiting` and `JobsMatchStatus`; and `NoStrandedWaiter` needs
  both to know how many callers a step makes woken. From it follow `LimiterTypeCorrect`,
  `CounterExact`, `WorkConserving`, `QueueExact`, and `FirstComeFirstServed` (the action
  property `WokenInOrder`). The proof goes in two halves: the shape of queues and statuses
  (`StepShape`), and the arithmetic of the counter (`StepCount`).
  `CapacityExceededOnlyByOvertaking` says what holds in place of the class comment: the slots taken or
  promised (`Taken`) exceed the capacity only through a call that starts at once while a woken
  caller has not resumed. A hand-over keeps `Taken` (`FinishPromisesOne`, `ResumeKeepsTaken`), and a call
  that starts with nobody woken stays within the capacity (`StartAtOnce`).
  `EveryEndMovesUp` is bounded waiting, the safety half of `EveryWaiterServed`: nobody gets ahead of a
  parked caller, and each end of a task takes one away from those ahead of it.
* **`TaskLifecycleProofs`** (from `RegistryAssumption`: finitely many ids, positive
  capacity). `RegistryInvariant`: the conjunction of `LifecycleTypeOK`, `MapsAgree`, `Bounded`,
  `StatusMatchesData`, `StatusMatchesRun`, `ResultLostOnlyIfCancelledOrGone` and `Fresh` is
  inductive. `StatusMatchesRun` keeps a task whose run has not started out of the
  collections, so that no id is inserted twice; `Fresh` adds that such a task has no abort
  and no outcome yet. `MapsAgree` identifies what an eviction removes. From it follow
  `RegistryAlwaysConsistent`, `RegistryBounded`, `ResultsNotLost` and
  `OutcomesAreFinal` (`TerminalIsFinal`): a terminal task can only be left alone or removed.
* **`HttpServerProofs`** (from `ServerAssumption`: finitely many requests, a positive number of
  slots and of places in the registry, ids of tasks that are no other reply). It instantiates the
  two proof modules above with the server's state and so has their lemmas.
  `ServerInvariant`: `HandlersFollowLimiter` (where a handler is tells where its caller is in the
  limiter) and `RepliesComeLast`, together with the limiter's and the registry's invariants. From it
  `RunningTasksAreLimited`, and `ServersUseRegistry`: `Spec => Lifecycle!LifecycleSpec`, by a lemma for
  each action of the server that says which step of `TaskLifecycle` it is.
  `RequestsServedInTurn`: each step of the servers is a step of the limiter too, or leaves it alone, so the
  theorems about the limiter hold of its requests.
* **`EnterpriseServerProofs`** (from `ServerAssumption` and `GuardsAssumption`: what roles, routes,
  tenants and policies are, and that times are natural numbers). Two invariants share the
  lemmas about each action.
  `FreshInv` says where each cached value comes from: the cache entry of a tenant is a value the
  store had at `fetchedAt`, a request acts for a value the store had at most a time to live before
  it was judged, a cached decision was evaluated on a policy that was in force between the
  question and the answer (`TenantsFromStore`, `AllowsFromPolicy`, over the history `held`). It was evaluated for
  some request with the same key (`Behind`, `Backed`): nothing is assumed of `HashInput`, so inputs may
  share a key because they collide or because the key leaves out where they differ. From
  it `TenantsAreFresh` and `HandlersAreAllowed`, which says no more of a handled request than that one
  of its key was allowed. That the request itself was allowed is `OwnInputsAreAllowed`, under the
  assumption `KeyDecides`: inputs with the same key are judged alike by the embedded rules and by every
  policy. The code does not ensure it for a remote policy (`enterprise_cache`).
  `WindowInv` says that a window holds, in order, the times of the admitted requests of its tenant
  that are still in it, each of them once. `AdmissionsAreLimited` and `RefusalsSayWhen` follow by counting:
  the times in a window are the requests admitted in the interval, and the window had room when the last of them came.
  Together they are `EnterpriseInvariant`.
  `AuditLogVerifies`: the invariant `Chained` says of every entry what `verifyChain` recomputes, its
  content hash and its link; an append keeps it (`AppendedChained`), every step of the server leaves the log
  alone or appends to it, and `verifyChain` then accepts every range. `TrailIsComplete`: `TrailInv`
  says that only a request that is done and due has an entry of the middleware, exactly one, with its outcome.
* **`McpServerProofs`** (from `McpAssumption`: an event for each call, and calls are not processes).
  `CallsFindMemory`: `InitsPrepare` says what an activity may rely on at each stage of `init`, and
  that a server that serves and is not degraded has a database. `LoggedEventsStay`: for each event that no
  overlap concerns, `Kept` says that the file has it or a writer is about to write it, that whoever
  has read the file has it, and that its process is the only one inside a write; events
  that an overlap concerns are never given up silently, they are in `risky`.
* **`OrchestratorProofs`** (from `InputsAssumption`: a plan is an array of steps, their ids are unique, which the
  code does not check, and none is an agent's name; flags are Booleans). The plan may have
  any number of steps and any dependencies. `RunInvariant`: `RunInv` is inductive. Its heart is
  `InBatch` (of the steps that are not completed, only those of the batch under way have been
  touched), with `SequentialReady` and `ParallelReady` (the steps of a batch are ready), `CompletedDone`
  (what is completed has ended, and so has all it depends on), and `AgentsInTurn`;
  `ExecutorOver` and `AbortStops` say why the executor is over. It has one lemma per kind of step.
  From it follow `RunTypeCorrect`, `StepsRespectDependencies`, `SequentialStepsRunAlone`,
  `AbortStopsLaunches` (an action property) and `ExecutablePlansRun`: if steps were left, the
  definition of an acyclic graph applied to the steps left would give one that is ready.
  `OutcomeTellsSteps` adds the registry (`RegistryInv`: before the return the run's task is running,
  cancelled or gone), `EventStreamWellFormed` the positions of each event (`WellFormed`).
  `RunImplementsAbstractRun`: `Spec => Abstract!RunSpec`, each step being a `Launch`, an `End`, a
  `Return` or a stutter; that a run resolves at all is liveness, and stays with TLC.
  Its safety half is `EveryRunEnds`: what a run has left (`WorkLeft`: stages, steps to complete, to launch, to
  begin, to end) shrinks with every move, and the one move that brings something back, the next turn of
  the executor's loop, takes steps into a batch that were in none (`Unplanned`). All of it is finite
  (`WorkIsFinite`), so a run makes finitely many moves, on a plan with cycles too. `LoopInv` is what it needs
  of the loop: when a turn begins nothing of the last one is left to do, and a step is only awaited
  when it has been handed over. `AwaitedStepsAreLaunched`: the executor never awaits a step that nobody will run.
* **`PartProofs`** proves about the parts that share no state with the servers.
  * *Plan validator* (from `PlanAssumption`: plans are arrays with unique ids, residences are paths, skill files
    are sequences of skill elements, limits are numbers). `SearchInvariant`: the calls under way are a path of the graph that visits no step
    twice, and what a call has come to is visited or is what the next call is about
    (`CallsArePath`); what is visited depends on visited steps only, and not in a cycle (`VisitedIsDone`); what the loop
    has got through is visited or being visited (`LookedIsSeen`). When a call comes to a step that is being visited, the calls from there on are
    a cycle; when all has been looked at and no call is left, every step is visited. So `SearchIsCorrect`. The
    recursion of `dfs` is a stack of calls in the model, so no induction over data is needed.
    `LoopsEnd` and `WorkIsFinite` are the same for termination (`LoopWork`): each turn of the search or of the executor
    does away with a step, a dependency or a root that was left and brings none back.
    `ValidPlansRun`: the steps left would be a set in which each depends on another, which an acyclic
    graph has not. `BatchesAreCounted`: the steps of a batch that have the same dependencies are counted by the
    validator, so a batch beyond the limit has two that differ. `RootIsGuarded`: a step that runs and ends up with
    a skill for root is at a residence with root's privilege, which the validator accepted for a context
    with root's powers only; `RunInvariant` is what both the executor's outcomes and the verdict keep.
    What the documentation says beyond that does not hold (`plan_batches`).
  * *Skills*. `EscalationIsExact`: of each skill id the nearest definition counts, and a step escalates exactly if one
    that counts is out of its reach, for any number of files and skills. `loadInheritedSkills` is a fold in a
    fold. What a fold computes is defined by choosing a function that satisfies the fold's equations;
    the proof gives one that does, takes the least index at which the fold would differ from what is claimed, and
    refutes it, so that no induction theorem is instantiated.
  * *Audit reader* (from `ReaderAssumption`: a page has at least one entry). `ReaderInvariant`: what was
    received is what matches up to the cursor, in the order of the reader. `Ranks` is the counting it needs: the
    number of smaller members numbers the members of a finite set. From it `ReaderMissesNothing`.
  * *Agent contracts*. `RetryRepairs`: what is asked for again was refused with the feedback that names
    every missing field, except for a planner.
  * *Vault clients* (from `VaultAssumption`). `VaultInvariant`: besides the two properties, every reply on its way
    (`CallGood`) and the cache entry (`EntryGood`) is bounded in age, and not older than what was settled
    when it was asked for. From it `VaultReadsBounded` and `VaultOwnWrites`.
  * *CLI*. `CliInvariant`: until the process exits the run is undecided, and
    `ExitCodeIsTrue`, which is `ExitCodeTrue`. It says of 0, 20 and 40 that they are right, and that a
    cancelled run that resolves exits with 40; of a signalled run whose `init` fails it says nothing (`cli_cancelled`).
  * *Tenant concurrency* (from `ConcurrencyAssumption`: finitely many requests).
    `GuardInvariant`: types, `CrowdIsBound` (`crowd` is the largest number of uncounted
    requests so far), and `ConcurrencyBounded`, which is `TenantConcurrencyBounded`. `StageCounts` is
    the counting: moving one request changes what two stages count by one.
* **`SequenceLemmas`**: removal at an index, `Tail`, `Append` and concatenation keep a sequence
  free of repetitions, and what they do to its set of elements.

Only model-checked is liveness: `EveryWaiterServed`, `NobodyParkedForever`,
`CancelledRunExits`, and of `ImplementsRun` that the run resolves. Liveness under fairness is beyond the
proof system. For the limiter, the run, the cycle search and the executor the half that
does not need fairness is proved: the queue moves up, and the moves are finitely many. What is
left to TLC there is that a move is always possible and that fairness brings it about.

Every other property of the passing runs is stated by a theorem.

## Disagreements with the documentation

| Run | Code | Says otherwise |
|---|---|---|
| `limiter_overshoot` | `concurrencyLimiter.ts:75`: a call executed between the wake-up and the resumption of a waiter takes the slot too, and `maxConcurrent + 1` tasks run. The excess adds up for as long as somebody is parked, since a hand-over keeps it: each call that overtakes makes it one more. Nothing else exceeds the capacity (`OnlyOvertakingExceeds`) | `concurrencyLimiter.ts:21` "runs at most `maxConcurrent` at once" |
| `http_reply` | `http.ts:155`: the reply names the newest task of the process | `http.ts:154` "Find the task that was created for this run" |
| `orchestrator_hang` | `orchestrator.ts:316`: `stepTimeoutMs` is not read | `types.ts:88` "Timeout per step in ms" |
| `orchestrator_cancel` | `orchestrator.ts:172`: the abort signal reaches the LLM call only and is not looked at between steps, so the steps of a cancelled task go on | `http.ts:190` "Cancel a running task", `types.ts:96` "AbortSignal for cancellation" |
| `plan_batches` | `planValidator.ts:145` counts parallel steps with equal dependencies, the executor's batches are larger: two chains whose second steps are parallel exceed a limit of one | `planValidator.ts:22` "Maximum parallel steps in any batch" |
| `cli_cancelled` | `cli.ts:208`: a run that is cancelled during `init`, which then throws, exits with 30 | `cli.ts:26` "Cancelled by user (SIGINT/SIGTERM)" |
| `enterprise_cache` | `policy/engine.ts:28`: the key of the decision cache leaves out attributes and context, which OPA is sent, so an allow is reused for an input OPA would deny | `policy/middleware.ts:9` "Enforces authorization policies on HTTP requests." |

Noted without a run, because they follow from reading a line or two:

* The result of a run is "ok" when the steps of the plan succeeded, even when the synthesizer failed or the
  parser escalated (`orchestrator.ts:290`); `cli.ts:22` says "Success, all steps completed" of the exit code that follows.
* Of the capabilities of a residence only `escalate` and `network_access` are compared with the allowed ones
  (`planValidator.ts:255`); `planValidator.ts:24` says "Capabilities the current context is allowed to use".
* The header names the tenant whoever sends it, and everything later compares with that tenant only
  (`auth/middleware.ts:163`); the comment on that line says "allows tenant switching for admins", and
  `README.md:90` "Cross-tenant access denied by default". `EnterpriseServer` does as the code does: a caller has
  the tenant of its token and that of its header, and the readers of the `enterprise` run use the header.
* Audit endpoints have no policy action, and the embedded engine denies unknown ones
  (`policy/middleware.ts:38`); `README.md:83` says of auditors "Read audit logs, no task execution".
* `query` sorts newest first by default, over HTTP always (`enterpriseHttp.ts:59`), and what a full page cut off
  comes with no later one (`audit/store.ts:147`); `audit/types.ts:170` says "Start sequence (for pagination)".
  `PagesMissNothing` leaves out just that (`cut`).
* A step escalates if any skill its residence inherits needs a higher privilege (`orchestrator.ts:592`), and `init`
  seeds the root-only skill `escalate` where every specialist inherits it (`engine.ts:106`), so every
  step at a seeded specialist escalates; `Liku/root/supervisor.prompt.md:17` (from the checkout's root: `src/Liku/...`)
  says "When an action requires a skill with `requiredPrivilege=root` that is not available at the current residence:".
* Two processes on one memory, or an init that overlaps a log, lose events: the next flush
  writes an image that does not have them (`sqliteMemory.ts:138`, `:155`). No document says
  that the memory may be shared, so `LogIsDurable` leaves exactly those events out, and the
  hazards of a torn write and of overlapping processes have no property.
* `planValidator.ts:4` says plans are validated before execution; the orchestrator never calls
  it. `executeSteps` and `config.maxConcurrency` are unused as well.
* A `tasks/send` is recorded twice, by the handler and by the middleware, and the two
  outcomes may differ (a run that ends in error is "failure" and, with status 200, "success").
* Nothing mounts the counting of a tenant's running tasks, so the concurrency limit of a
  tenant never refuses. Mounted as exported, it may be exceeded by the requests between the two middlewares
  (`ConcurrencyBounded` says by how many).
* A step that escalated counts as completed in the executor, so the steps that depend on it run.
* `skills/types.ts:22` says "missing capability triggers escalation instead of error"; without that
  flag a missing capability has no effect at all: it does not escalate and is no error. A
  misspelt `requires` attribute drops the requirement (`skillsXml.ts`).
* The exit code 10 of `liku run` (a partial result) cannot occur, since the CLI leaves `abortOnError`
  set.
* An LLM call that the caller aborts is reported as a timeout that may be retried, and a signal that
  has fired already is not looked at (`openai.ts:86`): `deaf` in `CliRun` are those calls.
* A get of a vault client whose reply left before a `set` of the same client fills the cache with the
  old value after the invalidation; `OwnWritesVisible` leaves exactly those writes out. The token of the
  HashiCorp client is never renewed.
* The header of `contracts.ts` describes a retry loop that nothing runs; the verifier has no contract, and a
  planner's contract names one fault at a time, so one retry need not be enough for it.

## Abstractions

* *Event loop.* A step is what runs between two `await`s. In the limiter the order of
  microtasks is kept, because the overshoot depends on it; elsewhere any order is allowed. In
  `EnterpriseServer` no time passes while a request has a microtask pending, which is right
  for the in-memory tenant store it is built with.
* *Steps of a plan.* A call to an agent or to the LLM is its outcome. Other runs share the
  orchestrator's limiter, so a launched step may begin at any later moment, in any order.
  Step ids are unique and distinct from the agents' names, and `dependsOn` has no
  repetitions (the validator compares dependencies as joined strings; ids contain no comma). Events are all enabled; listeners get them in order.
  The `catch` of `run` (`orchestrator.ts:300`) is left out: `runStep` does not throw, so only a malformed
  `input.plan` gets there; a listener that throws does not, its handler runs in a microtask of its own.
* *Registry.* `generateTaskId` does not repeat itself and the clock does not go back, so the
  oldest task is the first inserted.
* *Plans.* `parsePlannerOutput` always falls back to the default plan, since no output of
  `runStep` has the field it looks for; other plans come in as `input.plan`.
* *Requests of the enterprise server.* Verifying a token changes no state: a bad one is
  answered 401 and goes no further. A user has one role. The hash of the decision cache is any
  function of the fields it keeps; attributes and context are one value; the audit hash is taken to be
  free of collisions. Statuses are classes: 400 stands for 404 too, 500 for 503. A throw of
  a handler is turned into a response by the framework before the audit middleware sees it. An answer of OPA
  that is `null` is a `TypeError`, which is answered 500 in place of 403; nothing is cached either way.
* *Time* is in units in which window, times to live and timeouts are whole numbers; a due OPA
  timer fires before the clock moves on. A rate limit of 0, whose `Retry-After` is not a
  number, is left out of `RetryAfterIsEnough`; so are limits lowered after the refusal.
* *Memory.* The file is absent, torn, or readable with a set of events: SQLite refuses a file
  cut off in the middle, reads an empty one as an empty database, and two writers at once may
  leave a mixture. A directory that cannot be made counts as a failed load. Events are kept,
  not ranked: of `search` only whether it answers. The server's limiter is a place where an
  invoke waits (`Park`), from which it is let in or refused; the limiter itself is in
  `ConcurrencyLimiter`.
* *What `LogIsDurable` leaves out*: an event for which, when it was written, another image or
  an opened file existed without it; and all events once somebody read, took over or wrote the
  file in the middle of another's write, or a write was abandoned (a kill, an error).
* *Secrets.* One secret stands for all, since the clients keep nothing across keys but the token.
  Its value is whether it is there. A request travels for at most `FlightTime`, the code
  sets no limit; a microtask of a local client is not outlived by time.
* *CLI.* The process ends with its first `process.exit`. Each step makes at most one LLM call.
* *Skills.* A path segment is reduced to what the code looks for in it, a skill to id, privilege,
  requirement and flag.
* *Contracts.* An output is reduced to its shape, the `bundleOnly` flag and which of the requested
  fields it has with the right type; `dependsOn` of a planner's steps is not looked at by the code either. An output that makes `parse`
  itself throw is left out. The lines of the shared operators in `PROJECT.json` each show one role's contract.
* *Bounds*: `MaxTime`, `MaxVaultTime`, `MaxGuardTime` on clocks, `MaxChanges` on changes from outside,
  `MaxKills` and `MaxFaults` on killed processes and uncaught exceptions, `MaxVaultCalls`,
  `MaxVersions` and `VaultBound` on the vault, `MaxSignals` on signals, `MaxEntries` on the audit log,
  `FewSenders` on the enterprise run. Nothing else is capped.

## Not modelled

Left out for good: the engine's file trees, prompts and paper trails, `liku init`, `serve` and
`task:new`, argument parsing, configuration and start-up (I/O without decisions that outlast a
call), token decoding, CSV export, package entry points. Parts no server reaches are named in
`PROJECT.json` with their component: `loadPolicies`, `createPolicyChecker`, `executeSteps`,
`findEscalationRequired`.

## Plan

Done, in this order: limiter and registry with their proofs; the HTTP composition; orchestrator; plan
validator; the enterprise chain with the proof of its audit log; memory and MCP server; vault
clients, CLI with the OpenAI client, tenant concurrency, audit reader, contracts and skills; the
refinements `Orchestrator` → `AbstractRun` and `HttpServer` → `TaskLifecycle`; the proofs of the
orchestrator, the vault client, the CLI and the concurrency guard; the proofs of the HTTP composition,
the enterprise chain, the MCP server and its memory, the audit reader, the contracts, the plan validator and
the skills; that runs, cycle search and executor make finitely many moves, and that the limiter's queue moves up.

What remains, most important first:

1. An abstract log
   that the memory of one process that initialises once implements.
2. Two runs on one orchestrator, with the limiter between their steps instead of any order.
3. The enterprise server without OIDC, and `loadPolicies` while requests are judged.

## Running it

```
tlc -workers 2 -config MCParts.cfg MCParts.tla   # any run of PROJECT.json
tlapm ConcurrencyLimiterProofs.tla               # any *Proofs module
```

The longest runs (`mcp`, `http`) take about three minutes on two cores, the longest proof about a minute and a half.
