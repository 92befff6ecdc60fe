# remote-workflow-engine in TLA+

The engine runs scripts ("workflows") for its clients. A run is started by a tool call, by a
schedule or by a webhook; its script executes in a forked sandbox child and asks the engine
for model calls (`agent()`); the run's rows, its journal and its outcome are in SQLite. A run
can be suspended, resumed and stopped, and it survives a crash of the engine as
`interrupted`.

This directory holds models of the parts where order matters, TLC runs of them, and TLAPS
proofs. Paths below are relative to the repository (`src/run-manager.ts` is `src/src/run-manager.ts`
in `PROJECT.json`).

    tlc -workers 2 -config MCRunLifecycle_core.cfg MCRunLifecycle     # one run
    tlapm RunLifecycleProofs.tla                                      # one module of proofs

## The system

The engine is **one Node process with a synchronous store** (better-sqlite3). Code between two
returns to the event loop is atomic with respect to other handlers; several writes in it are
not atomic with respect to a crash, and each can throw. `await` on something already resolved
gives way to microtasks only. So the interleavings worth modelling are at the few places where
the code really waits: the price book (`modelBook.snapshot()` when cold or expired), fetching a
seed, checks of the catalog and assets during admission, a slot of a semaphore, a gateway call,
the events of a child process, a timer, the closing of the HTTP server.

### Components

| Component | State | Operations | What makes it correct |
|---|---|---|---|
| Run lifecycle (`run-manager.ts`) | `_runs` (entries: status, sandbox, abort controller), the run's row | start, suspend, resume, stop, settle, shutdown, boot | one live execution per run; terminal is final; entry and row agree; a value or a reason is durable before the status; running runs settle |
| Run store (`store/sqlite-run-store.ts`) | `runs`, journal, usage rows | createRun, setStatus, recordResult/Error, hydrateAll | only `running` rows are reclassified at boot |
| Agent dispatch (`_handleAgentRequest`, `run-guard.ts`, `agent-semaphore.ts`, `agent-executor.ts`, `resume-cache.ts`) | slots of a run and of the host, spending, the resume plan | replay, acquire, check, call, charge, journal, release | no slot lost; bounded overshoot; nothing at the gateway for a stopped run; only a prefix replayed |
| Nested workflows (`_handleWorkflowRequest`, the second guard of a run, `_frameBaseFor`) | frames, their numbers, descendants, slots of the `workflowGuard` | admit, number, queue, fork, settle, abort | no slot lost; the ceiling of descendants kept; numbers apart; no child left behind; every call answered |
| Sandbox host and child (`sandbox/`) | child process, IPC pipe, settled latch | fork, kill, message, close, watchdog | an execution settles once |
| Schedules (`scheduler.ts`, `scheduler-engine.ts`) | one row per schedule | create, enable, claim, release, delete, tick, mark, re-arm | no instant fires twice; a due one fires; its outcome is on the row |
| Webhooks (`webhook-registry.ts`) | webhooks, deliveries by id | create, claim, release, delete, deliver | one run executed per delivery id; all deliveries of an id answer alike |
| Workflow catalog (`workflow-catalog.ts`) | versions and their numbers, channels, declared triggers | insertVersion, publish, deregister(Version), resolve, boundVersionFor | a number never stands for two scripts; a trigger belongs to one workflow; channels point at versions that exist |
| MCP facade, tools (`mcp-facade.ts`) | - | checks of arguments; claims and their compensation around the catalog's writes | a refused call changed nothing; claims and declarations agree |
| Process and HTTP server (`main.ts`, `server.ts`) | listener, ticker, shutdown flag | boot, tick, SIGTERM | boot reclassifies before it serves |
| Model book, probe, statistics (`models/`) | cached price book, probe results | snapshot (single flight), expire, probe | every waiter of a refresh is released |
| Model gateways (`gateway/`) | sessions, proxies | run, abort, timeout | a call ends, and its usage is charged once |
| Confinement, net guard | - | verdicts on paths, commands, addresses | pure decisions |
| Direct models (`direct-models/`) | - | decision and image calls, retries | a retry is charged; an image is replayed |
| Parameters, providers | - | resolve | pure |
| Static script analysis | - | checks of scripts and diagrams | pure |
| Content store and seeds (`cas-store.ts`, `cas-quota.ts`, `workspace-seed.ts`) | blob files, references by namespace | put, streamed upload, missing, load, prune | a row has its file; a seed in use is not pruned; the quota is not passed |
| Workspaces (`workspace-gc.ts`) | directories of runs | collect, snapshot | nothing resumable is collected |
| Asset sync (`asset-sync.ts`) | skills, MCP assets | push, remove | what a run needs is present |
| Authentication (`auth/`) | states, codes, tokens, sessions, service accounts and their secrets | ask, callback, exchange, rotate, revoke, delete | what is good once is not good twice; a token does not outlive its account into the next of its name |
| Authorization (`authz.ts`, `principal-admin.ts`, `role-store.ts`) | overrides of roles | resolveRole, checkRoleChange, setRole | the last admin stays |
| Secrets | - | resolve, redact | pure |
| Self-update | - | replaces the process from outside | runs survive |
| Issue reporter | - | posts reports | none here |
| Dashboard and documentation | - | views | none |

How they interact: start() is called by the tools, by the ticker (`scheduler.ts` tick, resolve,
start, mark) and by `POST /hooks/:id`. It writes the run's row, enters `_runs` and forks the
child. The child's messages call agent dispatch, which shares the entry's abort controller and
the run's guard with the lifecycle, and one semaphore with all runs. The catalog claims and
releases schedules and webhooks when a workflow is registered or deregistered; its versions are
roots of the content store, and runs pin them. The price book is shared by start, rehydration,
registration and dispatch. After a crash everything is rebuilt from SQLite.

What is hard: two requests that both wait for the book and then both build an entry; a child's
outcome that arrives after its run was suspended, resumed or stopped; a store write that throws
in the middle of a handler; a crash between two writes; a call that waits for a slot while its
run changes; a frame that holds a slot while it waits for frames in line for the same slots; a dispatch
that outlasts the tick; a delivery that is retried while the first one
is on its way; handlers that write to two or three databases and die between them; blobs that are
looked up before a wait and used after it. `PROJECT.json` lists each of them as a hazard at its line, with the properties
that cover it, or says why none does.

## The models

### RunContract and RunLifecycle

`RunLifecycle` is the life of top-level runs. Entries are objects with an identity, because
`_requireLive` may build a second one for a run: `cur[r]` is the entry in `_runs`, `status[r][k]`
is what entry `k` says, `exec[r][k]` is the execution its `sandbox` field stands for, and
`owner[r][e]` is the entry the closure of `_runLive` captured. An outcome settles a run only when
`exec[r][owner[r][e]] = e` and that entry is running (`MaySettle`), which is the code's
comparison in `_runLive`.

| Action | Code |
|---|---|
| `StartAdmit`, `StartRefused`, `StartFetch`, `StartLaunch`, `StartThrows`, `StartSeedFailed` | `start()`, cut at its admission await and at the seed fetch |
| `SuspendCached`, `StopCached`, `ResumeCached`, `ResumeDropped` | the three tools on a run in `_runs` |
| `Ask`, `ServeAtOnce`, `ServeWaiting` | the same on a run that is not, through `_requireLive` and the price book |
| `BookRefreshed`, `BookExpires` | the single-flight refresh and its TTL |
| `SettleResult`, `SettleError`, `SettleIgnored` | the continuation of `sandbox.execute` in `_runLive` |
| `Crash`, `CrashAfterCreate`, `CrashAfterRecord` | the process dies between turns, or between two writes of one |
| `Shutdown`, `Exit`, `Boot` | `shutdown()`, the end of `main.ts`, `hydrateAll` |

When the book is refreshed all waiters are continued in one burst of microtasks; `draining`
keeps other macrotasks out until they are through. `Stored`/`Thrown` is a write that goes
through or throws; each action says what is left when it throws.

Abstractions: what a start is refused for; the value of a result; `substitute` stands for the
whole `legacySubstitution` decision, and `RefusedRuns` for the runs whose substitute this host
refuses. Entry and execution names are reused once free, so the bounds on them limit how many
exist together, not how many there are in all.

`RunContract` is what a client may rely on: the status machine, and that the script executes
exactly while the run is running. It knows nothing of entries, sandboxes or caches. The mapping is
`Contract` in `RunLifecycle`: the status is the row's, and a run executes when one of its executions
is alive.

### The other contracts

Six more modules say what a component promises in terms of its clients; the detailed module of
the component states that it implements them, with the mapping beside the property.

| Contract | Promise | Implemented by |
|---|---|---|
| `SlotPool` | slots of a counting lock are handed out first come, first served, and lost only with the process | the host's semaphore and every run's guard in `AgentDispatch`, the `workflowGuard` in `NestedWorkflows` (`SlotsInOrder`) |
| `SignIn` | a visit of the sign-in page is worth one thing at a time, each had for the one before it | `AccessControl` (`SignInsFollow`: `places` reads off the rows what a visit is worth) |
| `Verdicts` | a delivery id comes to one verdict that stands, and no run is two ids' | `WebhookDelivery` (`VerdictsStand`: `fate` is the row's, `told` what its senders were answered) |
| `Timetable` | cron schedules ring at instants that have come, each later than the last; one-shots only when allowed | `ScheduleFiring` (`OnTime`: `rung` and `shots` are read off `firings`) |
| `Registry` | versions, numbers, channels and pins change as in one store: a number is given once, a trigger serves one workflow, what is pinned or published goes only with the whole workflow | `WorkflowCatalog` (`ActsAsRegistry`: claims, registrations that wait and halves of handlers are forgotten) |
| `Leases` | a seed that was found is lent to who found it; what is lent, or a version's, stays | `ContentStore` (`SeedsLent`: `lease` is what a waiting start or registration has found) |

`Leases` has no clock, no files and no quota, since what
protects a waiting start in the code is only that a prune spares what was used within its grace.

### AgentDispatch

One `agent()` call, from the child's message to its journal entry. A macrotask (a message, a
gateway's answer, a control request) is an action that waits for `Quiet`; the continuations it
releases (a granted slot, a finished call) are actions of their own and run before the next one,
in any order, since the order of microtasks across calls is not something the code fixes. A
call's place in `at` is its position in `_handleAgentRequest`. `spent` counts calls' costs in
units of one call. The plan of a resumed run is the set of callSeqs whose last journal entry is
settled; the match on the call's content is not modelled (a script is taken to repeat itself).
`replayed` is of the present execution only.

### NestedWorkflows

The tree of scripts of one run. A frame is a path of callSeqs and the execution it belongs to; the
tree and the workflow called at each place are constants.

| Action | Code |
|---|---|
| `Ask` | the child's `workflow` message is in the pipe |
| `Receive` | `_handleWorkflowRequest` up to the model book: abort, depth, cycle, ceiling, fitness, arguments; a refusal of the arguments gives the place among the descendants back |
| `Admit` | behind the model book: `_frameBaseFor`, then `acquireSlot` of the `workflowGuard` |
| `GrantSlot` | the continuation with the slot: the generation is compared again, then the fork |
| `AgentCall` | an `agent()` call of a frame, replayed or journaled under the frame's number |
| `Finish`, `Deliver`, `Die`, `Close`, `Deadline` | the child's end and what the host makes of it; `Settle` gives the slot back and answers the caller |
| `Suspend`, `Stop`, `Resume` | the abort of all that listen to the entry's signal; the counters start anew, the guard does not |
| `Crash`, `Boot` | children may outlive the engine; `sweepOrphanSandboxChildren` kills those on record |

### ContentStore

Rows, files and uploads of all namespaces. `Stored` is the end of a streamed upload, where the
quota is looked at again; `Job` is a start or a registration which found its seed (`Load`) and waits for
the price book before it uses it (`Materialize`, `InsertVersion`). `Prune` is one call of
`workspace_prune_blobs` for one namespace; `CrashInPut` and `CrashInPrune` are the gaps between its
writes to the database and to the disk. Time is in days, since a prune spares at least one, and the
last use of a row is told apart up to `MaxIdle`. That a start waits less than the shortest
grace (`StoreAssumption`) is what the timeouts of the price book's fetch give.

### WorkflowCatalog

Versions, channels, claims and the runs pinned to versions. Schedules and webhooks are claimed,
released and fired alike and are one set of triggers here. `RegisterBegin`/`RegisterEnd` are
`workflow_register` before and after its wait for the price book, `RegisterRefused` its
compensation; `Deregister` and `DeregisterVersion` are the two forms of `workflow_deregister`;
`StartBegin` and `Fire` resolve a version, `StartEnd` pins it; `Rehydrated` is what `_requireLive`
takes for an interrupted run. The four databases are not written in one transaction: each
`CrashIn...` action keeps any part of a handler's claims or releases.

### AccessControl

A sign-in is one visit of `/authorize` or of the dashboard; the rows it leads to are counted, so that
a second use would be seen. `Consume` is the callback before its fetch from Google, `Verified` after it;
`Exchange` and `Refresh` are `tokenExchange`. Each secret and token of a service account carries the birth of
the account that it was given to (`born`), which the code does not store: it is what the property
compares. `SetRole` is `setRole` behind `checkRoleChange`. The crashes fall between the two
statements of `tokenExchange`, of the creation and of the deletion of an account.

### ScheduleFiring

A row per schedule, created, enabled, claimed, released, deregistered and deleted; `firings` is the history of dispatches with their outcomes. `Tick(s)` is one
row of one tick: claimFiring and the resolution of its target, with no wait between them.
`Mark` is markFired, markFailed or markRefused when start() answers. A restart takes at least one
unit of time. All cron rows share one expression, given by the set of its instants. Rows with a
workflow bound at creation (`legacy`) are only in the initial state: the tools refuse to create
them today, older releases did, and only they, claimed since or not, are re-armed at boot. The resident trigger and the
grammar of cron expressions are not modelled.

### WebhookDelivery

`deliver()` waits twice: for the catalog and for `start()`. `Receive` is the code up to the
first, `Resolved` the code between them (with the `INSERT OR IGNORE` that claims the id) and
`Started` the rest. The catalog behind the port resolves without a macrotask in this build; the
model lets it take time, as the port's type does. `start()` may throw before createRun or after it,
when the workspace is seeded, when the row turns running or in createRun itself, once the row is there
(`Leaves`): such errors have no code of the catalog, so the answer is 500, the id is free again, and a
run stays behind that `start()` did not execute (`begun` is FALSE). What is refused for good is thrown
before createRun. `Crash` may leave one run that no row tells of, begun or not: between
createRun and the row nothing else runs, but files and a repository are made, so at most one
delivery is at that point. `begun` speaks of `start()`: what becomes of a run later, also of one left
behind, is `RunLifecycle`'s. One whose transition threw has a live entry that says running, and whoever
suspends and resumes it executes it. The statements of the webhooks' own database are taken not to throw; one that
does between `start()` and the outcome leaves the id in progress until the next boot.

## What is checked

All bounds are constants of the `.cfg`: `MaxRestarts`, `MaxCrashes` (crashes and shutdowns),
`MaxFaults` (writes that throw), `MaxExecutions` (1 + resumes of a run), `MaxTime`, `MaxFirings`,
`MaxArms`, `MaxRequests`, `MaxWait` and `MaxIdle` (days), `MaxVersion` (version numbers per name),
`MaxBorn` (accounts per name). `CHECK_DEADLOCK FALSE` is set where all runs, firings, deliveries or
calls may be over and the bounded history leaves nothing to do; the other runs check deadlock.

| Run | Instance | Shows |
|---|---|---|
| `core` | 2 runs, one with a refused substitute, 1 caller, cap 1, 1 restart or shutdown, 1 throwing write; 317K states | `SingleExecution`, `TerminalIsFinal` and the inductive invariant `Consistent` hold, also when a write throws |
| `contract` | the same without faults and shutdown, under `FairSpec`; 41K states | the engine implements `RunContract`; entry and row agree; value and reason are durable first; running runs settle; waiting requests are answered |
| `calls` | 1 run of 3 calls, 3 slots of its own and 2 of the host, budget 1, late messages of killed children, 1 crash, 1 resume; 31K states | no slot is lost or doubled; nothing of an aborted run is at the gateway; the overshoot is bounded; only a prefix is replayed; every call leaves; the semaphore and the guard implement `SlotPool` |
| `frames` | 3 `workflow()` calls, one of them inside another, 1 slot, 2 descendants, late messages, 1 crash, 1 resume; 625K states | slots, descendants and numbers are right; nothing runs under a fired signal; no child is left behind; every call is answered |
| `cron_once_each` | 1 cron schedule, instants 1, 2 and 4, up to 4 firings, 2 crashes; 13K states | no instant fires twice; a due one is fired; outcomes are on the row |
| `one_shot` | 1 one-shot, enabled up to 3 times, 3 firings, 1 crash; 47K states | it fires at most once for every time it was enabled |
| `deliveries` | 1 webhook, 1 id, 3 deliveries, 1 crash; 181K states | all deliveries of an id answer alike; until a crash `start()` executes one run of it at most, the one its row names; an id in progress has an owner, and does not stay so |
| `store` | 2 namespaces with quotas 2 and 1, a manifest, its file and another file, 2 uploads, 1 start or registration, 1 crash; 739K states | rows have files; quotas hold; seeds of versions and of starts stay whole |
| `catalog` | 2 names with 2 and 1 version numbers, 2 triggers, 1 registration and 1 run at a time, 1 crash; 1.14M states | numbers are not reused; a trigger belongs to one workflow; claims follow versions; channels resolve |
| `access` | 2 sign-ins, one of the dashboard, 1 name for 2 accounts, 3 secrets, 2 people, 1 crash; 164K states | nothing is good twice; tokens act for the account they were issued to; the last admin stays |

Why the bounds are enough. Runs touch one another only through the admission cap, the book, the
semaphore and `draining`: two of them meet in each. Two execution names let an old child be dying
while a new one lives, and a third is never needed while each entry has one `sandbox` field. One
restart separates a life before from one after it. In `calls`, two host slots let call 1 be journaled
while call 0 is cut, so that the journal has a hole for `PrefixReplayed`; budget 1 with concurrency 3
makes `BoundedOvershoot` tight, and late messages bring more calls than the run has slots. In `frames`
one slot makes the inner call wait for its caller's slot and one more call than descendants makes
the ceiling matter. The races over a delivery id need the first
delivery, one that comes while it is on its way, and one that comes after it. Instants 1, 2 and 4
give two adjacent ones and a gap; a second crash finds rows that a boot has already re-armed. Two
uploads of one namespace pass the preflight before either is stored; a manifest and its file are the
least seed with two parts; two days tell a row that a prune may take from one that it may not. Two
workflows compete for a trigger, and a name with two numbers can lose one and be asked for the next.

`TerminalIsFinal` and `SingleExecution` have one caller in `core`, since they fail with two: see
`race` below. Symmetry is used between uploads, between triggers, between scripts and between
secrets, in runs that check no liveness.

### Fairness

- *Lifecycle.* `BookRefreshed` (the fetch has its own timeout, and its failure too ends the
  refresh) and `ServeWaiting` (microtasks drain) are weakly fair. `Settle` is strongly fair: a
  killed child closes, a running one meets its `maxRunDurationMs` timer; it is disabled while
  requests drain, hence strong. Clients, crashes and reboots owe nothing.
- *Dispatch.* Continuations are weakly fair. `Answer` is strongly fair: a gateway call ends at the
  latest at its `timeoutMs`, but other macrotasks come between.
- *Schedules.* The 500 ms ticker serves every due row, `start()` answers, and the supervisor starts
  the engine again. Time owes nothing: a row that is due stays so.
- *Deliveries.* `start()` answers, and the engine is started again. The catalog owes nothing.
- *Frames.* Messages in a pipe, continuations and `close` events are served (`EngineStep`), and the
  `maxRunDurationMs` timer of some script fires as long as there is one under way (`Deadline`). Scripts owe nothing: they
  may hang. The other modules state no liveness: their handlers wait for nothing but timers of their own.

### Disagreements with the documents

Two runs end in a violation of something a document or a comment of the repository says;
`PROJECT.json` quotes each.

- `race`: two control requests that wait together for the price book each build an entry with the
  status read before the wait (`run-manager.ts`, `_requireLive`); a stop and a resume both go
  through, and the run goes from stopped to running.
- `nested_stall`: frames hold their slot of the `workflowGuard` while they wait for frames below them,
  which are in line for the same guard. Two frames that each call `workflow()` fill two slots, and
  only their deadlines end the wait (`SlotsFlow`).

More such instances are kept beside the runs, each a `.cfg` to be run by hand on the module it is named
after:

- `MCRunLifecycle_cap.cfg` (`CapRespected`): `start()` counts the live entries first and inserts its
  own after several awaits, so starts in flight together pass `maxConcurrentRuns`; after a boot an
  interrupted run that is resumed enters without being counted.
- `MCRunLifecycle_shutdown.cfg` (`ShutdownKeepsRunning`): a child killed by `shutdown()` settles
  while the HTTP server is closing, and the run is recorded as failed where the comment wants it
  left running for the next boot.
- `MCAgentDispatch_stale.cfg` (`NoSecondDispatch`): a call that waits for a host slot reads the abort
  signal only when it gets it; after a suspend and a resume that is the new one, so the old call is
  made, journaled, and then made again by the resumed script although its result is in the journal.
- `MCWebhookDelivery_leftover.cfg` (`OneRunPerId`, without a crash): `start()` throws after createRun
  (`run-manager.ts:1367`; the seeding at 1422-1429 or the transition at 1523), where the comment of
  `deliver()` says "Any failure starts NO run". The delivery is answered 500 and its row deleted
  (`webhook-registry.ts:553`), and the retry of the same id makes a second run. The first stays
  behind; `start()` has not executed it, so that it is still at most one run that begins.
- `MCWebhookDelivery_crash.cfg` (`OneBegins`): DEPLOY.md says that an accepted delivery is exactly
  once. A crash between the start of the run and the row of its delivery leaves a run that
  began, and the sender's retry executes another.
- `MCNestedWorkflows_replay.cfg` (`ReplayIsOwn`): frames are numbered when they are first touched,
  after awaits, where the comment calls the number deterministic and the same on a resume. In another
  order the agent of one frame is answered with what another frame's agent of the same prompt said.
- `MCWorkflowCatalog_stuck.cfg` (`InterruptedCanStop`): after `workflow_deregister` of a name an
  interrupted run of it can neither be resumed nor stopped, where the comment in `_requireLive`
  wants every run to reach a terminal state.
- `MCWorkflowCatalog_fires.cfg` (`FiresDeclared`): a crash between the claim of a trigger and the
  version that declares it leaves the claim, and a firing then starts the release of a workflow
  that never declared the trigger.

Others of these instances pass: `MCAgentDispatch_shared.cfg` (two runs of two calls over one host
slot, with `NobodyStranded`; 461K states), `MCAccessControl_signin.cfg` (`SignInsFollow`, 465K states), `MCWebhookDelivery_verdicts.cfg`
(`VerdictsStand` with two ids, 956K states), `MCScheduleFiring_timetable.cfg` (`OnTime` for a cron
schedule and a one-shot, 1.56M states), `MCWorkflowCatalog_registry.cfg` (`ActsAsRegistry` with one
trigger, 179K states) and `MCContentStore_loans.cfg` (`SeedsLent`, 1.29M states).

Observed in the code or in models, without an instance: a result stored just before a
crash is what `run_result` answers of a run stopped after it; `recordResult` that throws leaves
the run running with no execution (`Consistent` allows it, `RunningCanSettle` is checked without
faults); a request that a killed child left in the pipe is received after the resume; a legacy
schedule row is moved past an instant that was due when the engine went down; the late outcome of
a one-shot disables it again after a `schedule_setEnabled(true)`; when the default role is admin,
`checkRoleChange` counts service accounts as admins, so that the last person may be demoted.

## What is proved

Every theorem is for all values of the constants, `MaxRestarts` in `CapHolds` excepted, under the assumptions named in the modules:
`CapAssumption`, `RefusedAssumption`, `IdsAssumption`, `DispatchAssumption`, `NestedAssumption`,
`ScheduleAssumption`, `WebhookAssumption`, `StoreAssumption`, `CatalogAssumption`,
`AccessAssumption`. They say that bounds are naturals, that sets are finite where the code counts
them, that a name of nothing is not a name of something, and, in `StoreAssumption`, that a wait for
the price book is shorter than any grace of a prune. Each module of proofs opens with its invariant.

- **RunLifecycleProofs.** `TypeCorrect` needs nothing more. `AlwaysConsistent`, `OneExecution` and
  `TerminalStays` assume `SerialControl`, at most one caller, so at most one request per run waits
  for the book; `race` shows that they fail without it. Store faults, crashes and shutdowns are
  included. `SingleExecution` is not inductive: that a resumed entry may fork a child is safe only because
  the killed one no longer counts, because a request waits only for a run with no entry and a row still
  as it was read, and because a start under way has no entry. `Consistent` says so, run by run:
  `StartConsistent`, `EntryConsistent`, `RequestConsistent`, `ChildConsistent`, `DownConsistent`. A
  step of one run leaves the others' conjuncts alone (`Untouched`), and there is one lemma for each
  group of actions. `TerminalStays` needs more than its guard: a terminal row whose entry said
  suspended could be resumed; `EntryConsistent` excludes it.
  `RecordedFirst` assumes only a store that does not throw (`StoreWorks`). `EntriesMatchRows` and
  `RunningRunsCanSettle` assume it with `SerialControl`, and `ContractKept`, the refinement of
  `RunContract`, also that nobody shuts the engine down gracefully (`NoShutdown`: see
  `MCRunLifecycle_shutdown.cfg`). They rest on `Served`: the entry says what the row says, a running
  run has an execution that may settle it, and a killed child may not.
- **AgentDispatchProofs.** The counters are cardinalities of the sets of calls that hold a slot
  (`HostOK`, `GuardOK`), and what is charged plus what passed the check stays below budget plus
  width (`SpendingOK`), since a call passes only while the budget is open and holds one of the run's slots.
  `OnlyPrefixReplayed` needs that a call is sent once (`SentOK`) and that an execution which has not
  missed has replayed all it has sent but what is still in the pipe (`ReplayOK`).
  `NobodyIsStranded` is what of `CallsLeave` is safety: whoever waits is in the line (`HostLine`, `GuardLines`),
  a line forms only behind holders, and who holds a slot of the host waits for no lock.
- **NestedWorkflowsProofs.** `GuardOK` is the same for frames. The ceiling holds because children
  forked and frames on their way to one are counted together (`CountedOK`). A frame under way
  listens to the present execution or to an aborted one (`SignalsOK`); no number is beyond the count of those
  given (`NumbersOK`); every process is on record, and while the engine is up runs a script it waits
  for (`ProcessesOK`).
- **ScheduleFiringProofs.** `NoInstantFiresTwice` speaks of firings; its strengthening says that every
  firing of a cron schedule was for an instant before the one in its row (`FiredBeforeNext`), and
  that a schedule with a firing was armed (`FiredWasArmed`), so that a deleted id is not created again.
  The step at a claim rests on `After(now) > now >= nextFire`; that the set of later instants has a
  least element is a lemma from well-foundedness of the naturals. `OutcomesAreOnRows` says for each
  firing what its row still tells (`OutcomesTold`). `OnceFiresOncePerArm` counts a row that may still fire
  with the firings (`Spent`).
- **WebhookDeliveryProofs.** The strengthening ties each delivery's answer to the row of its id
  (`ToldByRow`), gives each pending row one owner (`OwnersApart`, `PendingHasOwner`), has no delivery
  wait in an engine that is down (`NoneWaits`) and each run that an engine which never crashed has begun
  on the row of its id (`RunsOnRows`), from which a failed `start()` keeps away, for it begins none.
- **ContentStoreProofs.** What a waiting start or registration has found is there and was used no
  longer ago than it has waited (`Fresh`), which is too recent for any prune; when it ends, a
  version's seed is whole, and from then on the roots protect it. `QuotasHold` is about a sum over the
  rows of a namespace. The fold that computes it has a value, the order of the blobs does not matter, a
  blob more adds its size, and a subset has no larger sum: inductions over the number of blobs, each by
  a set of numbers that turns out to be all of them (`AllNumbers`, from well-foundedness), since the library's
  induction takes an operator. Then it is enough that `Put` and `Stored`, the only actions that add
  a row, look at the sum in the same turn. `FilesReclaimed` rests on `SeedsServe`: a file that a prune of one namespace spares for the
  seed of another has a row there.
- **WorkflowCatalogProofs.** No version and no run has a number beyond the high-water mark of its name
  (`Marked`), which survives the removal of the name; a declared trigger is claimed by the workflow
  that declares it, or deleted (`ClaimsHold`), also after a crash in a handler.
- **AccessControlProofs.** The rows of one sign-in are counted together (`Worth`) and no step adds to
  the sum of one that has any. A name is born at most once, and is there or retired (`Once`). `LastAdminStays`
  assumes that the default role is not admin.

The contracts are proved as refinements: `ContractKept`, `PoolsImplemented` and `FramePoolImplemented`,
`SignInContractKept`, `VerdictContractKept`, `TimetableKept`, `RegistryContractKept` and
`LeaseContractKept`. Each goes through the actions and says
for each one what step of the contract it is, or that it is none, under the invariant of its module. For the
slot pools the step is read off the counters, which `HostOK` and `GuardOK` tie to the sets of holders:
a slot given back with a line is handed to its first. For the sign-ins, `Worth` makes the places of a visit exclude one
another. For the verdicts, that a decided row keeps its run, that what was told of an id is what its
row says, and that two rows never name one run. For the timetable, that a firing is for a later
instant than all before it (`FiredBeforeNext`) and that firings are counted against arms (`Spent`). For the registry, a registration
takes no declared trigger of another workflow because it wins the claims (`ClaimsHold`), its number is
new because of the mark (`Marked`), and a crash loses only runs that are not on record yet. For the
leases, no prune is as young as a wait (`Fresh`, `PruneSpares`). `RegistrySuffices` and `LeasesSuffice`
draw from these two contracts alone what their clients need: that a number means one script and a
trigger serves one workflow, and that what is lent can be read.

What the code does not promise, `race`, `nested_stall` and the instances above, has for most a
theorem that says when it holds all the same:

| Fails | Holds, for every value of the other constants, | Theorem |
|---|---|---|
| `TerminalIsFinal` | with one caller, so that no two requests for a run wait for the book | `TerminalStays` |
| `CapRespected` | until the first restart, if no two `start()` calls overlap | `CapHolds` |
| `NoSecondDispatch` | if a run is resumed only when the last call of its old execution has left the engine | `HomeResumesReplay` |
| `OneBegins` | until the engine crashes | `IdsBeginOneRun` |
| `OneRunPerId` | of the runs that `start()` executes, until the engine crashes | `IdsBeginOneRun` |
| `ReplayIsOwn` | if no two calls of a script have the same prompt | `DistinctKeysReplayOwn` |
| `SlotsFlow` | if there are more slots than frames that call `workflow()`; if there are more slots than places of such frames in the script, and no message of a killed child is read late | `FewInnerFramesFlow`, `FewInnerSitesFlow` |
| `InterruptedCanStop` | if no name is deregistered while a run of it is interrupted, and no version while a run of it is starting | `PinnedRunsStop` |
| `FiresDeclared` | until the engine crashes | `FiresWhatIsDeclared` |

No hypothesis here can be dropped: TLC has a counterexample without it, for `PinnedRunsStop` without
either of the two, and for `FewInnerSitesFlow` with late messages (a frame of the first execution
and one of the second fill two slots, since the `workflowGuard` survives a resume). `CapHolds` stops at a
restart since `_requireLive` puts interrupted runs back into `_runs` without looking at the cap.

Only model-checked: all liveness (`RunsSettle`, `RequestsAnswered`, `CallsLeave`, `FramesAnswered`,
`DueFires`, `PendingSettles`), which is out of the prover's reach. Every invariant and every action
property of a passing run is a theorem. `FiresDeclaredUntilCrash`, `NoFileLeftUntilCrash`, `NobodyStranded` and the
conditional theorems were put to TLC on the instances of the runs, with their hypotheses as
constraints of the next-state relation, before they were proved; no run repeats it. The violations
are counterexamples and prove themselves.

## Not modelled

Components, with the reason:

- *Confinement, net guard, parameters and providers, static script analysis, secrets*: functions of
  their arguments; nothing is kept between two calls that another handler could change.
- *Dashboard and documentation, issue reporter*: views, texts, and posts that nobody waits for.
- *Self-update*: the process is replaced from outside; to the models it is a crash or a shutdown.
- *Direct models*: decision and image calls retry inside one call. They take no slot of the run's
  guard or of the host's semaphore but one of `decideSemaphore` or `imageSemaphore`, held across the
  retries; what they share with `agent()` is the resume plan, the numbers of calls, the abort signal and the
  budget, read before the slot and again under it. So `BoundedOvershoot` of `AgentDispatch` is about
  `agent()` calls alone. The replay of `generateImage()`, which reads files before it asks
  the plan, is left.
- *Workspaces, asset sync*: collection of directories, pushes and removals of assets. Both have
  hazards and are left.

Inside the modelled components:

- *Lifecycle*: steering input, workspace snapshots, re-run from a prefix, `run_result` and other reads.
- *Dispatch*: schema retries, the match of a replayed call's content, the protocol between engine and
  harness of one gateway session.
- *Sandbox*: heartbeats, the watchdog, the guards inside the child.
- *Schedules and webhooks*: the resident trigger, the grammar of cron expressions, signatures and
  the window of timestamps.
- *Catalog*: ownership, diagrams, parameters, migrations of older databases.
- *Content store*: the floor of free disk space, the git snapshots of workspaces, the fetch of a `seedRef`.
  `Limit` is a constant: a quota that is lowered while the engine runs, by a role or a setting, leaves
  a namespace above it until something is pruned, and `WithinQuota` says nothing of that. A write of
  `_recordRef` that throws after the rename, and an unlink whose error is swallowed, are not modelled:
  each leaves a file without a row, as the crashes of the model do, and `NoFileLeftUntilCrash` is about
  an engine in which neither happens.
- *Access*: verification of identities, PKCE, registration of clients, the table of tools by role.
- *Process, book, gateways*: routing and configuration, price tables and statistics.

## Plan

What is left, in this order; what exists is extended rather than copied.

1. **RunLifecycle**: `run_result` and what it serves after a crash.
2. **AgentDispatch** composed with `RunLifecycle` over suspend, resume and stop, in place of its own
   control actions; the replay of images against the plan's prefix.
3. **WorkflowCatalog** composed with `ScheduleFiring` and `WebhookDelivery`: the triggers of the one are
   the rows of the others.
4. **SandboxHost**: heartbeats, watchdog, the settled latch, messages after kill; it implements the
   child of `RunLifecycle` and of `NestedWorkflows`.
5. **WorkspaceGc** against resume, and **asset sync** against the start of a run.

Each new module gets one safety and, where it waits, one liveness property; where the number of runs
grows too large, the instances of one module are merged as the ones above have been.
