----------------------------- MODULE RunLifecycle -----------------------------
(***************************************************************************)
(* The life of top-level runs in the engine (run-manager.ts): admission,   *)
(* execution in a forked sandbox child, run_suspend / run_resume /         *)
(* run_stop, the settling of the child's outcome, crashes, graceful        *)
(* shutdown and boot recovery (store/sqlite-run-store.ts).                 *)
(*                                                                         *)
(* The engine is one Node process and its store is synchronous, so what    *)
(* runs between two returns to the event loop is one action here.  The     *)
(* places where the code really gives way are the price-book fetch         *)
(* (modelBook.snapshot() on a cold book), the seed fetch of start(), and   *)
(* the events of a child.                                                  *)
(*                                                                         *)
(* Several entry objects for one run may exist at a time (_requireLive     *)
(* builds one and puts it in _runs without looking again), each owning the *)
(* execution it started; cur[r] is the one _runs holds.                    *)
(***************************************************************************)
EXTENDS Naturals, FiniteSets

CONSTANTS
    Runs,               \* one runId per accepted start
    Callers,            \* clients that may have a control request in flight for a run
    EntryIds, ExecIds,  \* names for entry objects and for sandbox executions
    MaxConcurrentRuns,  \* rwe.config.json maxConcurrentRuns
    RefusedRuns,        \* runs whose pinned version is gone and whose substitute is
                        \* remote, on a host that cannot confine Bash
    GracefulShutdown,   \* may the process be told to shut down?
    MaxRestarts,        \* bound on crashes and shutdowns
    MaxFaults           \* bound on store writes that throw

ASSUME CapAssumption == MaxConcurrentRuns \in Nat /\ MaxFaults \in Nat /\ MaxRestarts \in Nat
ASSUME RefusedAssumption == RefusedRuns \subseteq Runs
ASSUME IdsAssumption == 0 \notin EntryIds /\ 0 \notin ExecIds

VARIABLES
    proc,       \* the engine process: "up", "closing" (after SIGTERM), "down"
    row,        \* run -> durable status, "none" before createRun
    result,     \* run -> has recordResult stored a value? (durable)
    error,      \* run -> the code recordError stored, or "none" (durable)
    starting,   \* run -> where its start() call waits
    cur,        \* run -> the entry object in _runs, 0 when absent
    status,     \* run -> entry -> RunEntry.status, "free" when no such object
    substitute, \* run -> entry -> was it built with a legacySubstitution?
    exec,       \* run -> entry -> the execution entry.sandbox stands for, 0 when none
    owner,      \* run -> execution -> the entry _runLive started it for
    child,      \* run -> execution -> state of its child process
    waiting,    \* run -> caller -> control request waiting for the price book
    bookFresh,  \* is the price book cached and within its TTL?
    draining,   \* are the requests that waited for the book being resumed?
    restarts, faults

durable == <<row, result, error>>
memory == <<starting, cur, status, substitute, exec, owner, child, waiting>>
vars == <<proc, durable, memory, bookFresh, draining, restarts, faults>>

Terminal == {"stopped", "completed", "failed"}
Resumable == {"suspended", "interrupted"}
Status == {"queued", "running"} \cup Resumable \cup Terminal
Ops == {"suspend", "resume", "stop"}
NoRequest == [op |-> "none", seen |-> "none"]
Requests == {NoRequest} \cup [op : Ops, seen : Resumable]
Codes == {"SCRIPT", "ABORTED", "SEED"}

TypeOK ==
    /\ proc \in {"up", "closing", "down"}
    /\ row \in [Runs -> {"none"} \cup Status]
    /\ result \in [Runs -> BOOLEAN]
    /\ error \in [Runs -> {"none"} \cup Codes]
    /\ starting \in [Runs -> {"no", "admitting", "fetching"}]
    /\ cur \in [Runs -> {0} \cup EntryIds]
    /\ status \in [Runs -> [EntryIds -> {"free"} \cup Status]]
    /\ substitute \in [Runs -> [EntryIds -> BOOLEAN]]
    /\ exec \in [Runs -> [EntryIds -> {0} \cup ExecIds]]
    /\ owner \in [Runs -> [ExecIds -> {0} \cup EntryIds]]
    /\ child \in [Runs -> [ExecIds -> {"free", "alive", "killed"}]]
    /\ waiting \in [Runs -> [Callers -> Requests]]
    /\ bookFresh \in BOOLEAN
    /\ draining \in BOOLEAN
    /\ restarts \in 0..MaxRestarts
    /\ faults \in 0..MaxFaults

Every(S, x) == [s \in S |-> x]

Init ==
    /\ proc = "up"
    /\ row = [r \in Runs |-> "none"]
    /\ result = [r \in Runs |-> FALSE]
    /\ error = [r \in Runs |-> "none"]
    /\ starting = Every(Runs, "no") /\ cur = Every(Runs, 0)
    /\ status = Every(Runs, Every(EntryIds, "free"))
    /\ substitute = Every(Runs, Every(EntryIds, FALSE))
    /\ exec = Every(Runs, Every(EntryIds, 0)) /\ owner = Every(Runs, Every(ExecIds, 0))
    /\ child = Every(Runs, Every(ExecIds, "free"))
    /\ waiting = Every(Runs, Every(Callers, NoRequest))
    /\ bookFresh = FALSE /\ draining = FALSE
    /\ restarts = 0 /\ faults = 0

-----------------------------------------------------------------------------
(* What the handlers share.                                                *)

\* An event-loop turn may begin: the requests that a book refresh released run as one
\* burst of microtasks, and nothing else does until they are through.
Turn == proc \in {"up", "closing"} /\ ~draining

Idle(r) == \A c \in Callers : waiting[r][c] = NoRequest

\* _liveRunCount(): the entries of _runs that are not terminal.
Live == {r \in Runs : cur[r] # 0 /\ status[r][cur[r]] \notin Terminal}

\* The turn's store writes (and forks) go through, or one of them throws.
Stored == UNCHANGED faults
Thrown == faults < MaxFaults /\ faults' = faults + 1

SetRow(r, s) == row' = [row EXCEPT ![r] = s]

\* _transition's write of the row.
Transition(r, s) ==
    \/ Stored /\ SetRow(r, s)
    \/ Thrown /\ UNCHANGED row

FreeEntry(r, k) == status[r][k] = "free" /\ k # cur[r]
FreeExec(r, e) == child[r][e] = "free"

\* Mutant: the abort signal is not handed to the sandbox.
KillsNothing(r, k) == child

\* SandboxHost.abort: SIGKILL, when the execution of entry k has not settled yet.  Its
\* outcome settles later, by the child's 'close' or by a message already in the pipe.
Killed(r, k) ==
    [child EXCEPT ![r] = [e \in ExecIds |->
        IF e = exec[r][k] /\ owner[r][e] = k /\ child[r][e] = "alive"
          THEN "killed" ELSE child[r][e]]]

\* _runLive: entry k of r owns the new execution e, and its child is forked.
RunLive(r, k, e) ==
    /\ FreeExec(r, e)
    /\ exec' = [exec EXCEPT ![r][k] = e]
    /\ owner' = [owner EXCEPT ![r][e] = k]
    /\ child' = [child EXCEPT ![r][e] = "alive"]

NeverLive(r, k) ==
    /\ exec' = [exec EXCEPT ![r][k] = 0]
    /\ UNCHANGED <<owner, child>>

\* recordError, and finally (whether it threw or not) the transition to failed.
RecordAndFail(r, code) ==
    \/ Stored /\ error' = [error EXCEPT ![r] = code] /\ SetRow(r, "failed")
    \/ Thrown /\ error' = [error EXCEPT ![r] = code] /\ UNCHANGED row
    \/ Thrown /\ UNCHANGED error /\ SetRow(r, "failed")

-----------------------------------------------------------------------------
(* start().                                                                *)

\* The synchronous head of start(): the admission cap, then the first await.
StartAdmit(r) ==
    /\ Turn /\ proc = "up"
    /\ row[r] = "none" /\ starting[r] = "no"
    /\ Cardinality(Live) < MaxConcurrentRuns
    /\ starting' = [starting EXCEPT ![r] = "admitting"]
    /\ UNCHANGED <<proc, durable, cur, status, substitute, exec, owner, child, waiting,
                   bookFresh, draining, restarts, faults>>

\* One of the later checks (catalog, assets, parameters, confinement) refuses: nothing
\* was stored.
StartRefused(r) ==
    /\ Turn /\ starting[r] = "admitting"
    /\ starting' = [starting EXCEPT ![r] = "no"]
    /\ UNCHANGED <<proc, durable, cur, status, substitute, exec, owner, child, waiting,
                   bookFresh, draining, restarts, faults>>

\* createRun stores the row, and the run has a seedRef to fetch.
StartFetch(r) ==
    /\ Turn /\ starting[r] = "admitting"
    /\ starting' = [starting EXCEPT ![r] = "fetching"]
    /\ row' = [row EXCEPT ![r] = "queued"]
    /\ UNCHANGED <<proc, result, error, cur, status, substitute, exec, owner, child,
                   waiting, bookFresh, draining, restarts, faults>>

\* The rest of start(): the workspace is seeded, the entry enters _runs, the row turns
\* running and the script is executed.  When the write or the fork throws, the entry stays.
StartLaunch(r, k, e) ==
    /\ Turn /\ starting[r] \in {"admitting", "fetching"}
    /\ FreeEntry(r, k)
    /\ starting' = [starting EXCEPT ![r] = "no"]
    /\ cur' = [cur EXCEPT ![r] = k]
    /\ status' = [status EXCEPT ![r][k] = "running"]
    /\ substitute' = [substitute EXCEPT ![r][k] = FALSE]
    /\ \/ Stored /\ SetRow(r, "running") /\ RunLive(r, k, e)
       \/ Thrown /\ SetRow(r, "queued") /\ NeverLive(r, k)
       \/ Thrown /\ SetRow(r, "running") /\ NeverLive(r, k)
    /\ UNCHANGED <<proc, result, error, waiting, bookFresh, draining, restarts>>

\* Seeding the workspace throws after createRun: no entry, and the row stays queued.
StartThrows(r) ==
    /\ Turn /\ starting[r] \in {"admitting", "fetching"}
    /\ starting' = [starting EXCEPT ![r] = "no"]
    /\ row' = [row EXCEPT ![r] = "queued"]
    /\ UNCHANGED <<proc, result, error, cur, status, substitute, exec, owner, child,
                   waiting, bookFresh, draining, restarts, faults>>

\* The seed fetch failed: the run is recorded as failed, and never executed.
StartSeedFailed(r, k) ==
    /\ Turn /\ starting[r] = "fetching"
    /\ FreeEntry(r, k)
    /\ starting' = [starting EXCEPT ![r] = "no"]
    /\ cur' = [cur EXCEPT ![r] = k]
    /\ status' = [status EXCEPT ![r][k] = "failed"]
    /\ substitute' = [substitute EXCEPT ![r][k] = FALSE]
    /\ RecordAndFail(r, "SEED")
    /\ UNCHANGED <<proc, result, exec, owner, child, waiting, bookFresh, draining, restarts>>

-----------------------------------------------------------------------------
(* run_suspend, run_resume and run_stop on a run that is in _runs: one     *)
(* turn each.  A request in a state the code refuses changes nothing.      *)

Cached(r) == Turn /\ proc = "up" /\ cur[r] # 0

SuspendCached(r) ==
    LET k == cur[r] IN
    /\ Cached(r) /\ status[r][k] = "running"
    /\ child' = Killed(r, k)
    /\ status' = [status EXCEPT ![r][k] = "suspended"]
    /\ Transition(r, "suspended")
    /\ UNCHANGED <<proc, result, error, starting, cur, substitute, exec, owner, waiting,
                   bookFresh, draining, restarts>>

StopCached(r) ==
    LET k == cur[r] IN
    /\ Cached(r) /\ status[r][k] \notin Terminal
    /\ child' = Killed(r, k)
    /\ status' = [status EXCEPT ![r][k] = "stopped"]
    /\ Transition(r, "stopped")
    /\ UNCHANGED <<proc, result, error, starting, cur, substitute, exec, owner, waiting,
                   bookFresh, draining, restarts>>

\* Mutant: resume puts the entry to running and forgets the row.
ResumeWithoutRow(r, k, e) ==
    /\ status' = [status EXCEPT ![r][k] = "running"]
    /\ Stored /\ UNCHANGED row /\ RunLive(r, k, e)

\* The row turns running, and the journal is replayed by a new execution.  When that
\* write or the fork throws, the entry already says running and nothing is executed.
ResumeEntry(r, k, e) ==
    /\ status' = [status EXCEPT ![r][k] = "running"]
    /\ \/ Stored /\ SetRow(r, "running") /\ RunLive(r, k, e)
       \/ Thrown /\ UNCHANGED row /\ NeverLive(r, k)
       \/ Thrown /\ SetRow(r, "running") /\ NeverLive(r, k)

ResumeCached(r, e) ==
    LET k == cur[r] IN
    /\ Cached(r) /\ status[r][k] \in Resumable
    /\ ~substitute[r][k]
    /\ ResumeEntry(r, k, e)
    /\ UNCHANGED <<proc, result, error, starting, cur, substitute, waiting,
                   bookFresh, draining, restarts>>

\* A substitute this host may not run: the entry is dropped from _runs, so that the next
\* request builds it again, and the row is left alone.
ResumeDropped(r) ==
    LET k == cur[r] IN
    /\ Cached(r) /\ status[r][k] # "stopped"
    /\ substitute[r][k]
    /\ cur' = [cur EXCEPT ![r] = 0]
    /\ status' = [status EXCEPT ![r][k] = "free"]
    /\ UNCHANGED <<proc, durable, starting, substitute, exec, owner, child, waiting,
                   bookFresh, draining, restarts, faults>>

-----------------------------------------------------------------------------
(* The same requests on a run that is not in _runs (after a restart).      *)
(* _requireLive reads the row, then waits for the price book; with a fresh *)
(* book nothing gives way and the request is served at once.               *)

Uncached(r, c) ==
    /\ Turn /\ proc = "up" /\ cur[r] = 0
    /\ row[r] \in Resumable
    /\ waiting[r][c] = NoRequest

Ask(r, c, op) ==
    /\ Uncached(r, c) /\ ~bookFresh
    /\ waiting' = [waiting EXCEPT ![r][c] = [op |-> op, seen |-> row[r]]]
    /\ UNCHANGED <<proc, durable, starting, cur, status, substitute, exec, owner, child,
                   bookFresh, draining, restarts, faults>>

\* Mutant: the refresh resolves a promise of its own, and not the callers'.
RefreshReleasesNobody ==
    /\ Turn /\ ~bookFresh
    /\ bookFresh' = TRUE
    /\ UNCHANGED <<proc, durable, memory, draining, restarts, faults>>

BookRefreshed ==
    /\ Turn /\ ~bookFresh
    /\ bookFresh' = TRUE
    /\ draining' = \E r \in Runs : ~Idle(r)
    /\ UNCHANGED <<proc, durable, memory, restarts, faults>>

BookExpires ==
    /\ Turn /\ bookFresh
    /\ bookFresh' = FALSE
    /\ UNCHANGED <<proc, durable, memory, draining, restarts, faults>>

\* The rest of _requireLive (a new entry with the status read before the wait goes into
\* _runs, whatever is there by now), and then the operation itself on that entry.
Rehydrate(r, k) ==
    /\ FreeEntry(r, k)
    /\ substitute' = [substitute EXCEPT ![r][k] = r \in RefusedRuns]

RehydratedStop(r, k) ==
    /\ Rehydrate(r, k)
    /\ cur' = [cur EXCEPT ![r] = k]
    /\ status' = [status EXCEPT ![r][k] = "stopped"]
    /\ NeverLive(r, k)
    /\ Transition(r, "stopped")

RehydratedResume(r, k, e) ==
    /\ Rehydrate(r, k)
    /\ r \notin RefusedRuns
    /\ cur' = [cur EXCEPT ![r] = k]
    /\ ResumeEntry(r, k, e)

\* The operation is refused on the new entry, which stays in _runs: a suspend of a run
\* that is not running, a resume whose version or parameters no longer pass.
RehydratedRefusal(r, k, op, seen) ==
    /\ Rehydrate(r, k)
    /\ op = "suspend" \/ (op = "resume" /\ r \notin RefusedRuns)
    /\ cur' = [cur EXCEPT ![r] = k]
    /\ status' = [status EXCEPT ![r][k] = seen]
    /\ NeverLive(r, k)
    /\ UNCHANGED <<row, faults>>

\* A resume of a run only a refused substitute could serve: whatever _runs holds goes.
RehydratedDrop(r, op) ==
    /\ op = "resume" /\ r \in RefusedRuns
    /\ cur' = [cur EXCEPT ![r] = 0]
    /\ UNCHANGED <<row, status, substitute, exec, owner, child, faults>>

\* _requireLive itself refuses (a model ref that is no longer valid): no entry.
RehydrationRefused == UNCHANGED <<row, cur, status, substitute, exec, owner, child, faults>>

Serve(r, op, seen) ==
    \/ op = "stop" /\ \E k \in EntryIds : RehydratedStop(r, k)
    \/ op = "resume" /\ \E k \in EntryIds, e \in ExecIds : RehydratedResume(r, k, e)
    \/ \E k \in EntryIds : RehydratedRefusal(r, k, op, seen)
    \/ RehydratedDrop(r, op)

ServeAtOnce(r, c, op) ==
    /\ Uncached(r, c) /\ bookFresh
    /\ Serve(r, op, row[r])
    /\ UNCHANGED <<proc, result, error, starting, waiting, bookFresh, draining, restarts>>

\* One of the requests a refreshed book released; the microtasks of several interleave,
\* so they finish in any order.
ServeWaiting(r, c) ==
    LET w == waiting[r][c] IN
    /\ proc # "down" /\ draining /\ w # NoRequest
    /\ Serve(r, w.op, w.seen) \/ RehydrationRefused
    /\ waiting' = [waiting EXCEPT ![r][c] = NoRequest]
    /\ draining' = \E q \in Runs, d \in Callers : <<q, d>> # <<r, c>> /\ waiting[q][d] # NoRequest
    /\ UNCHANGED <<proc, result, error, starting, bookFresh, restarts>>

-----------------------------------------------------------------------------
(* The outcome of a sandbox execution.                                     *)

\* Mutant: the settling callback does not look at the status again.
MaySettleLate(r, e) == exec[r][owner[r][e]] = e

\* Mutant: the settled latch belongs to the run and not to the execution.
MaySettleOnce(r, e) ==
    LET k == owner[r][e] IN
    exec[r][k] = e /\ status[r][k] = "running" /\ ~result[r] /\ error[r] = "none"

\* Only the execution the entry still holds may settle the run, and only while running.
MaySettle(r, e) ==
    LET k == owner[r][e] IN exec[r][k] = e /\ status[r][k] = "running"

Gone(r, e) == child' = [child EXCEPT ![r][e] = "free"]

SettleIgnored(r, e) ==
    /\ Turn /\ child[r][e] # "free" /\ ~MaySettle(r, e)
    /\ Gone(r, e)
    /\ UNCHANGED <<proc, durable, starting, cur, status, substitute, exec, owner, waiting,
                   bookFresh, draining, restarts, faults>>

\* The script returned.  recordResult (which stores the value, then appends to the journal),
\* then the transition; a throw of the first skips the second and leaves the entry running.
SettleResult(r, e) ==
    LET k == owner[r][e] IN
    /\ Turn /\ child[r][e] # "free" /\ MaySettle(r, e)
    /\ Gone(r, e)
    /\ \/ /\ Transition(r, "completed")
          /\ result' = [result EXCEPT ![r] = TRUE]
          /\ status' = [status EXCEPT ![r][k] = "completed"]
       \/ /\ Thrown
          /\ result' \in {result, [result EXCEPT ![r] = TRUE]}
          /\ UNCHANGED <<row, status>>
    /\ UNCHANGED <<proc, error, starting, cur, substitute, exec, owner, waiting,
                   bookFresh, draining, restarts>>

\* The script threw, ran out of time or memory ("SCRIPT"), or the child went away without
\* a message ("ABORTED").  recordError, and finally the transition.
SettleError(r, e, code) ==
    LET k == owner[r][e] IN
    /\ Turn /\ child[r][e] # "free" /\ MaySettle(r, e)
    /\ Gone(r, e)
    /\ status' = [status EXCEPT ![r][k] = "failed"]
    /\ RecordAndFail(r, code)
    /\ UNCHANGED <<proc, result, starting, cur, substitute, exec, owner, waiting,
                   bookFresh, draining, restarts>>

-----------------------------------------------------------------------------
(* Crash, graceful shutdown and boot.                                      *)

LoseMemory ==
    /\ proc' = "down"
    /\ starting' = Every(Runs, "no") /\ cur' = Every(Runs, 0)
    /\ status' = Every(Runs, Every(EntryIds, "free"))
    /\ substitute' = Every(Runs, Every(EntryIds, FALSE))
    /\ exec' = Every(Runs, Every(EntryIds, 0)) /\ owner' = Every(Runs, Every(ExecIds, 0))
    /\ child' = Every(Runs, Every(ExecIds, "free"))
    /\ waiting' = Every(Runs, Every(Callers, NoRequest))
    /\ bookFresh' = FALSE /\ draining' = FALSE
    /\ UNCHANGED faults

Restarted == restarts < MaxRestarts /\ restarts' = restarts + 1

Crash ==
    /\ proc # "down" /\ Restarted /\ LoseMemory
    /\ UNCHANGED durable

\* A crash between two store writes of one turn.
CrashAfterCreate(r) ==
    /\ Turn /\ starting[r] = "admitting" /\ Restarted /\ LoseMemory
    /\ row' = [row EXCEPT ![r] = "queued"]
    /\ UNCHANGED <<result, error>>

\* Mutant: the status is written before the value is.
CrashBeforeRecord(r, e) ==
    /\ Turn /\ child[r][e] # "free" /\ MaySettle(r, e)
    /\ Restarted /\ LoseMemory
    /\ row' = [row EXCEPT ![r] = "completed"]
    /\ UNCHANGED <<result, error>>

CrashAfterRecord(r, e) ==
    /\ Turn /\ child[r][e] # "free" /\ MaySettle(r, e)
    /\ Restarted /\ LoseMemory
    /\ \/ result' = [result EXCEPT ![r] = TRUE] /\ UNCHANGED error
       \/ \E code \in {"SCRIPT", "ABORTED"} :
             error' = [error EXCEPT ![r] = code] /\ UNCHANGED result
    /\ UNCHANGED row

\* SIGTERM: shutdown() kills the child of every running entry and writes nothing, then
\* the process waits for its HTTP connections.
Shutdown ==
    /\ Turn /\ proc = "up" /\ GracefulShutdown /\ Restarted
    /\ proc' = "closing"
    /\ child' = [r \in Runs |->
          IF cur[r] # 0 /\ status[r][cur[r]] = "running" THEN Killed(r, cur[r])[r] ELSE child[r]]
    /\ UNCHANGED <<durable, starting, cur, status, substitute, exec, owner, waiting,
                   bookFresh, draining, faults>>

Exit ==
    /\ proc = "closing" /\ LoseMemory
    /\ UNCHANGED <<durable, restarts>>

\* Mutants of hydrateAll: the rows are left as they are; queued rows are reclassified
\* too; the rows get a status of their own that no reader knows.
BootKeepsRows ==
    /\ proc = "down" /\ proc' = "up"
    /\ UNCHANGED <<durable, memory, bookFresh, draining, restarts, faults>>

BootTakesQueued ==
    /\ proc = "down" /\ proc' = "up"
    /\ row' = [r \in Runs |-> IF row[r] \in {"queued", "running"} THEN "interrupted" ELSE row[r]]
    /\ UNCHANGED <<result, error, memory, bookFresh, draining, restarts, faults>>

BootMarksCrashed ==
    /\ proc = "down" /\ proc' = "up"
    /\ row' = [r \in Runs |-> IF row[r] = "running" THEN "crashed" ELSE row[r]]
    /\ UNCHANGED <<result, error, memory, bookFresh, draining, restarts, faults>>

\* hydrateAll
Boot ==
    /\ proc = "down"
    /\ proc' = "up"
    /\ row' = [r \in Runs |-> IF row[r] = "running" THEN "interrupted" ELSE row[r]]
    /\ UNCHANGED <<result, error, memory, bookFresh, draining, restarts, faults>>

-----------------------------------------------------------------------------
Start(r) ==
    \/ StartAdmit(r) \/ StartRefused(r) \/ StartFetch(r) \/ StartThrows(r)
    \/ \E k \in EntryIds, e \in ExecIds : StartLaunch(r, k, e)
    \/ \E k \in EntryIds : StartSeedFailed(r, k)

Control(r) ==
    \/ SuspendCached(r) \/ StopCached(r) \/ ResumeDropped(r)
    \/ \E e \in ExecIds : ResumeCached(r, e)
    \/ \E c \in Callers, op \in Ops : Ask(r, c, op) \/ ServeAtOnce(r, c, op)
    \/ \E c \in Callers : ServeWaiting(r, c)

Settle(r, e) ==
    \/ SettleIgnored(r, e)
    \/ SettleResult(r, e)
    \/ \E code \in {"SCRIPT", "ABORTED"} : SettleError(r, e, code)

ProcessStep ==
    \/ Crash \/ Shutdown \/ Exit \/ Boot
    \/ \E r \in Runs : CrashAfterCreate(r)
    \/ \E r \in Runs, e \in ExecIds : CrashAfterRecord(r, e)

Next ==
    \/ \E r \in Runs : Start(r) \/ Control(r) \/ \E e \in ExecIds : Settle(r, e)
    \/ BookRefreshed \/ BookExpires
    \/ ProcessStep

Spec == Init /\ [][Next]_vars

\* What the event loop guarantees.  A killed child closes and a running one meets its
\* maxRunDurationMs timer, so every execution settles; a turn that has begun to drain the
\* waiting requests finishes; the price-book fetch is bounded by its own timeout.  Settle
\* is not enabled while a burst drains, hence strong fairness; no one is obliged to crash,
\* to call, or to boot the engine again.
Fairness ==
    /\ WF_vars(BookRefreshed)
    /\ \A r \in Runs, c \in Callers : WF_vars(ServeWaiting(r, c))
    /\ \A r \in Runs, e \in ExecIds : SF_vars(Settle(r, e))

FairSpec == Spec /\ Fairness

-----------------------------------------------------------------------------
(* Properties.                                                             *)

Alive(r) == {e \in ExecIds : child[r][e] = "alive"}
Unsettled(r) == {e \in ExecIds : child[r][e] # "free"}

\* A run's script is executed by at most one live sandbox child, and that child belongs to
\* the entry _runs holds for the run, which is running (resume while an old child dies,
\* rehydration, shutdown and late starts all have to keep it so).
SingleExecution ==
    \A r \in Runs : \A e \in Alive(r) :
        /\ Alive(r) = {e}
        /\ cur[r] # 0 /\ owner[r][e] = cur[r] /\ exec[r][cur[r]] = e
        /\ status[r][cur[r]] = "running"

\* What an entry of _runs says of its run is what the store says: a client asking a live
\* process and one asking after a restart get the same answer.
EntryMatchesRow ==
    \A r \in Runs : cur[r] # 0 => row[r] = status[r][cur[r]]

\* In a live process a run is running only while an execution that is allowed to settle
\* it has not settled: no run is left running with nobody to finish it.
RunningCanSettle ==
    proc # "down" => \A r \in Runs :
        row[r] = "running" => \E e \in Unsettled(r) : MaySettle(r, e)

\* The value and the reason are durable before the status is: whoever reads completed or
\* failed, in this process or after a crash at any point, finds them.
RecordedBeforeTerminal ==
    \A r \in Runs : /\ row[r] = "completed" => result[r]
                    /\ row[r] = "failed" => error[r] # "none"

\* Terminal is final: no step, of a client, of a child or of a restart, takes a run out of
\* stopped, completed or failed (tool-specs: "the run can never be resumed").
TerminalIsFinal ==
    [][\A r \in Runs : row[r] \in Terminal => row'[r] = row[r]]_vars

\* A run is being executed while a live child of it exists.
Contract == INSTANCE RunContract WITH
    phase <- row,
    executing <- [r \in Runs |-> Alive(r) # {}]

\* The engine keeps its contract: the store's statuses move only as the contract allows,
\* and the script executes exactly when the contract says so, across crashes and restarts.
ImplementsContract == Contract!CSpec

\* The inductive invariant of RunLifecycleProofs, run by run.

\* A start() under way has stored nothing, or the queued row; its run has no entry yet,
\* as long as nothing is stored.
StartConsistent(r) ==
    /\ starting[r] = "admitting" => row[r] = "none"
    /\ starting[r] = "fetching" => row[r] = "queued"
    /\ starting[r] # "no" \/ row[r] = "none" => cur[r] = 0

\* The only entry object of a run is the one in _runs; a running one is no substitute,
\* and a terminal row is what its entry says too.
EntryConsistent(r) ==
    /\ \A k \in EntryIds : status[r][k] # "free" => cur[r] = k
    /\ cur[r] # 0 => status[r][cur[r]] \notin {"free", "queued"}
    /\ cur[r] # 0 /\ row[r] \in Terminal => status[r][cur[r]] = row[r]
    /\ cur[r] # 0 /\ substitute[r][cur[r]] => status[r][cur[r]] # "running"

\* A request waits only for a run that has no entry, and what it read of the row still holds.
RequestConsistent(r) ==
    \A c \in Callers :
        waiting[r][c] # NoRequest => cur[r] = 0 /\ row[r] = waiting[r][c].seen

ChildConsistent(r) ==
    \A e \in ExecIds :
        /\ child[r][e] # "free" => owner[r][e] \in EntryIds
        /\ child[r][e] = "alive" =>
              /\ cur[r] # 0 /\ owner[r][e] = cur[r] /\ exec[r][cur[r]] = e
              /\ status[r][cur[r]] = "running"

DownConsistent(r) ==
    proc = "down" =>
        /\ starting[r] = "no" /\ cur[r] = 0
        /\ \A c \in Callers : waiting[r][c] = NoRequest
        /\ \A e \in ExecIds : child[r][e] = "free"

RunConsistent(r) ==
    /\ StartConsistent(r) /\ EntryConsistent(r) /\ RequestConsistent(r)
    /\ ChildConsistent(r) /\ DownConsistent(r)

Consistent == TypeOK /\ \A r \in Runs : RunConsistent(r)

\* DEPLOY.md, maxConcurrentRuns: no more runs are live than the cap allows.
CapRespected == Cardinality(Live) <= MaxConcurrentRuns

\* run-manager.ts, shutdown(): it leaves the rows at running, for the next boot to find.
\* No run is failed because its child was killed by the shutdown.
ShutdownKeepsRunning ==
    [][\A r \in Runs :
         proc = "closing" /\ row[r] = "running" /\ row'[r] = "failed" => error'[r] # "ABORTED"]_vars

\* Every running run leaves running, or the process does not live to see it.
RunsSettle ==
    \A r \in Runs : (proc = "up" /\ row[r] = "running") ~> (proc # "up" \/ row[r] # "running")

\* Every control request that waits for the price book is answered, or dies with the process.
RequestsAnswered ==
    \A r \in Runs : \A c \in Callers : waiting[r][c] # NoRequest ~> waiting[r][c] = NoRequest
=============================================================================
