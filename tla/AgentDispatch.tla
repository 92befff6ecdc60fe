---------------------------- MODULE AgentDispatch ----------------------------
(***************************************************************************)
(* How the agent() calls of scripts become gateway calls                   *)
(* (run-manager.ts _handleAgentRequest): replay from the journal, the      *)
(* run's own slots and its budget (run-guard.ts), the slots of the host    *)
(* (agent-semaphore.ts), the gateway (agent-executor.ts), the journal, and *)
(* what suspend, stop, resume and a crash do to calls on their way.        *)
(*                                                                         *)
(* A macrotask of the event loop is an action that waits for Quiet; the    *)
(* continuations it releases (a granted slot, a finished call) are actions *)
(* of their own that run, in any order, before the next macrotask.         *)
(***************************************************************************)
EXTENDS Naturals, Sequences, FiniteSets

CONSTANTS
    Runs,
    Calls,          \* a script makes the calls 0 .. Calls-1 (callSeq), in this order
    Slots,          \* rwe.config.json agentSlots: the host's agent semaphore
    Concurrency,    \* rwe.config.json runConcurrency: slots of one run's RunGuard
    Budget,         \* a run's budget, in units of one call's cost
    LateMessages,   \* may the IPC pipe of a killed child still hold requests?
    MaxExecutions,  \* bound on the executions of one run (1 + resumes)
    MaxCrashes      \* bound on crashes of the engine

ASSUME DispatchAssumption ==
    /\ {Calls, Slots, Concurrency, Budget, MaxExecutions} \subseteq Nat \ {0}
    /\ MaxCrashes \in Nat /\ LateMessages \in BOOLEAN

Seqs == 0 .. Calls - 1
Call == [run : Runs, gen : 1..MaxExecutions, seq : Seqs]

VARIABLES
    state,      \* run -> "running", "suspended" (or interrupted), "over"
    gen,        \* run -> which execution of its script this is
    aborted,    \* run -> has entry.abortController fired?
    sent,       \* run -> how many calls the current child has made
    pipe,       \* agent requests written by children and not yet read
    plan,       \* run -> callSeqs the entry's ResumePlan can answer
    missed,     \* run -> ResumePlan._missed
    replayed,   \* history: run -> callSeqs of this execution answered from the plan
    guardQueue, \* run -> calls waiting for a slot of the run
    inFlight,   \* run -> RunGuard._inFlight
    queue,      \* calls waiting for a slot of the host
    inUse,      \* the semaphore's inUse
    at,         \* call -> where it is: "checking", "starting", "flying", ...
    spent,      \* run -> spending recorded by capture()
    journal,    \* run -> callSeq -> what the last journal entry says
    crashes

plans == <<plan, missed, replayed>>
slots == <<guardQueue, inFlight, queue, inUse>>
vars == <<state, gen, aborted, sent, pipe, plans, slots, at, spent, journal, crashes>>

\* Of a call: not in the engine; in one of the two queues; past acquireSlot; past the
\* semaphore; at the gateway; cut short by the abort signal; answered by the gateway.
Places == {"out", "slot", "checking", "queued", "starting", "flying", "cut", "answered"}

Init ==
    /\ state = [r \in Runs |-> "running"] /\ gen = [r \in Runs |-> 1]
    /\ aborted = [r \in Runs |-> FALSE]
    /\ sent = [r \in Runs |-> 0] /\ pipe = {}
    /\ plan = [r \in Runs |-> {}] /\ missed = [r \in Runs |-> FALSE]
    /\ replayed = [r \in Runs |-> {}]
    /\ guardQueue = [r \in Runs |-> <<>>] /\ inFlight = [r \in Runs |-> 0]
    /\ queue = <<>> /\ inUse = 0
    /\ at = [c \in Call |-> "out"]
    /\ spent = [r \in Runs |-> 0]
    /\ journal = [r \in Runs |-> [s \in Seqs |-> "none"]]
    /\ crashes = 0

TypeOK ==
    /\ state \in [Runs -> {"running", "suspended", "over"}]
    /\ gen \in [Runs -> 1..MaxExecutions] /\ aborted \in [Runs -> BOOLEAN]
    /\ sent \in [Runs -> 0..Calls] /\ pipe \subseteq Call
    /\ plan \in [Runs -> SUBSET Seqs] /\ missed \in [Runs -> BOOLEAN]
    /\ replayed \in [Runs -> SUBSET Seqs]
    /\ guardQueue \in [Runs -> Seq(Call)] /\ inFlight \in [Runs -> Nat]
    /\ queue \in Seq(Call) /\ inUse \in Nat
    /\ at \in [Call -> Places]
    /\ spent \in [Runs -> Nat]
    /\ journal \in [Runs -> [Seqs -> {"none", "settled", "aborted"}]]
    /\ crashes \in 0..MaxCrashes

-----------------------------------------------------------------------------
Continuing == {c \in Call : at[c] \in {"checking", "starting", "cut", "answered"}}
Quiet == Continuing = {}

\* The calls of run r that hold a slot of the run; the calls that hold one of the host.
Holding(r) == {c \in Call : c.run = r /\ at[c] \notin {"out", "slot"}}
Dispatched == {c \in Call : at[c] \in {"starting", "flying", "cut", "answered"}}

\* RunGuard.acquireSlot: call c continues at once, or waits in line.
AcquireSlot(c) ==
    LET r == c.run IN
    \/ /\ inFlight[r] < Concurrency
       /\ inFlight' = [inFlight EXCEPT ![r] = @ + 1]
       /\ at' = [at EXCEPT ![c] = "checking"]
       /\ UNCHANGED guardQueue
    \/ /\ inFlight[r] >= Concurrency
       /\ guardQueue' = [guardQueue EXCEPT ![r] = Append(@, c)]
       /\ at' = [at EXCEPT ![c] = "slot"]
       /\ UNCHANGED inFlight

\* Mutant: the slot is given back, and nobody is told.
ReleaseSlotSilently(r, places) ==
    /\ inFlight' = [inFlight EXCEPT ![r] = @ - 1]
    /\ at' = places
    /\ UNCHANGED guardQueue

\* RunGuard.release: the slot goes to the first in line; places is where the calls are
\* but for that one.
ReleaseSlot(r, places) ==
    \/ /\ guardQueue[r] = <<>>
       /\ inFlight' = [inFlight EXCEPT ![r] = @ - 1]
       /\ at' = places
       /\ UNCHANGED guardQueue
    \/ /\ guardQueue[r] # <<>>
       /\ guardQueue' = [guardQueue EXCEPT ![r] = Tail(@)]
       /\ at' = [places EXCEPT ![Head(guardQueue[r])] = "checking"]
       /\ UNCHANGED inFlight

\* Semaphore.acquire
AcquireSemaphore(c) ==
    \/ /\ inUse < Slots
       /\ inUse' = inUse + 1
       /\ at' = [at EXCEPT ![c] = "starting"]
       /\ UNCHANGED queue
    \/ /\ inUse >= Slots
       /\ queue' = Append(queue, c)
       /\ at' = [at EXCEPT ![c] = "queued"]
       /\ UNCHANGED inUse

\* Mutant: the one that is woken is not counted.
ReleaseUncounted ==
    /\ inUse' = inUse - 1
    /\ queue' = IF queue = <<>> THEN queue ELSE Tail(queue)

\* Semaphore.release
ReleaseSemaphore ==
    IF queue = <<>> THEN inUse' = inUse - 1 /\ UNCHANGED queue
                    ELSE queue' = Tail(queue) /\ UNCHANGED inUse

\* Mutant: the first in line is taken off it, and not told.
WokenByNobody(places) == places

\* Where the calls are once the first in line has been woken.
Woken(places) == IF queue = <<>> THEN places ELSE [places EXCEPT ![Head(queue)] = "starting"]

-----------------------------------------------------------------------------
(* The script and its requests.                                            *)

\* The child makes its next call; it does not wait for the answers of the others (parallel).
Send(r) ==
    /\ state[r] = "running" /\ sent[r] < Calls
    /\ pipe' = pipe \cup {[run |-> r, gen |-> gen[r], seq |-> sent[r]]}
    /\ sent' = [sent EXCEPT ![r] = @ + 1]
    /\ UNCHANGED <<state, gen, aborted, plans, slots, at, spent, journal, crashes>>

\* Mutant: a miss is not remembered.
ReplaysAnywhere(r, s) == s \in plan[r]

\* ResumePlan.replay: a hit, until the first miss.
Replays(r, s) == ~missed[r] /\ s \in plan[r]

\* The host reads the next request of a child: replay, or a slot of the run.
Receive(c) ==
    LET r == c.run IN
    /\ Quiet /\ c \in pipe
    /\ \A d \in pipe : d.run = r /\ d.gen = c.gen => d.seq >= c.seq
    /\ pipe' = pipe \ {c}
    /\ \/ /\ Replays(r, c.seq)
          /\ replayed' = [replayed EXCEPT ![r] = IF c.gen = gen[r] THEN @ \cup {c.seq} ELSE @]
          /\ UNCHANGED <<missed, slots, at>>
       \/ /\ ~Replays(r, c.seq)
          /\ missed' = [missed EXCEPT ![r] = TRUE]
          /\ AcquireSlot(c)
          /\ UNCHANGED <<replayed, queue, inUse>>
    /\ UNCHANGED <<state, gen, aborted, sent, plan, spent, journal, crashes>>

-----------------------------------------------------------------------------
(* A call on its way.                                                      *)

\* Mutant: the budget was checked when the call arrived.
CheckNothing(c) ==
    /\ at[c] = "checking" /\ AcquireSemaphore(c)
    /\ UNCHANGED <<state, gen, aborted, sent, pipe, plans, guardQueue, inFlight,
                   spent, journal, crashes>>

\* With a slot of the run: assertBudget, then withSlot on the host's semaphore.
Check(c) ==
    /\ at[c] = "checking"
    /\ \/ /\ spent[c.run] < Budget
          /\ AcquireSemaphore(c)
          /\ UNCHANGED <<guardQueue, inFlight>>
       \/ /\ spent[c.run] >= Budget
          /\ ReleaseSlot(c.run, [at EXCEPT ![c] = "out"])
          /\ UNCHANGED <<queue, inUse>>
    /\ UNCHANGED <<state, gen, aborted, sent, pipe, plans, spent, journal, crashes>>

\* Mutant: the executor does not look at the signal before it starts.
LaunchBlindly(c) ==
    /\ at[c] = "starting"
    /\ at' = [at EXCEPT ![c] = "flying"]
    /\ UNCHANGED <<state, gen, aborted, sent, pipe, plans, slots, spent, journal, crashes>>

\* With a slot of the host: entry.spawner.run reads the entry's abort signal as it is now.
Launch(c) ==
    /\ at[c] = "starting"
    /\ at' = [at EXCEPT ![c] = IF aborted[c.run] THEN "cut" ELSE "flying"]
    /\ UNCHANGED <<state, gen, aborted, sent, pipe, plans, slots, spent, journal, crashes>>

\* The gateway answers (a value, a failure, its timeout): capture() charges the call.
Answer(c) ==
    /\ Quiet /\ at[c] = "flying"
    /\ at' = [at EXCEPT ![c] = "answered"]
    /\ spent' = [spent EXCEPT ![c.run] = @ + 1]
    /\ UNCHANGED <<state, gen, aborted, sent, pipe, plans, slots, journal, crashes>>

\* Both slots go back, and the call is journaled under its callSeq: a replay finds the
\* last entry.
Leave(c, entry) ==
    /\ journal' = [journal EXCEPT ![c.run][c.seq] = entry]
    /\ ReleaseSemaphore
    /\ ReleaseSlot(c.run, [Woken(at) EXCEPT ![c] = "out"])
    /\ UNCHANGED <<state, gen, aborted, sent, pipe, plans, crashes>>

Finish(c) ==
    /\ at[c] = "answered"
    /\ Leave(c, "settled")
    /\ UNCHANGED spent

\* _finalizeAborted charges what the cut attempt is known to have used, if anything.
FinishCut(c) ==
    /\ at[c] = "cut"
    /\ Leave(c, "aborted")
    /\ \/ UNCHANGED spent
       \/ spent' = [spent EXCEPT ![c.run] = @ + 1]

-----------------------------------------------------------------------------
(* Control.                                                                *)

\* abortController.abort(): the calls of r at the gateway are cut short.
Abort(r) ==
    /\ aborted' = [aborted EXCEPT ![r] = TRUE]
    /\ at' = [c \in Call |-> IF c.run = r /\ at[c] = "flying" THEN "cut" ELSE at[c]]

\* SIGKILL: what the child had written may still be read, or is gone.
ChildKilled(r) == pipe' = IF LateMessages THEN pipe ELSE {c \in pipe : c.run # r}

Suspend(r) ==
    /\ Quiet /\ state[r] = "running"
    /\ state' = [state EXCEPT ![r] = "suspended"]
    /\ Abort(r) /\ ChildKilled(r)
    /\ UNCHANGED <<gen, sent, plans, slots, spent, journal, crashes>>

Stop(r) ==
    /\ Quiet /\ state[r] # "over"
    /\ state' = [state EXCEPT ![r] = "over"]
    /\ Abort(r) /\ ChildKilled(r)
    /\ UNCHANGED <<gen, sent, plans, slots, spent, journal, crashes>>

\* The script returns, throws or runs out of time; calls it did not wait for go on.
Complete(r) ==
    /\ Quiet /\ state[r] = "running"
    /\ state' = [state EXCEPT ![r] = "over"]
    /\ UNCHANGED <<gen, aborted, sent, pipe, plans, slots, at, spent, journal, crashes>>

\* A new execution with a new abort controller; the journal becomes its plan.
Resume(r) ==
    /\ Quiet /\ state[r] = "suspended" /\ gen[r] < MaxExecutions
    /\ state' = [state EXCEPT ![r] = "running"]
    /\ gen' = [gen EXCEPT ![r] = @ + 1]
    /\ aborted' = [aborted EXCEPT ![r] = FALSE]
    /\ sent' = [sent EXCEPT ![r] = 0]
    /\ plan' = [plan EXCEPT ![r] = {s \in Seqs : journal[r][s] = "settled"}]
    /\ missed' = [missed EXCEPT ![r] = FALSE]
    /\ replayed' = [replayed EXCEPT ![r] = {}]
    /\ UNCHANGED <<pipe, slots, at, spent, journal, crashes>>

\* The engine dies, with every call on its way, and boots again: what was running is
\* interrupted.  The journal and the recorded spending are read back from the store.
Crash ==
    /\ crashes < MaxCrashes /\ crashes' = crashes + 1
    /\ state' = [r \in Runs |-> IF state[r] = "running" THEN "suspended" ELSE state[r]]
    /\ aborted' = [r \in Runs |-> FALSE]
    /\ pipe' = {} /\ plan' = [r \in Runs |-> {}] /\ missed' = [r \in Runs |-> FALSE]
    /\ guardQueue' = [r \in Runs |-> <<>>] /\ inFlight' = [r \in Runs |-> 0]
    /\ queue' = <<>> /\ inUse' = 0
    /\ at' = [c \in Call |-> "out"]
    /\ replayed' = [r \in Runs |-> {}]
    /\ UNCHANGED <<gen, sent, spent, journal>>

-----------------------------------------------------------------------------
CallStep(c) == Check(c) \/ Launch(c) \/ Finish(c) \/ FinishCut(c)

Next ==
    \/ \E r \in Runs : Send(r) \/ Suspend(r) \/ Stop(r) \/ Complete(r) \/ Resume(r)
    \/ \E c \in Call : Receive(c) \/ Answer(c) \/ CallStep(c)
    \/ Crash

Spec == Init /\ [][Next]_vars

\* The microtask queue always drains, and a gateway call ends at the latest at its
\* timeoutMs; other macrotasks come between, but each call's answer is delivered.
Fairness == \A c \in Call : WF_vars(CallStep(c)) /\ SF_vars(Answer(c))

FairSpec == Spec /\ Fairness

-----------------------------------------------------------------------------
(* Properties.                                                             *)

\* No slot is lost or handed out twice: the counters of the guard and of the semaphore
\* count exactly the calls that hold a slot, never more than there are, and somebody waits
\* only while all of them are taken.
SlotsAccounted ==
    /\ inUse = Cardinality(Dispatched) /\ inUse <= Slots
    /\ queue # <<>> => inUse = Slots
    /\ \A r \in Runs :
          /\ inFlight[r] = Cardinality(Holding(r)) /\ inFlight[r] <= Concurrency
          /\ guardQueue[r] # <<>> => inFlight[r] = Concurrency

\* run-manager.ts: the budget is checked with the slot in hand, so a run overshoots by no
\* more than concurrency x one call's cost, however the calls interleave, across suspends,
\* resumes and crashes.
BoundedOvershoot == \A r \in Runs : spent[r] < Budget + Concurrency

\* Once a suspend or a stop is through, nothing of the run is at the gateway, whatever was
\* waiting for a slot at the time and whenever it gets one.
NothingFliesAborted ==
    Quiet => \A c \in Call : aborted[c.run] => at[c] # "flying"

\* resume-cache.ts: what a resumed script is answered from the journal is an unbroken
\* prefix of its calls; after the first call that runs live, all do.
PrefixReplayed ==
    \A r \in Runs : \A s \in replayed[r] : \A q \in Seqs : q < s => q \in replayed[r]

\* Every call that waits for a slot gets one or is given up with its run's process.
CallsLeave == \A c \in Call : at[c] \in {"slot", "queued"} ~> at[c] \notin {"slot", "queued"}

\* Two locks are taken, the run's and the host's, and never wait for one another: a call that waits
\* is in the line its slot will be handed down, also when its run was suspended or stopped
\* meanwhile, and some call is past both lines and waits for no other.
NobodyStranded ==
    /\ \A c \in Call :
          /\ at[c] = "slot" => \E i \in DOMAIN guardQueue[c.run] : guardQueue[c.run][i] = c
          /\ at[c] = "queued" => \E i \in DOMAIN queue : queue[i] = c
    /\ (\E c \in Call : at[c] \in {"slot", "queued"}) =>
          \E d \in Call : at[d] \in {"checking", "starting", "flying", "cut", "answered"}

\* The slots of the host, and those of each run, are handed out first come, first served: no
\* call overtakes one that waits, and none loses its slot or its place in line but by its own
\* end or a crash (SlotPool).
HostPool == INSTANCE SlotPool WITH
    Clients <- Call, Width <- Slots, holding <- Dispatched, line <- queue
GuardPool(r) == INSTANCE SlotPool WITH
    Clients <- {c \in Call : c.run = r}, Width <- Concurrency, holding <- Holding(r), line <- guardQueue[r]

SlotsInOrder ==
    /\ HostPool!PSpec
    /\ \A r \in Runs : GuardPool(r)!PInit
    /\ [][\A r \in Runs : GuardPool(r)!PStep]_vars

\* DEPLOY.md: journaled calls are replayed and not made again.  No call goes to the gateway
\* whose result is in the journal while the plan answers all the calls before it.
NoSecondDispatch ==
    [][\A c \in Call :
         /\ at[c] # "flying" /\ at'[c] = "flying"
         /\ \A s \in Seqs : s < c.seq => s \in plan[c.run]
         => journal[c.run][c.seq] # "settled"]_vars
=============================================================================
