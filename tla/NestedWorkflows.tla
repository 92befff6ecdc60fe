--------------------------- MODULE NestedWorkflows ---------------------------
(***************************************************************************)
(* The scripts of one run: the top-level one and the frames that its       *)
(* workflow() calls open, each in a child process of its own               *)
(* (run-manager.ts _handleWorkflowRequest, sandbox/host.ts).  A frame is   *)
(* admitted, waits for a slot of RunEntry.workflowGuard, holds it until    *)
(* its child has settled, and may open frames of its own meanwhile.        *)
(*                                                                         *)
(* A script is named by the execution it belongs to and by its path: the   *)
(* callSeqs that lead to it from the top (<<>>).  An action is a macrotask *)
(* of the engine or a step of a child; a frame that was granted a slot     *)
(* goes on before the next of them (Quiet).                                *)
(***************************************************************************)
EXTENDS Naturals, Sequences, FiniteSets

CONSTANTS
    Sites,          \* the paths of the workflow() calls of the scripts
    Workflow,       \* path -> the workflow called there; <<>> -> the run's own
    Prompt,         \* path -> the key of the agent() call that frame makes
    Callers,        \* the sites whose frames make an agent() call
    BadArgs,        \* sites whose arguments the child's contract refuses
    Unfit,          \* sites whose workflow is not admitted: unknown, stale, assets missing
    Concurrency,    \* rwe.config.json runConcurrency: slots of the workflowGuard
    MaxDepth,       \* rwe.config.json maxWorkflowDepth
    MaxDescendants, \* rwe.config.json maxWorkflowDescendants
    LateMessages,   \* may a killed child's pipe still hold messages when the run is resumed?
    MaxExecutions,  \* bound on the executions of the run (1 + resumes)
    MaxCrashes      \* bound on crashes of the engine

Scripts == Sites \cup {<<>>}
Execs == 1..MaxExecutions
Script == [path : Scripts, exec : Execs]
Frame == [path : Sites, exec : Execs]

Caller(f) == [f EXCEPT !.path = SubSeq(f.path, 1, Len(f.path) - 1)]

ASSUME NestedAssumption ==
    /\ IsFiniteSet(Sites) /\ Sites \subseteq Seq(Nat) \ {<<>>}
    /\ \A s \in Sites : SubSeq(s, 1, Len(s) - 1) \in Scripts
    /\ {Callers, BadArgs, Unfit} \subseteq SUBSET Sites
    /\ {Concurrency, MaxExecutions} \subseteq Nat \ {0}
    /\ LateMessages \in BOOLEAN
    /\ {MaxDepth, MaxDescendants, MaxCrashes} \subseteq Nat

VARIABLES
    run,         \* the run's status: "running", "suspended" (or interrupted), "over"
    exec,        \* which execution of the run this is
    aborted,     \* executions whose entry.abortController has fired
    at,          \* script -> where it is, see Places
    signal,      \* frame -> the execution whose signal its handler captured
    line,        \* workflowGuard's queue
    inFlight,    \* workflowGuard's _inFlight
    descendants, \* entry.descendants
    forked,      \* history: frames of this execution that got a child
    bases,       \* entry.nestedFrames: path -> its number, 0 when it has none
    journal,     \* frame number -> the paths whose agent() results it holds, last one
    plan,        \* entry.cachePlan: the journal when the run was resumed
    missed,      \* ResumePlan._missed
    source,      \* script -> whose journaled answer its agent() call got, <<>> before that
    up,          \* is the engine running?
    procs,       \* child processes that are running a script
    records,     \* files of the sandbox-children registry
    crashes

control == <<run, exec, aborted, descendants, up, crashes>>
slots == <<line, inFlight>>
replay == <<journal, plan, missed, source>>
children == <<procs, records>>
vars == <<control, at, signal, slots, forked, bases, replay, children>>

\* Of a script: not begun; its message is in its caller's pipe; waiting for the model book;
\* in line for a slot; granted one; its child runs; its child has sent done or error; its
\* child was killed and 'close' is still to come; settled.
Places == {"out", "sent", "admitting", "queued", "granted", "alive", "ended", "dying",
           "ok", "failed"}
Started == {"alive", "ended", "dying"}

Top(e) == [path |-> <<>>, exec |-> e]
Numbers == 1..Cardinality(Sites)

Init ==
    /\ run = "running" /\ exec = 1 /\ aborted = {}
    /\ at = [s \in Script |-> IF s = Top(1) THEN "alive" ELSE "out"]
    /\ signal = [f \in Frame |-> 1]
    /\ line = <<>> /\ inFlight = 0
    /\ descendants = 0 /\ forked = {}
    /\ bases = [p \in Sites |-> 0]
    /\ journal = [n \in Numbers |-> <<>>] /\ plan = journal
    /\ missed = FALSE /\ source = [s \in Script |-> <<>>]
    /\ up = TRUE /\ procs = {Top(1)} /\ records = {Top(1)} /\ crashes = 0

TypeOK ==
    /\ run \in {"running", "suspended", "over"} /\ exec \in Execs
    /\ aborted \subseteq Execs
    /\ at \in [Script -> Places] /\ signal \in [Frame -> Execs]
    /\ line \in Seq(Frame) /\ inFlight \in Nat
    /\ descendants \in Nat /\ forked \subseteq Frame
    /\ bases \in [Sites -> 0..Cardinality(Sites)]
    /\ journal \in [Numbers -> Scripts] /\ plan \in [Numbers -> Scripts]
    /\ missed \in BOOLEAN /\ source \in [Script -> Scripts]
    /\ up \in BOOLEAN /\ procs \subseteq Script /\ records \subseteq Script
    /\ crashes \in 0..MaxCrashes

-----------------------------------------------------------------------------
Granted == {f \in Frame : at[f] = "granted"}
Quiet == up /\ Granted = {}

\* The frames that hold a slot of the workflowGuard.
Holders == {f \in Frame : at[f] \in Started \cup {"granted"}}

Subframes(s) == {f \in Frame : Caller(f) = s}
Before(f) == {g \in Subframes(Caller(f)) : g.path[Len(g.path)] < f.path[Len(f.path)]}
Asked(s) == {f \in Subframes(s) : at[f] # "out"}
Settled(f) == at[f] \in {"ok", "failed"}

\* The child's messages have all been read.
PipeRead(s) == \A f \in Subframes(s) : at[f] # "sent"

\* RunGuard.acquireSlot of the workflowGuard
AcquireSlot(f) ==
    \/ /\ inFlight < Concurrency
       /\ inFlight' = inFlight + 1 /\ UNCHANGED line
       /\ at' = [at EXCEPT ![f] = "granted"]
    \/ /\ inFlight >= Concurrency
       /\ line' = Append(line, f) /\ UNCHANGED inFlight
       /\ at' = [at EXCEPT ![f] = "queued"]

\* Mutant: the next in line is woken and not counted.
ReleaseUncounted(places) ==
    /\ inFlight' = inFlight - 1
    /\ line' = IF line = <<>> THEN line ELSE Tail(line)
    /\ at' = IF line = <<>> THEN places ELSE [places EXCEPT ![Head(line)] = "granted"]

\* Mutant: the slot is given back, and nobody in line is told.
ReleaseSilently(places) == inFlight' = inFlight - 1 /\ at' = places /\ UNCHANGED line

\* RunGuard.release: places is where the scripts are but for the next in line.
ReleaseSlot(places) ==
    \/ /\ line = <<>>
       /\ inFlight' = inFlight - 1 /\ at' = places /\ UNCHANGED line
    \/ /\ line # <<>>
       /\ line' = Tail(line) /\ UNCHANGED inFlight
       /\ at' = [places EXCEPT ![Head(line)] = "granted"]

\* The run of the script's child resolves to outcome: a frame gives its slot back and its
\* caller gets the outcome; the top-level script ends the run if it is still its own.
Settle(s, outcome) ==
    /\ records' = records \ {s}
    /\ IF s.path = <<>>
       THEN /\ at' = [at EXCEPT ![s] = outcome]
            /\ run' = IF s.exec = exec /\ run = "running" THEN "over" ELSE run
            /\ UNCHANGED slots
       ELSE ReleaseSlot([at EXCEPT ![s] = outcome]) /\ UNCHANGED run

\* SandboxHost.run: fork the child and write its record.
Fork(s) == procs' = procs \cup {s} /\ records' = records \cup {s}

-----------------------------------------------------------------------------
\* A script calls workflow() (child-entry.ts): parallel() makes the calls of a script in
\* the order of their callSeqs.
Ask(f) ==
    /\ at[f] = "out" /\ at[Caller(f)] = "alive" /\ Quiet
    /\ \A g \in Before(f) : at[g] # "out"
    /\ at' = [at EXCEPT ![f] = "sent"]
    /\ UNCHANGED <<control, signal, slots, forked, bases, replay, children>>

\* The depth and cycle checks of _handleWorkflowRequest.
Refused(p) ==
    \/ Len(p) > MaxDepth
    \/ \E n \in 0..Len(p) - 1 : Workflow[SubSeq(p, 1, n)] = Workflow[p]

\* Mutant: the frame is counted when it gets its child.
CountLate(f) ==
    /\ at[f] = "sent" /\ Quiet /\ \A g \in Before(f) : at[g] # "sent"
    /\ signal' = [signal EXCEPT ![f] = exec]
    /\ LET admitted == exec \notin aborted /\ ~Refused(f.path) /\ f.path \notin Unfit \cup BadArgs
                       /\ Cardinality(forked) < MaxDescendants
       IN at' = [at EXCEPT ![f] = IF admitted THEN "admitting" ELSE "failed"]
    /\ UNCHANGED <<control, slots, forked, bases, replay, children>>

\* The host reads a 'workflow' message: _handleWorkflowRequest up to the model book.  A
\* frame whose arguments are refused gives its place among the descendants back.
Receive(f) ==
    /\ at[f] = "sent" /\ Quiet /\ \A g \in Before(f) : at[g] # "sent"
    /\ signal' = [signal EXCEPT ![f] = exec]
    /\ \/ /\ exec \in aborted \/ Refused(f.path)
          /\ at' = [at EXCEPT ![f] = "failed"] /\ UNCHANGED descendants
       \/ /\ exec \notin aborted /\ ~Refused(f.path)
          /\ LET over == descendants + 1 > MaxDescendants IN
             /\ descendants' = IF ~over /\ f.path \in BadArgs \ Unfit THEN descendants
                               ELSE descendants + 1
             /\ at' = [at EXCEPT ![f] = IF over \/ f.path \in Unfit \cup BadArgs
                                        THEN "failed" ELSE "admitting"]
    /\ UNCHANGED <<run, exec, aborted, up, crashes, slots, forked, bases, replay, children>>

\* Mutant: the number comes from the caller's callSeq alone.
NumberByCallSeq(f) ==
    bases' = [bases EXCEPT ![f.path] = f.path[Len(f.path)] + 1]

\* _frameBaseFor: a path gets the next free number the first time it is touched.
FrameBaseFor(f) ==
    LET taken == {p \in Sites : bases[p] # 0} IN
    bases' = IF bases[f.path] # 0 THEN bases
             ELSE [bases EXCEPT ![f.path] = Cardinality(taken) + 1]

\* The model book has answered: the frame gets its number and asks for a slot.
Admit(f) ==
    /\ at[f] = "admitting" /\ Quiet
    /\ \/ /\ signal[f] \in aborted
          /\ at' = [at EXCEPT ![f] = "failed"] /\ UNCHANGED <<slots, bases>>
       \/ /\ signal[f] \notin aborted
          /\ FrameBaseFor(f) /\ AcquireSlot(f)
    /\ UNCHANGED <<control, signal, forked, replay, children>>

\* Mutant: a slot that comes after the abort is used.
GrantedUnchecked(f) ==
    /\ at[f] = "granted"
    /\ Fork(f) /\ forked' = forked \cup {f}
    /\ at' = [at EXCEPT ![f] = "alive"]
    /\ UNCHANGED <<control, signal, slots, bases, replay>>

\* A frame goes on with its slot: its generation is looked at again before the fork.
GrantSlot(f) ==
    /\ at[f] = "granted"
    /\ \/ /\ signal[f] \in aborted
          /\ ReleaseSlot([at EXCEPT ![f] = "failed"])
          /\ UNCHANGED <<forked, children>>
       \/ /\ signal[f] \notin aborted
          /\ Fork(f) /\ forked' = forked \cup {f}
          /\ at' = [at EXCEPT ![f] = "alive"]
          /\ UNCHANGED slots
    /\ UNCHANGED <<control, signal, bases, replay>>

\* An agent() call of a frame, from its message to its journal entry: replayed under the
\* frame's number when the plan holds the same key there, dispatched and journaled else.
AgentCall(f) ==
    LET number == bases[f.path]
        hit == ~missed /\ plan[number] # <<>> /\ Prompt[plan[number]] = Prompt[f.path]
    IN
    /\ f.path \in Callers /\ source[f] = <<>>
    /\ at[f] = "alive" /\ Quiet /\ signal[f] \notin aborted
    /\ \/ /\ hit
          /\ source' = [source EXCEPT ![f] = plan[number]]
          /\ UNCHANGED <<missed, journal>>
       \/ /\ ~hit
          /\ source' = [source EXCEPT ![f] = f.path]
          /\ missed' = TRUE
          /\ journal' = [journal EXCEPT ![number] = f.path]
    /\ UNCHANGED <<control, at, signal, slots, forked, bases, plan, children>>

-----------------------------------------------------------------------------
\* The script has ended: its calls are settled, or an error of one of them got through.
\* The child sends done or error and exits.
Finish(s) ==
    /\ at[s] = "alive" /\ Quiet
    /\ \/ \A f \in Asked(s) : Settled(f)
       \/ \E f \in Asked(s) : at[f] = "failed"
    /\ at' = [at EXCEPT ![s] = "ended"]
    /\ procs' = procs \ {s}
    /\ UNCHANGED <<control, signal, slots, forked, bases, replay, records>>

\* The host reads the child's last message.
Deliver(s) ==
    /\ at[s] = "ended" /\ PipeRead(s) /\ Quiet
    /\ Settle(s, IF \E f \in Asked(s) : at[f] = "failed" THEN "failed" ELSE "ok")
    /\ UNCHANGED <<exec, aborted, descendants, up, crashes, signal, forked, bases, replay, procs>>

\* A child dies by itself, out of memory for one.
Die(s) ==
    /\ at[s] = "alive" /\ Quiet
    /\ at' = [at EXCEPT ![s] = "dying"]
    /\ procs' = procs \ {s}
    /\ UNCHANGED <<control, signal, slots, forked, bases, replay, records>>

\* 'close' of a child that ended without a message: SCRIPT_OOM or ABORTED.
Close(s) ==
    /\ at[s] = "dying" /\ PipeRead(s) /\ Quiet
    /\ Settle(s, "failed")
    /\ UNCHANGED <<exec, aborted, descendants, up, crashes, signal, forked, bases, replay, procs>>

\* maxRunDurationMs is over: SCRIPT_TIMEOUT, then the child is killed.
Deadline(s) ==
    /\ at[s] \in Started /\ Quiet
    /\ Settle(s, "failed")
    /\ procs' = procs \ {s}
    /\ UNCHANGED <<exec, aborted, descendants, up, crashes, signal, forked, bases, replay>>

-----------------------------------------------------------------------------
\* The scripts that an abort of the present execution kills: the top-level one and those
\* whose frames listen to its signal.
Listening == {s \in Script : at[s] = "alive"
                /\ (IF s.path = <<>> THEN s.exec = exec ELSE signal[s] = exec)}

\* What suspend() and stop() do to the scripts; what they wait for in between is the run
\* lifecycle's.
Abort(status) ==
    /\ Quiet
    /\ run' = status /\ aborted' = aborted \cup {exec}
    /\ at' = [s \in Script |-> IF s \in Listening THEN "dying" ELSE at[s]]
    /\ procs' = procs \ Listening
    /\ UNCHANGED <<exec, descendants, up, crashes, signal, slots, forked, bases, replay, records>>

Suspend == run = "running" /\ Abort("suspended")
Stop == run # "over" /\ Abort("over")

\* resume(): the entry's counters and frames start anew, the workflowGuard stays.
Resume ==
    /\ run = "suspended" /\ Quiet /\ exec < MaxExecutions
    /\ LateMessages \/ \A f \in Frame : at[f] # "sent"
    /\ run' = "running" /\ exec' = exec + 1
    /\ descendants' = 0 /\ forked' = {} /\ bases' = [p \in Sites |-> 0]
    /\ plan' = journal /\ missed' = FALSE
    /\ Fork(Top(exec + 1))
    /\ at' = [at EXCEPT ![Top(exec + 1)] = "alive"]
    /\ UNCHANGED <<aborted, up, crashes, signal, slots, journal, source>>

\* The engine is killed; its children may go on.
Crash ==
    /\ up /\ crashes < MaxCrashes
    /\ up' = FALSE /\ crashes' = crashes + 1
    /\ at' = [s \in Script |-> "out"]
    /\ line' = <<>> /\ inFlight' = 0
    /\ UNCHANGED <<run, exec, aborted, descendants, signal, forked, bases, replay, children>>

\* Mutant: the children of the process before are left to themselves.
BootUnswept ==
    /\ ~up /\ up' = TRUE
    /\ run' = IF run = "running" THEN "suspended" ELSE run
    /\ records' = {}
    /\ UNCHANGED <<exec, aborted, descendants, crashes, at, signal, slots, forked, bases, replay, procs>>

\* Boot: sweepOrphanSandboxChildren, and a run that was running is interrupted.
Boot ==
    /\ ~up /\ up' = TRUE
    /\ run' = IF run = "running" THEN "suspended" ELSE run
    /\ procs' = procs \ records /\ records' = {}
    /\ UNCHANGED <<exec, aborted, descendants, crashes, at, signal, slots, forked, bases, replay>>

\* What the event loop has ready: messages in a pipe, continuations, 'close' events.
EngineStep ==
    \/ \E f \in Frame : Receive(f) \/ Admit(f) \/ GrantSlot(f)
    \/ \E s \in Script : Deliver(s) \/ Close(s)

Next ==
    \/ EngineStep
    \/ \E f \in Frame : Ask(f) \/ AgentCall(f)
    \/ \E s \in Script : Finish(s) \/ Die(s) \/ Deadline(s)
    \/ Suspend \/ Stop \/ Resume \/ Crash \/ Boot

Spec == Init /\ [][Next]_vars

\* The event loop never rests while something is ready, and its timers fire.  Nothing is
\* said of the scripts, which may hang, nor of requests.
FairSpec == Spec /\ WF_vars(EngineStep) /\ WF_vars(\E s \in Script : Deadline(s))

-----------------------------------------------------------------------------
(* Properties *)

\* The workflowGuard counts exactly the frames between acquireSlot and release, never more
\* than its width, and its line holds every frame that waits, once, and only while no
\* slot is free.
SlotsAccounted ==
    /\ inFlight = Cardinality(Holders) /\ inFlight <= Concurrency
    /\ line # <<>> => inFlight = Concurrency
    /\ {line[n] : n \in DOMAIN line} = {f \in Frame : at[f] = "queued"}
    /\ \A m, n \in DOMAIN line : line[m] = line[n] => m = n

\* Slots are handed out first come, first served: no frame overtakes one that waits, and none
\* loses its slot or its place in line but by its own end or a crash (SlotPool).
FramePool == INSTANCE SlotPool WITH
    Clients <- Frame, Width <- Concurrency, holding <- Holders, line <- line

SlotsInOrder == FramePool!PSpec

\* No execution forks more than maxWorkflowDescendants children, however many of its
\* frames are on their way through admission at once.
DescendantsCapped == Cardinality(forked) <= MaxDescendants

\* No frame's child runs under a signal that has fired: neither one that ran when suspend
\* or stop came nor one that was in line for a slot or waiting for the model book then.
NothingRunsAborted == \A f \in Frame : at[f] = "alive" => signal[f] \notin aborted

\* Two frames of one execution never share a number, so that their agent() calls never
\* meet in the journal.
NumbersApart ==
    \A p, q \in Sites : bases[p] = bases[q] /\ bases[p] # 0 => p = q

\* While the engine runs, every process that runs a script is one it is waiting for: an
\* execution survives neither the frame's deadline nor a crash of the engine.
NoOrphans == up => procs = {s \in Script : at[s] = "alive"}

\* No workflow() call stays unanswered: time and again every call that was made is settled
\* (or lost in a crash), at the latest when the deadlines of the scripts it waits for are
\* over.
FramesAnswered == []<>(\A f \in Frame : at[f] = "out" \/ Settled(f))

\* A script that waits for all it has asked for: its slot comes back only after theirs.
Waiting(s) ==
    /\ at[s] = "alive" /\ Asked(s) = Subframes(s)
    /\ \A f \in Asked(s) : at[f] # "failed"
    /\ \E f \in Asked(s) : ~Settled(f)

\* Frames that wait for a slot get one as slots become free: never does every holder of a
\* slot wait for frames that hold slots or wait for one themselves, which only a deadline
\* of hours ends.
SlotsFlow ==
    ~ /\ line # <<>>
      /\ \A f \in Holders :
           /\ Waiting(f)
           /\ \A g \in Asked(f) : Settled(g) \/ at[g] = "queued" \/ g \in Holders

\* An agent() call of a resumed run is answered from the journal only with what the same
\* call of the same frame answered before.
ReplayIsOwn == \A f \in Frame : source[f] \in {<<>>, f.path}
=============================================================================
