---------------------------- MODULE ScheduleFiring ----------------------------
(***************************************************************************)
(* How cron and one-shot schedules start runs (scheduler.ts,               *)
(* scheduler-engine.ts and the ticker of server.ts).  A tick takes every   *)
(* due row, consumes the due instant in the row (claimFiring), resolves    *)
(* the claimed workflow and calls RunManager.start(); when start() answers *)
(* the outcome is written on the row.  Between the two other ticks, API    *)
(* calls, a crash and a boot may come.                                     *)
(*                                                                         *)
(* Time is counted in units in which a restart takes at least one; cron    *)
(* rows share one expression, given by the instants at which it fires.     *)
(***************************************************************************)
EXTENDS Naturals, Sequences, FiniteSets

CONSTANTS
    Crons, Onces,   \* ids of cron schedules and of one-shot schedules
    Instants,       \* when the cron expression fires, within the search horizon
    MaxTime,        \* bound on the clock, but for boots
    MaxFirings,     \* bound on the firings that are dispatched
    MaxArms,        \* bound on the times one row is enabled
    MaxCrashes      \* bound on crashes of the engine

ASSUME ScheduleAssumption ==
    /\ Crons \cap Onces = {}
    /\ {MaxTime, MaxFirings, MaxArms, MaxCrashes} \subseteq Nat
    /\ Instants \subseteq 0..MaxTime

Schedules == Crons \cup Onces
Time == 0..MaxTime
Never == MaxTime + 1

VARIABLES
    now,        \* clock.now()
    up,         \* is the engine running?
    row,        \* schedule -> its row, or NoRow
    firings,    \* every firing dispatched so far, the n-th with its outcome
    arms,       \* schedule -> how often it was enabled while it was not (history)
    crashes

vars == <<now, up, row, firings, arms, crashes>>

\* workflow: no claim, claimed by a registration, or bound when it was created (and perhaps
\* claimed since), as only rows of older releases are.  The last three fields name the firing that wrote them, 0 when
\* they are NULL.
Row == [enabled : BOOLEAN, workflow : {"none", "claimed", "legacy"}, nextFire : Time,
        lastRun : Nat, lastError : Nat, lastRefusal : Nat]
NoRow == [enabled |-> FALSE, workflow |-> "none", nextFire |-> 0,
          lastRun |-> 0, lastError |-> 0, lastRefusal |-> 0, absent |-> TRUE]
Exists(s) == row[s] # NoRow

Outcomes == {"starting", "fired", "failed", "refused", "lost"}
Firing == [id : Schedules, due : Nat, outcome : Outcomes]
BadCron == MaxFirings + 1       \* in lastError: INVALID_CRON, of no firing

TypeOK ==
    /\ now \in Nat /\ up \in BOOLEAN
    /\ row \in [Schedules -> Row \cup {NoRow}]
    /\ firings \in Seq(Firing)
    /\ arms \in [Schedules -> Nat]
    /\ crashes \in Nat

-----------------------------------------------------------------------------
\* computeNextFire: the first instant later than t - 1, and later than t; it throws when
\* there is none within its horizon.
Least(times) == IF times = {} THEN Never ELSE CHOOSE t \in times : \A u \in times : t <= u
From(t) == Least({i \in Instants : i >= t})
After(t) == Least({i \in Instants : i > t})

NewRow(on, workflow, at) ==
    [enabled |-> on, workflow |-> workflow, nextFire |-> at,
     lastRun |-> 0, lastError |-> 0, lastRefusal |-> 0]

\* The database is empty, or holds rows that are bound to their workflow; cron rows have just
\* been re-armed.
Init ==
    /\ now = 0 /\ up = TRUE
    /\ row \in [Schedules -> {NoRow} \cup
                  {NewRow(on, "legacy", at) : on \in {b \in BOOLEAN : b => MaxArms > 0}, at \in Time}]
    /\ \A s \in Crons : Exists(s) => row[s].nextFire = From(now)
    /\ firings = <<>>
    /\ arms = [s \in Schedules |-> IF row[s].enabled THEN 1 ELSE 0]
    /\ crashes = 0

Armed(s, on) == arms' = [arms EXCEPT ![s] = IF on THEN @ + 1 ELSE @]

\* schedule_create: an id that was never armed; at is the instant of a one-shot, past or future.
Create(s, on, at) ==
    /\ up /\ ~Exists(s) /\ arms[s] = 0
    /\ on => MaxArms > 0
    /\ at # Never       \* INVALID_CRON
    /\ row' = [row EXCEPT ![s] = NewRow(on, "none", at)]
    /\ Armed(s, on)
    /\ UNCHANGED <<now, up, firings, crashes>>

\* schedule_setEnabled
SetEnabled(s, on) ==
    /\ up /\ Exists(s) /\ row[s].enabled # on
    /\ on => arms[s] < MaxArms
    /\ row' = [row EXCEPT ![s].enabled = on]
    /\ Armed(s, on)
    /\ UNCHANGED <<now, up, firings, crashes>>

\* schedule_delete
Delete(s) ==
    /\ up /\ Exists(s)
    /\ row' = [row EXCEPT ![s] = NoRow]
    /\ UNCHANGED <<now, up, firings, arms, crashes>>

\* workflow_register({triggers}): claim, which leaves enabled and nextFire alone.
Claim(s) ==
    /\ up /\ Exists(s) /\ row[s].workflow = "none"
    /\ row' = [row EXCEPT ![s].workflow = "claimed"]
    /\ UNCHANGED <<now, up, firings, arms, crashes>>

\* workflow_register whose version was not inserted: release, of what it had claimed.
Release(s) ==
    /\ up /\ Exists(s) /\ row[s].workflow # "none"
    /\ row' = [row EXCEPT ![s].workflow = "none"]
    /\ UNCHANGED <<now, up, firings, arms, crashes>>

\* workflow_deregister: release, and disable.
Deregister(s) ==
    /\ up /\ Exists(s) /\ row[s].workflow # "none"
    /\ row' = [row EXCEPT ![s].workflow = "none", ![s].enabled = FALSE]
    /\ UNCHANGED <<now, up, firings, arms, crashes>>

-----------------------------------------------------------------------------
\* all() and tick(): is s due?
Due(s) ==
    /\ Exists(s) /\ row[s].enabled /\ row[s].workflow # "none"
    /\ row[s].nextFire <= now

\* Mutants of claimFiring: the row stays as it is until the outcome is known; the next
\* instant is computed from now - 1.
ConsumedLater(s) == row[s]
ConsumedFromNow(s) ==
    IF s \in Onces THEN [row[s] EXCEPT !.enabled = FALSE]
    ELSE [row[s] EXCEPT !.nextFire = From(now)]

\* claimFiring: a one-shot is disabled, a cron row gets its next instant.
Consumed(s) ==
    IF s \in Onces THEN [row[s] EXCEPT !.enabled = FALSE]
    ELSE [row[s] EXCEPT !.nextFire = After(now)]

\* ... and a cron row that has no next instant is disabled with an error, unfired.
Exhausted(s) == s \in Crons /\ After(now) = Never

Tick(s) ==
    /\ up /\ Due(s)
    /\ \/ /\ Exhausted(s)
          /\ row' = [row EXCEPT ![s].enabled = FALSE, ![s].lastError = BadCron]
          /\ UNCHANGED firings
       \/ /\ ~Exhausted(s) /\ Len(firings) < MaxFirings
          /\ \E o \in {"starting", "refused"} :     \* resolveScheduleTarget
                /\ firings' = Append(firings, [id |-> s, due |-> row[s].nextFire, outcome |-> o])
                /\ row' = [row EXCEPT ![s] =
                       IF o = "refused" THEN [Consumed(s) EXCEPT !.lastRefusal = Len(firings) + 1]
                       ELSE Consumed(s)]
    /\ UNCHANGED <<now, up, arms, crashes>>

\* Mutant: markRefused still guards its write with enabled = 1.
MarkedIfEnabled(n, outcome) ==
    LET s == firings[n].id IN
    CASE outcome = "fired" -> [row[s] EXCEPT !.lastRun = n, !.lastError = 0, !.lastRefusal = 0]
      [] outcome = "failed" -> [row[s] EXCEPT !.lastError = n]
      [] outcome = "refused" ->
            IF row[s].enabled THEN [row[s] EXCEPT !.lastRefusal = n] ELSE row[s]

\* markFired, markFailed, markRefused
Marked(n, outcome) ==
    LET s == firings[n].id
        r == IF s \in Onces THEN [row[s] EXCEPT !.enabled = FALSE] ELSE row[s]
    IN CASE outcome = "fired" -> [r EXCEPT !.lastRun = n, !.lastError = 0, !.lastRefusal = 0]
         [] outcome = "failed" -> [r EXCEPT !.lastError = n]
         [] outcome = "refused" -> [r EXCEPT !.lastRefusal = n]

\* start() answers with a run, throws, or refuses for want of confinement.
Mark(n, outcome) ==
    /\ up /\ firings[n].outcome = "starting"
    /\ firings' = [firings EXCEPT ![n].outcome = outcome]
    /\ IF Exists(firings[n].id)
       THEN row' = [row EXCEPT ![firings[n].id] = Marked(n, outcome)]
       ELSE UNCHANGED row
    /\ UNCHANGED <<now, up, arms, crashes>>

-----------------------------------------------------------------------------
Advance ==
    /\ now < MaxTime /\ now' = now + 1
    /\ UNCHANGED <<up, row, firings, arms, crashes>>

\* The engine dies; a firing on its way has started its run or has not, and the row does
\* not say.
Crash ==
    /\ up /\ crashes < MaxCrashes
    /\ crashes' = crashes + 1 /\ up' = FALSE
    /\ firings' = [n \in DOMAIN firings |->
           IF firings[n].outcome = "starting" THEN [firings[n] EXCEPT !.outcome = "lost"]
           ELSE firings[n]]
    /\ UNCHANGED <<now, row, arms>>

\* Mutant: rearmAtBoot reads the claimed rows as well.
RearmedAll(s, t) ==
    IF s \in Crons /\ row[s].workflow # "none" /\ From(t) # Never
    THEN [row[s] EXCEPT !.nextFire = From(t)] ELSE row[s]

\* Mutant: a cron expression that has run out is stored without an instant.
RearmedUnchecked(s, t) ==
    IF s \in Crons /\ row[s].workflow = "legacy"
    THEN [row[s] EXCEPT !.nextFire = From(t)] ELSE row[s]

\* bootRearm, for the rows that rearmAtBoot reads.
Rearmed(s, t) ==
    IF s \in Crons /\ row[s].workflow = "legacy"
    THEN IF From(t) = Never THEN [row[s] EXCEPT !.enabled = FALSE, !.lastError = BadCron]
         ELSE [row[s] EXCEPT !.nextFire = From(t)]
    ELSE row[s]

Boot ==
    /\ ~up
    /\ up' = TRUE /\ now' = now + 1
    /\ row' = [s \in Schedules |-> Rearmed(s, now + 1)]
    /\ UNCHANGED <<firings, arms, crashes>>

-----------------------------------------------------------------------------
CreateAny(s) ==
    \E on \in BOOLEAN :
        \/ s \in Crons /\ Create(s, on, From(now))
        \/ s \in Onces /\ \E at \in Time : Create(s, on, at)

Answered(n) == \E o \in {"fired", "failed", "refused"} : Mark(n, o)

Next ==
    \/ \E s \in Schedules :
          \/ CreateAny(s) \/ Delete(s) \/ Claim(s) \/ Release(s) \/ Deregister(s) \/ Tick(s)
          \/ \E on \in BOOLEAN : SetEnabled(s, on)
    \/ \E n \in DOMAIN firings : Answered(n)
    \/ Advance \/ Crash \/ Boot

Spec == Init /\ [][Next]_vars

\* The ticker runs every 500 ms and serves every due row; start() answers; the engine is
\* started again.
Fairness ==
    /\ \A s \in Schedules : WF_vars(Tick(s))
    /\ \A n \in 1..MaxFirings : WF_vars(n \in DOMAIN firings /\ Answered(n))
    /\ WF_vars(Boot)

FairSpec == Spec /\ Fairness

-----------------------------------------------------------------------------
(* Properties.                                                             *)

\* scheduler.ts claimFiring, "the single at-most-once gate": a cron schedule never fires
\* twice for one instant, and never goes back to an earlier one, however late a dispatch
\* answers and across disabling, late ticks, crashes and boots.
OneFiringPerInstant ==
    \A m, n \in DOMAIN firings :
        m < n /\ firings[m].id = firings[n].id /\ firings[m].id \in Crons
            => firings[m].due < firings[n].due

FiringsOf(s) == {n \in DOMAIN firings : firings[n].id = s}

\* A one-shot fires at most once for every time it was enabled, and one that may still fire
\* has a time left: no outcome that comes late gives it another.
OnceFiresPerArm ==
    \A s \in Onces :
        Cardinality(FiringsOf(s)) + (IF row[s].enabled THEN 1 ELSE 0) <= arms[s]

\* tool-specs.ts schedule_list: what became of a firing is on its row, unless a run that was
\* started cleared it; and a row tells of no outcome that no firing of its own had.
OutcomeOnRow ==
    /\ \A n \in DOMAIN firings : LET r == row[firings[n].id] IN
          Exists(firings[n].id) =>
             /\ firings[n].outcome = "fired" => r.lastRun # 0
             /\ firings[n].outcome = "failed" => r.lastError # 0 \/ r.lastRun # 0
             /\ firings[n].outcome = "refused" => r.lastRefusal # 0 \/ r.lastRun # 0
    /\ \A s \in Schedules : LET r == row[s] IN
          /\ r.lastRun # 0 => firings[r.lastRun] \in [id : {s}, due : Nat, outcome : {"fired"}]
          /\ r.lastError \notin {0, BadCron} =>
                firings[r.lastError] \in [id : {s}, due : Nat, outcome : {"failed"}]
          /\ r.lastRefusal # 0 =>
                firings[r.lastRefusal] \in [id : {s}, due : Nat, outcome : {"refused"}]

\* A due instant of a schedule that only a registration binds is fired, also when it
\* passed while the engine was down or before the claim, unless the schedule is meanwhile
\* disabled, deleted or released.
DueFires ==
    \A s \in Schedules, t \in Time :
        Due(s) /\ row[s].workflow = "claimed" /\ row[s].nextFire = t
            ~> \/ \E n \in FiringsOf(s) : firings[n].due = t
               \/ ~Exists(s) \/ ~row[s].enabled \/ row[s].workflow # "claimed"

-----------------------------------------------------------------------------
(* The contract (Timetable).                                               *)

rung == [s \in Crons |-> {firings[n].due : n \in FiringsOf(s)}]
shots == [s \in Onces |-> Cardinality(FiringsOf(s))]
allowed == [s \in Onces |-> arms[s]]

Plan == INSTANCE Timetable WITH clock <- now

\* scheduler-engine.ts computeNextFire and scheduler.ts claimFiring: a cron schedule fires for
\* instants its expression names, none before it has come and each later than the last; a
\* one-shot fires only when it was enabled for it.
OnTime == Plan!TSpec

=============================================================================
