-------------------------- MODULE WorkflowCatalog --------------------------
(***************************************************************************)
(* The catalog of registered workflows (workflow-catalog.ts), the claims   *)
(* that its versions have on triggers (scheduler.ts, webhook-registry.ts), *)
(* the handlers that change both (mcp-facade.ts), and the runs that are    *)
(* pinned to a version (run-manager.ts).  Catalog, schedules, webhooks and *)
(* runs are four SQLite files: each statement is atomic, a handler is not, *)
(* and a crash leaves it half done.                                        *)
(*                                                                         *)
(* Schedules and webhooks are claimed, released, disabled and fired alike  *)
(* and are called triggers here.  A handler runs without interruption up   *)
(* to its next wait: that of a registration and that of a start are for    *)
(* the model book.                                                         *)
(***************************************************************************)
EXTENDS Naturals, FiniteSets, FiniteSetsExt

CONSTANTS
    Names, Triggers, Scripts,
    Channels,       \* "release" and possibly "beta"
    MaxWorkflowVersions, \* the ceiling of that name
    MaxVersion,     \* name -> bound on the version numbers handed out for it
    Requests, Runs, \* registrations, and runs that are not over, at one time
    MaxCrashes,     \* bound on crashes of the engine
    Nobody, Gone    \* claimedBy of an unclaimed and of a deleted trigger

ASSUME CatalogAssumption ==
    /\ "release" \in Channels /\ {MaxWorkflowVersions, MaxCrashes} \subseteq Nat
    /\ MaxVersion \in [Names -> Nat]
    /\ Nobody \notin Names /\ Gone \notin Names /\ Nobody # Gone

VARIABLES
    versions,  \* name -> the versions registered: what each runs and declares
    hwm,       \* name -> the highest version number handed out
    channels,  \* name -> channel -> version number, 0 when unpublished
    claimedBy, \* trigger -> the workflow that claims it
    enabled,   \* triggers that are switched on
    request,   \* a registration that waits for the model book
    run,       \* a run: starting, live or interrupted
    crashes

vars == <<versions, hwm, channels, claimedBy, enabled, request, run, crashes>>

Numbers == Nat \ {0}
Version == [number : Numbers, script : Scripts, triggers : SUBSET Triggers]
NoRequest == [is |-> "idle"]
Registration == [is : {"register"}, name : Names, triggers : SUBSET Triggers]
NoRun == [is |-> "none"]
\* With the script that it was started with.
Run == [is : {"starting", "live", "interrupted"}, name : Names, version : Numbers, script : Scripts]
Unpublished == [c \in Channels |-> 0]

Init ==
    /\ versions = [n \in Names |-> {}] /\ hwm = [n \in Names |-> 0]
    /\ channels = [n \in Names |-> Unpublished]
    /\ claimedBy = [t \in Triggers |-> Nobody] /\ enabled = Triggers
    /\ request = [q \in Requests |-> NoRequest] /\ run = [r \in Runs |-> NoRun]
    /\ crashes = 0

TypeOK ==
    /\ versions \in [Names -> SUBSET Version] /\ hwm \in [Names -> Numbers \cup {0}]
    /\ channels \in [Names -> [Channels -> Numbers \cup {0}]]
    /\ claimedBy \in [Triggers -> Names \cup {Nobody, Gone}] /\ enabled \subseteq Triggers
    /\ request \in [Requests -> Registration \cup {NoRequest}]
    /\ run \in [Runs -> Run \cup {NoRun}] /\ crashes \in 0..MaxCrashes

-----------------------------------------------------------------------------
_listVersions(n) == {v.number : v \in versions[n]}

declaredTriggers(vs) == UNION {v.triggers : v \in vs}

\* resolve of a version, and of the release channel: the version in a set, or none.
Resolved(n, number) == {v \in versions[n] : v.number = number}
Released(n) == Resolved(n, channels[n]["release"])

\* boundVersionFor: the highest version that declares a trigger, or none.
boundVersionFor(n, t) ==
    {v \in versions[n] : t \in v.triggers /\ \A w \in versions[n] : t \in w.triggers => w.number <= v.number}

\* The claims of a registration, all of which must be won.
ClaimableUnread(n, ts) == \A t \in ts : claimedBy[t] # Gone
Claimable(n, ts) == \A t \in ts : claimedBy[t] \in {Nobody, n}
Claimed(n, ts) == [t \in Triggers |-> IF t \in ts THEN n ELSE claimedBy[t]]

\* release of the triggers that n claims among some.
Freed(n, ts) == [t \in Triggers |-> IF t \in ts /\ claimedBy[t] = n THEN Nobody ELSE claimedBy[t]]

NextNumber(n) == Max({0, hwm[n]} \cup _listVersions(n)) + 1
NextListed(n) == Max({0} \cup _listVersions(n)) + 1

\* schedule_setEnabled (a webhook, once disabled, stays so); schedule_delete and webhook_delete,
\* claimed or not.
SetEnabled(t) ==
    /\ claimedBy[t] # Gone /\ enabled' = IF t \in enabled THEN enabled \ {t} ELSE enabled \cup {t}
    /\ UNCHANGED <<versions, hwm, channels, claimedBy, request, run, crashes>>

DeleteTrigger(t) ==
    /\ claimedBy' = [claimedBy EXCEPT ![t] = Gone] /\ enabled' = enabled \ {t}
    /\ UNCHANGED <<versions, hwm, channels, request, run, crashes>>

-----------------------------------------------------------------------------
(* workflow_register *)

\* Up to the model book: the triggers exist.
RegisterBegin(q, n, ts) ==
    /\ request[q] = NoRequest /\ \A t \in ts : claimedBy[t] # Gone
    /\ request' = [request EXCEPT ![q] = [is |-> "register", name |-> n, triggers |-> ts]]
    /\ UNCHANGED <<versions, hwm, channels, claimedBy, enabled, run, crashes>>

BelowCeiling(n) == Cardinality(versions[n]) < MaxWorkflowVersions

InsertReused(n, s, ts) ==
    /\ BelowCeiling(n) /\ NextListed(n) <= MaxVersion[n]
    /\ versions' = [versions EXCEPT ![n] = @ \cup {[number |-> NextListed(n), script |-> s, triggers |-> ts]}]
    /\ hwm' = [hwm EXCEPT ![n] = NextListed(n)]

\* insertVersion.
Insert(n, s, ts) ==
    /\ BelowCeiling(n) /\ NextNumber(n) <= MaxVersion[n]
    /\ versions' = [versions EXCEPT ![n] = @ \cup {[number |-> NextNumber(n), script |-> s, triggers |-> ts]}]
    /\ hwm' = [hwm EXCEPT ![n] = NextNumber(n)]

\* From the model book on: the claims, then the version.
RegisterEnd(q) ==
    /\ request[q].is = "register"
    /\ LET n == request[q].name  ts == request[q].triggers IN
       /\ Claimable(n, ts) /\ \E s \in Scripts : Insert(n, s, ts)
       /\ claimedBy' = Claimed(n, ts)
    /\ request' = [request EXCEPT ![q] = NoRequest]
    /\ UNCHANGED <<channels, enabled, run, crashes>>

RefusedHolding(q) ==
    /\ request[q].is = "register" /\ request' = [request EXCEPT ![q] = NoRequest]
    /\ claimedBy' = Claimed(request[q].name, {t \in request[q].triggers : claimedBy[t] = Nobody})
    /\ UNCHANGED <<versions, hwm, channels, enabled, run, crashes>>

\* The model book, the ceiling or a claim refuses it; the claims won before are given back.
RegisterRefused(q) ==
    /\ request[q].is = "register" /\ request' = [request EXCEPT ![q] = NoRequest]
    /\ UNCHANGED <<versions, hwm, channels, claimedBy, enabled, run, crashes>>

-----------------------------------------------------------------------------
(* workflow_deregister, workflow_publish *)

\* The triggers that lose their claim with the workflow, or with versions of it.
ReleasedWith(n) == declaredTriggers(versions[n]) \cup {t \in Triggers : claimedBy[t] = n}
ReleasedWithout(n, rest) == declaredTriggers(versions[n]) \ declaredTriggers(rest)

RemoveAll(n) ==
    /\ versions' = [versions EXCEPT ![n] = {}]
    /\ channels' = [channels EXCEPT ![n] = Unpublished]

Deregister(n) ==
    /\ RemoveAll(n)
    /\ claimedBy' = Freed(n, ReleasedWith(n)) /\ enabled' = enabled \ ReleasedWith(n)
    /\ UNCHANGED <<hwm, request, run, crashes>>

PublishedNowhere(n, number) == FALSE
PublishedIn(n, number) == \E c \in Channels : channels[n][c] = number

\* deregisterVersion of a listed version: not while a run pins the version or a channel points to it, nor the last.
RemoveVersion(n, number) ==
    /\ Cardinality(versions[n]) > 1
    /\ \A r \in Runs : run[r].is \in {"live", "interrupted"} =>
                          ~(run[r].name = n /\ run[r].version = number)
    /\ ~PublishedIn(n, number)
    /\ versions' = [versions EXCEPT ![n] = @ \ Resolved(n, number)]

DeregisterVersion(n, number) ==
    /\ RemoveVersion(n, number)
    /\ LET ts == ReleasedWithout(n, versions[n] \ Resolved(n, number)) IN
       claimedBy' = Freed(n, ts) /\ enabled' = enabled \ ts
    /\ UNCHANGED <<hwm, channels, request, run, crashes>>

\* publish: a listed version, or 0 to clear the channel.
Publish(n, c, number) ==
    /\ versions[n] # {}
    /\ channels' = [channels EXCEPT ![n][c] = number]
    /\ UNCHANGED <<versions, hwm, claimedBy, enabled, request, run, crashes>>

-----------------------------------------------------------------------------
(* Runs *)

\* start, up to the model book, of a version that was resolved.
Begin(r, n, v) ==
    /\ run[r] = NoRun
    /\ run' = [run EXCEPT ![r] = [is |-> "starting", name |-> n, version |-> v.number,
                                  script |-> v.script]]
    /\ UNCHANGED <<versions, hwm, channels, claimedBy, enabled, request, crashes>>

\* run_start of any version: by number, or through a channel.
StartBegin(r, n) == \E v \in versions[n] : Begin(r, n, v)

\* A firing of the trigger starts the version that it is bound to, or the release.
Target(n, t) == IF t \in declaredTriggers(versions[n]) THEN boundVersionFor(n, t) ELSE Released(n)

Fire(r, t) ==
    /\ t \in enabled /\ claimedBy[t] \in Names
    /\ \E v \in Target(claimedBy[t], t) : Begin(r, claimedBy[t], v)

\* createRun writes the pinned version; the script is in memory.
StartEnd(r) ==
    /\ run[r].is = "starting" /\ run' = [run EXCEPT ![r].is = "live"]
    /\ UNCHANGED <<versions, hwm, channels, claimedBy, enabled, request, crashes>>

\* A start is refused, a live run is completed, fails or is stopped.
RunEnds(r) ==
    /\ run[r].is \in {"starting", "live"} /\ run' = [run EXCEPT ![r] = NoRun]
    /\ UNCHANGED <<versions, hwm, channels, claimedBy, enabled, request, crashes>>

\* _requireLive of an interrupted run: its pinned version or, which is recorded, the release
\* in its place.
Rehydrated(r) ==
    IF Resolved(run[r].name, run[r].version) # {} THEN Resolved(run[r].name, run[r].version)
                                                  ELSE Released(run[r].name)

Resume(r) ==
    /\ run[r].is = "interrupted" /\ Rehydrated(r) # {} /\ run' = [run EXCEPT ![r].is = "live"]
    /\ UNCHANGED <<versions, hwm, channels, claimedBy, enabled, request, crashes>>

Stop(r) ==
    /\ run[r].is = "interrupted" /\ Rehydrated(r) # {} /\ run' = [run EXCEPT ![r] = NoRun]
    /\ UNCHANGED <<versions, hwm, channels, claimedBy, enabled, request, crashes>>

-----------------------------------------------------------------------------
(* Crashes: what was waiting is lost, live runs are marked as interrupted. *)

Down ==
    /\ crashes < MaxCrashes /\ crashes' = crashes + 1
    /\ request' = [q \in Requests |-> NoRequest]
    /\ run' = [r \in Runs |-> CASE run[r].is = "starting" -> NoRun
                                [] run[r].is = "live" -> [run[r] EXCEPT !.is = "interrupted"]
                                [] OTHER -> run[r]]

Crash == Down /\ UNCHANGED <<versions, hwm, channels, claimedBy, enabled>>

\* After some of its claims, before the version.
CrashInRegister(q) ==
    /\ request[q].is = "register" /\ Claimable(request[q].name, request[q].triggers)
    /\ \E ts \in SUBSET request[q].triggers : claimedBy' = Claimed(request[q].name, ts)
    /\ Down /\ UNCHANGED <<versions, hwm, channels, enabled>>

\* After some of the releases; the last trigger released may still be enabled.
ReleasesCut(n, released) ==
    \E ts \in SUBSET released : \E u \in ts \cup {Nobody} :
       claimedBy' = Freed(n, ts) /\ enabled' = enabled \ (ts \ {u})

CrashInDeregister(n) ==
    /\ RemoveAll(n) /\ ReleasesCut(n, ReleasedWith(n))
    /\ Down /\ UNCHANGED hwm

CrashInDeregisterVersion(n, number) ==
    /\ RemoveVersion(n, number)
    /\ ReleasesCut(n, ReleasedWithout(n, versions[n] \ Resolved(n, number)))
    /\ Down /\ UNCHANGED <<hwm, channels>>

Next ==
    \/ \E t \in Triggers : SetEnabled(t) \/ DeleteTrigger(t)
    \/ \E q \in Requests, n \in Names, ts \in SUBSET Triggers : RegisterBegin(q, n, ts)
    \/ \E q \in Requests : RegisterEnd(q) \/ RegisterRefused(q) \/ CrashInRegister(q)
    \/ \E n \in Names : Deregister(n) \/ CrashInDeregister(n)
    \/ \E n \in Names : \E number \in _listVersions(n) :
          DeregisterVersion(n, number) \/ CrashInDeregisterVersion(n, number)
    \/ \E n \in Names, c \in Channels : \E number \in _listVersions(n) \cup {0} : Publish(n, c, number)
    \/ \E r \in Runs, n \in Names : StartBegin(r, n)
    \/ \E r \in Runs, t \in Triggers : Fire(r, t)
    \/ \E r \in Runs : StartEnd(r) \/ RunEnds(r) \/ Resume(r) \/ Stop(r)
    \/ Crash

Spec == Init /\ [][Next]_vars

-----------------------------------------------------------------------------
\* A run that is resumed from its pinned version runs the script it was started with: a version
\* number never stands for two scripts, whatever is deregistered, versions or whole names, and
\* registered anew while the run waits, runs or is interrupted.
ResumesOwnCode ==
    \A r \in Runs : run[r] # NoRun =>
       \A v \in Resolved(run[r].name, run[r].version) : v.script = run[r].script

\* A trigger is never declared by versions of two workflows, however handlers were cut short.
OneWorkflowPerTrigger ==
    \A m, n \in Names : m # n => declaredTriggers(versions[m]) \cap declaredTriggers(versions[n]) = {}

\* As long as no crash has cut a handler short, the claims of the trigger stores and the
\* declarations of the catalog agree: a refused registration keeps no claim, a deregistration
\* leaves none behind and takes none from a version that stays.
ClaimsDeclared ==
    crashes = 0 =>
       \A t \in Triggers, n \in Names :
          /\ claimedBy[t] = n => t \in declaredTriggers(versions[n])
          /\ t \in declaredTriggers(versions[n]) => claimedBy[t] \in {n, Gone}

\* A channel points to a version that exists: resolve's DANGLING_CHANNEL is never answered.
ChannelsResolve == \A n \in Names, c \in Channels : channels[n][c] \in _listVersions(n) \cup {0}

\* An interrupted run can be stopped, so that it can reach a terminal state at all
\* (the comment in _requireLive).
InterruptedCanStop == \A r \in Runs : run[r].is = "interrupted" => Rehydrated(r) # {}

\* A trigger only fires versions that declare it: versions of workflows that do not are fired
\* for legacy rows alone (the comment on declaredTriggers), and Init has none.
FiresDeclared == [][\A r \in Runs, t \in Triggers :
                       Fire(r, t) => t \in declaredTriggers(Resolved(run'[r].name, run'[r].version))]_vars

\* It holds of all that fires before the first crash.
FiresDeclaredUntilCrash == [][crashes = 0 => \A r \in Runs, t \in Triggers :
                       Fire(r, t) => t \in declaredTriggers(Resolved(run'[r].name, run'[r].version))]_vars

-----------------------------------------------------------------------------
(* The contract (Registry): one store, without claims, waits and halves of handlers. *)

held == [r \in Runs |->
    IF run[r] = NoRun THEN NoRun
    ELSE [is |-> "run", name |-> run[r].name, number |-> run[r].version, script |-> run[r].script]]
recorded == {r \in Runs : run[r].is \in {"live", "interrupted"}}

Contract == INSTANCE Registry WITH listed <- versions, highest <- hwm

\* workflow-catalog.ts, scheduler.ts, webhook-registry.ts and the runs' table are four databases that
\* no transaction joins.  All the same, what registrations, deregistrations, firings and crashes between
\* their statements do to versions, numbers, channels and pinned runs is what one store would do.
ActsAsRegistry == Contract!RSpec
=============================================================================
