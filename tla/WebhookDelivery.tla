---------------------------- MODULE WebhookDelivery ----------------------------
(***************************************************************************)
(* How POST /hooks/:id turns a delivery into a run (webhook-registry.ts).  *)
(* A delivery may carry an id; the table of deliveries makes a second      *)
(* delivery of the same id answer what the first one came to, instead of   *)
(* starting a second run.  A delivery awaits twice: the catalog, which     *)
(* resolves the claimed workflow, and RunManager.start().  Between the     *)
(* two other deliveries, calls and a crash may come.                       *)
(***************************************************************************)
EXTENDS Naturals, Sequences, FiniteSets

CONSTANTS
    Hooks,          \* ids of webhooks
    Ids,            \* ids a sender gives to its deliveries
    NoId,           \* ... when it gives none
    MaxRequests,    \* bound on deliveries
    MaxCrashes      \* bound on crashes of the engine

ASSUME WebhookAssumption ==
    /\ NoId \notin Ids
    /\ MaxRequests \in Nat /\ MaxCrashes \in Nat

VARIABLES
    up,         \* is the engine running?
    hook,       \* webhook -> the state of its row
    row,        \* delivery id -> its row in webhook_deliveries
    req,        \* every delivery so far, in order of arrival
    runs,       \* every run created for a delivery: the delivery's place in req, and whether
                \* start() began to execute it
    crashes

vars == <<up, hook, row, req, runs, crashes>>

\* disabled: whatever its claim is, for delivering to it is refused before the claim is read.
HookStates == {"new", "open", "claimed", "disabled", "deleted"}

\* httpStatus is NULL (of a release that stored no outcome), 0, 202, or 403 and 409; run is
\* the place in runs, 0 when the row names none.
Row == [status : {"none", "legacy", "pending", "refused"}, run : {0}]
           \cup [status : {"accepted"}, run : Nat \ {0}]
NoRow == [status |-> "none", run |-> 0]

\* The first two wait for the catalog and for start(); the others have been answered, except
\* one that the crash cut.
Phases == {"resolving", "starting"}
Refusals == {"unknown", "disabled", "unsigned", "unclaimed", "unresolved"}
Answers == Refusals \cup {"inProgress", "accepted", "replayed", "refused", "failed"}
Request == [hook : Hooks, id : Ids \cup {NoId}, answer : Phases \cup Answers \cup {"cut"}, run : Nat]

Created == [by : 1..Len(req), begun : BOOLEAN]

TypeOK ==
    /\ up \in BOOLEAN
    /\ hook \in [Hooks -> HookStates]
    /\ row \in [Ids -> Row]
    /\ req \in Seq(Request)
    /\ runs \in Seq(Created)
    /\ crashes \in Nat

Init ==
    /\ up = TRUE
    /\ hook = [h \in Hooks |-> "new"]
    /\ row \in [Ids -> {NoRow, [status |-> "legacy", run |-> 0]}]
    /\ req = <<>> /\ runs = <<>>
    /\ crashes = 0

-----------------------------------------------------------------------------
(* The webhooks themselves.                                                *)

SetHook(h, from, to) ==
    /\ up /\ hook[h] \in from
    /\ hook' = [hook EXCEPT ![h] = to]
    /\ UNCHANGED <<up, row, req, runs, crashes>>

Create(h) == \E on \in BOOLEAN : SetHook(h, {"new"}, IF on THEN "open" ELSE "disabled")
Claim(h) == SetHook(h, {"open"}, "claimed")         \* workflow_register
Release(h) == SetHook(h, {"claimed"}, "open")       \* ... whose version was not inserted
Deregister(h) == SetHook(h, {"claimed"}, "disabled")
Delete(h) == SetHook(h, {"open", "claimed", "disabled"}, "deleted")

-----------------------------------------------------------------------------
(* A delivery.                                                             *)

\* Mutant: whatever row there is, the delivery is a replay of an accepted one.
ReplayedAnyway(d) == [answer |-> "replayed", run |-> row[d].run]

\* _replayFromRow
Replay(d) ==
    [answer |-> CASE row[d].status = "pending" -> "inProgress"
                  [] row[d].status = "refused" -> "refused"
                  [] OTHER -> "replayed",
     run |-> row[d].run]

Known(d) == d \in Ids /\ row[d].status # "none"

\* deliver, up to the call of the catalog.
First(h, d, signed) ==
    IF hook[h] \in {"new", "deleted"} THEN [answer |-> "unknown", run |-> 0]
    ELSE IF hook[h] = "disabled" THEN [answer |-> "disabled", run |-> 0]
    ELSE IF ~signed THEN [answer |-> "unsigned", run |-> 0]
    ELSE IF Known(d) THEN Replay(d)
    ELSE IF hook[h] = "open" THEN [answer |-> "unclaimed", run |-> 0]
    ELSE [answer |-> "resolving", run |-> 0]

Receive(h, d) ==
    /\ up /\ Len(req) < MaxRequests
    /\ \E signed \in BOOLEAN : LET a == First(h, d, signed) IN
          req' = Append(req, [hook |-> h, id |-> d, answer |-> a.answer, run |-> a.run])
    /\ UNCHANGED <<up, hook, row, runs, crashes>>

Answer(n, a) == req' = [req EXCEPT ![n].answer = a.answer, ![n].run = a.run]

\* Mutant: the insert is ignored, and the delivery goes on to start() all the same.
ResolvedUnchecked(n, d) ==
    /\ row' = IF Known(d) THEN row ELSE [row EXCEPT ![d] = [status |-> "pending", run |-> 0]]
    /\ Answer(n, [answer |-> "starting", run |-> 0])

\* INSERT OR IGNORE: the row is there, or was and the delivery replays it.
ClaimedId(n, d) ==
    IF Known(d) THEN Answer(n, Replay(d)) /\ UNCHANGED row
    ELSE /\ row' = [row EXCEPT ![d] = [status |-> "pending", run |-> 0]]
         /\ Answer(n, [answer |-> "starting", run |-> 0])

\* The catalog has answered, up to the call of start().
Resolved(n) ==
    /\ up /\ req[n].answer = "resolving"
    /\ \/ Answer(n, [answer |-> "unresolved", run |-> 0]) /\ UNCHANGED row
       \/ req[n].id = NoId /\ Answer(n, [answer |-> "starting", run |-> 0]) /\ UNCHANGED row
       \/ req[n].id \in Ids /\ ClaimedId(n, req[n].id)
    /\ UNCHANGED <<up, hook, runs, crashes>>

\* Mutant: the row of a transient failure stays.
OutcomeKept(outcome) ==
    CASE outcome = "accepted" -> [status |-> "accepted", run |-> Len(runs) + 1]
      [] outcome = "refused" -> [status |-> "refused", run |-> 0]
      [] outcome = "failed" -> [status |-> "pending", run |-> 0]

\* What a row comes to: a transient failure leaves none.
Outcome(outcome) ==
    CASE outcome = "accepted" -> [status |-> "accepted", run |-> Len(runs) + 1]
      [] outcome = "refused" -> [status |-> "refused", run |-> 0]
      [] outcome = "failed" -> NoRow

\* Mutant: the script is executed before the row turns running, which may throw.
LaunchedFirst(n, outcome) ==
    CASE outcome = "accepted" -> {Append(runs, [by |-> n, begun |-> TRUE])}
      [] outcome = "refused" -> {runs}
      [] outcome = "failed" -> {runs} \cup {Append(runs, [by |-> n, begun |-> b]) : b \in BOOLEAN}

\* The runs after start().  What is permanent is thrown before createRun; the rest may be thrown
\* before it or after it, when the workspace is seeded or the row turns running.  A run that is
\* left behind so is not executed.
Leaves(n, outcome) ==
    CASE outcome = "accepted" -> {Append(runs, [by |-> n, begun |-> TRUE])}
      [] outcome = "refused" -> {runs}
      [] outcome = "failed" -> {runs, Append(runs, [by |-> n, begun |-> FALSE])}

\* start() answers with a run, or throws; admissionErrorToOutcome tells what is permanent.
Started(n, outcome) ==
    /\ up /\ req[n].answer = "starting"
    /\ runs' \in Leaves(n, outcome)
    /\ Answer(n, [answer |-> outcome, run |-> IF outcome = "accepted" THEN Len(runs) + 1 ELSE 0])
    /\ row' = IF req[n].id \in Ids THEN [row EXCEPT ![req[n].id] = Outcome(outcome)] ELSE row
    /\ UNCHANGED <<up, hook, crashes>>

-----------------------------------------------------------------------------
\* The engine dies.  From createRun to the row nothing else runs, but files and a repository
\* are made: at most one delivery has a run that its row does not tell of.
Crash ==
    /\ up /\ crashes < MaxCrashes
    /\ crashes' = crashes + 1 /\ up' = FALSE
    /\ \/ UNCHANGED runs
       \/ \E n \in DOMAIN req, begun \in BOOLEAN :
             req[n].answer = "starting" /\ runs' = Append(runs, [by |-> n, begun |-> begun])
    /\ req' = [n \in DOMAIN req |->
           IF req[n].answer \in Phases THEN [req[n] EXCEPT !.answer = "cut"] ELSE req[n]]
    /\ UNCHANGED <<hook, row>>

\* Mutant: nothing is cleared.
RowsKept == row

\* The constructor deletes the rows of deliveries that were in progress.
RowsAtBoot == [d \in Ids |-> IF row[d].status = "pending" THEN NoRow ELSE row[d]]

Boot ==
    /\ ~up
    /\ up' = TRUE
    /\ row' = RowsAtBoot
    /\ UNCHANGED <<hook, req, runs, crashes>>

-----------------------------------------------------------------------------
StartAnswers(n) == \E o \in {"accepted", "refused", "failed"} : Started(n, o)

Next ==
    \/ \E h \in Hooks :
          \/ Create(h) \/ Claim(h) \/ Release(h) \/ Deregister(h) \/ Delete(h)
          \/ \E d \in Ids \cup {NoId} : Receive(h, d)
    \/ \E n \in DOMAIN req : Resolved(n) \/ StartAnswers(n)
    \/ Crash \/ Boot

Spec == Init /\ [][Next]_vars

\* start() answers, and the engine is started again.
Fairness ==
    /\ \A n \in 1..MaxRequests : WF_vars(n \in DOMAIN req /\ StartAnswers(n))
    /\ WF_vars(Boot)

FairSpec == Spec /\ Fairness

-----------------------------------------------------------------------------
(* Properties.                                                             *)

Accepts(n) == req[n].answer \in {"accepted", "replayed"}

\* _replayFromRow, "replays the ORIGINAL outcome": every delivery of one id that is told it
\* was accepted is told of the same run, and none is told so when another was told that the
\* id is refused for good; through any race, and across crashes.
AnswersAgree ==
    \A m, n \in DOMAIN req : req[m].id = req[n].id /\ req[m].id \in Ids =>
        /\ Accepts(m) /\ Accepts(n) => req[m].run = req[n].run
        /\ ~(Accepts(m) /\ req[n].answer = "refused")

Begun(d) == {i \in DOMAIN runs : runs[i].begun /\ req[runs[i].by].id = d}

\* webhook-registry.ts deliver, "Any failure starts NO run", of the rows of runs: a second run is
\* never created for an id.
OneRunPerId ==
    \A i, j \in DOMAIN runs :
        req[runs[i].by].id = req[runs[j].by].id /\ req[runs[i].by].id \in Ids => i = j

\* DEPLOY.md, of deliveries that come again while the first is handled: an accepted delivery
\* is exactly once; start() never executes two runs for one id.
OneBegins == \A d \in Ids : Cardinality(Begun(d)) <= 1

\* Until the engine crashes, the run that start() executes for an id is the one the row of the id
\* names and every retry is told of, so that there is one at most, whatever deliveries race and
\* however many have failed before and left runs that were not executed.
BegunOnceUntilCrash == crashes = 0 => \A d \in Ids : \A i \in Begun(d) : row[d].run = i

\* "delivery already in progress" is never said of an id nobody is at work on: a row whose
\* outcome is open belongs to exactly one delivery that waits for start().
PendingIsOwned ==
    up => \A d \in Ids :
        Cardinality({n \in DOMAIN req : req[n].id = d /\ req[n].answer = "starting"})
            = IF row[d].status = "pending" THEN 1 ELSE 0

\* webhook-registry.ts, of a row stranded by a crash: no id stays in progress for ever.
PendingSettles == \A d \in Ids : row[d].status = "pending" ~> row[d].status # "pending"

-----------------------------------------------------------------------------
(* The contract (Verdicts): what an id has come to, and what was said of it. *)

Tells(n) == Accepts(n) \/ req[n].answer = "refused"
Verdict(n) ==
    IF Accepts(n) THEN [said |-> "accepted", run |-> req[n].run] ELSE [said |-> "refused", run |-> 0]

fate == [d \in Ids |->
    CASE row[d].status \in {"accepted", "legacy"} -> [said |-> "accepted", run |-> row[d].run]
      [] row[d].status = "refused" -> [said |-> "refused", run |-> 0]
      [] OTHER -> [said |-> "open", run |-> 0]]
told == [d \in Ids |-> {Verdict(n) : n \in {m \in DOMAIN req : req[m].id = d /\ Tells(m)}}]

Contract == INSTANCE Verdicts WITH Runs <- Nat \ {0}

\* webhook-registry.ts deliver and _replayFromRow: a verdict some sender was told is never taken back or
\* forgotten, nor is its run another id's, whatever comes between the two awaits of a delivery.
VerdictsStand == Contract!VSpec

=============================================================================
