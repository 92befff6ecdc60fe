------------------------- MODULE ScheduleFiringProofs -------------------------
(***************************************************************************)
(* A cron schedule fires at most once for an instant, a one-shot at most   *)
(* once for every time it was enabled, and what became of a firing is on   *)
(* its row, for any expression, any number of schedules and any bounds.    *)
(* The invariant says where the clock, the rows and the firings stand to   *)
(* one another: whatever has fired is not later than the clock, and        *)
(* earlier than what is next.                                              *)
(***************************************************************************)
EXTENDS ScheduleFiring, TLAPS, WellFoundedInduction, SequenceTheorems, FiniteSetTheorems

\* Every firing of a cron schedule is past, and before the row's next instant.
FiredBeforeNext ==
    \A n \in DOMAIN firings : firings[n].id \in Crons =>
        /\ firings[n].due <= now
        /\ Exists(firings[n].id) => firings[n].due < row[firings[n].id].nextFire

\* A row that may fire, or has fired, was armed: its id is not given out again.
FiredWasArmed ==
    /\ \A s \in Schedules : row[s].enabled => arms[s] > 0
    /\ \A n \in DOMAIN firings : arms[firings[n].id] > 0

IInv == TypeOK /\ FiredBeforeNext /\ FiredWasArmed /\ OneFiringPerInstant

-----------------------------------------------------------------------------
\* Of a nonempty set of instants, Least is the least.
LEMMA LeastIsLeast ==
    ASSUME NEW T \in SUBSET Nat, T # {}
    PROVE  Least(T) \in T /\ \A u \in T : Least(T) <= u
<1> DEFINE R == OpToRel(<, Nat)
<1>1. IsWellFoundedOn(R, Nat)
  BY NatLessThanWellFounded
<1>2. PICK x \in T : \A y \in T : <<y, x>> \notin R
  <2> HIDE DEF R
  <2> QED BY <1>1, WFMin
<1>3. \A u \in T : x <= u
  <2> SUFFICES ASSUME NEW u \in T PROVE x <= u
    OBVIOUS
  <2>1. ~(u < x)
    BY <1>2 DEF OpToRel
  <2> QED BY <2>1
<1> QED BY <1>3 DEF Least

\* The two ways computeNextFire is called give an instant in time, after the one asked for,
\* or none.
LEMMA NextInstant ==
    ASSUME NEW t \in Nat
    PROVE  /\ After(t) # Never => After(t) \in Time /\ After(t) > t
           /\ From(t) # Never => From(t) \in Time /\ From(t) >= t
<1> USE ScheduleAssumption DEF Time, Never
<1>1. ASSUME After(t) # Never PROVE After(t) \in {i \in Instants : i > t}
  <2>1. {i \in Instants : i > t} # {}
    BY <1>1 DEF After, Least
  <2> QED BY <2>1, LeastIsLeast DEF After
<1>2. ASSUME From(t) # Never PROVE From(t) \in {i \in Instants : i >= t}
  <2>1. {i \in Instants : i >= t} # {}
    BY <1>2 DEF From, Least
  <2> QED BY <2>1, LeastIsLeast DEF From
<1> QED BY <1>1, <1>2

\* A row that exists has the fields of a row.
LEMMA RowFields ==
    ASSUME TypeOK, NEW s \in Schedules, Exists(s)
    PROVE  row[s] \in Row
BY DEF TypeOK, Exists

\* The firings are records, numbered from one.
LEMMA FiringFields ==
    ASSUME TypeOK
    PROVE  /\ Len(firings) \in Nat /\ DOMAIN firings = 1..Len(firings)
           /\ \A n \in DOMAIN firings :
                 /\ n \in Nat /\ firings[n] \in Firing
                 /\ firings[n].id \in Schedules /\ firings[n].due \in Nat
<1>1. firings \in Seq(Firing)
  BY DEF TypeOK
<1>2. /\ Len(firings) \in Nat /\ DOMAIN firings = 1..Len(firings)
      /\ firings \in [1..Len(firings) -> Firing]
  BY <1>1, LenProperties
<1> QED BY <1>2 DEF Firing

LEMMA InitInvariant == Init => IInv
<1> SUFFICES ASSUME Init PROVE IInv
  OBVIOUS
<1>1. /\ now = 0 /\ up = TRUE /\ firings = <<>> /\ crashes = 0
      /\ arms = [s \in Schedules |-> IF row[s].enabled THEN 1 ELSE 0]
      /\ row \in [Schedules -> {NoRow} \cup
                     {NewRow(on, "legacy", at) : on \in {b \in BOOLEAN : b => MaxArms > 0}, at \in Time}]
  BY DEF Init
<1>2. TypeOK
  <2>1. \A on \in BOOLEAN, at \in Time : NewRow(on, "legacy", at) \in Row
    BY DEF NewRow, Row
  <2>2. row \in [Schedules -> Row \cup {NoRow}]
    BY <1>1, <2>1
  <2> QED BY <1>1, <2>2 DEF TypeOK
<1>3. FiredBeforeNext /\ FiredWasArmed /\ OneFiringPerInstant
  BY <1>1 DEF FiredBeforeNext, FiredWasArmed, OneFiringPerInstant
<1> QED BY <1>2, <1>3 DEF IInv

-----------------------------------------------------------------------------
(* Steps that dispatch nothing and leave the firings' ids and instants.    *)

\* A step that keeps every cron row's next instant, or moves it past the clock, that keeps
\* the clock or moves it on, and does not rename a firing, keeps the invariant.
LEMMA Framed ==
    ASSUME IInv, TypeOK', now' >= now,
           DOMAIN firings' = DOMAIN firings,
           \A n \in DOMAIN firings : /\ firings'[n].id = firings[n].id
                                     /\ firings'[n].due = firings[n].due,
           \A s \in Crons : Exists(s)' =>
               \/ Exists(s) /\ row'[s].nextFire = row[s].nextFire
               \/ Exists(s) /\ row'[s].nextFire > now
               \/ arms[s] = 0,
           \A s \in Schedules : /\ arms'[s] >= arms[s]
                                /\ row'[s].enabled => row[s].enabled \/ arms'[s] > 0
    PROVE  IInv'
<1>1. \A n \in DOMAIN firings : /\ firings[n].id \in Schedules /\ firings[n].due \in Nat
                                /\ n \in Nat
  BY FiringFields DEF IInv
<1>2. \A s \in Schedules : arms[s] \in Nat /\ arms'[s] \in Nat
  BY DEF IInv, TypeOK
<1>3. now \in Nat /\ now' \in Nat
  BY DEF IInv, TypeOK
<1>4. FiredWasArmed'
  BY <1>1, <1>2 DEF IInv, FiredWasArmed
<1>5. OneFiringPerInstant'
  BY DEF IInv, OneFiringPerInstant
<1>6. FiredBeforeNext'
  <2> SUFFICES ASSUME NEW n \in DOMAIN firings, firings[n].id \in Crons
               PROVE  /\ firings[n].due <= now'
                      /\ Exists(firings[n].id)' => firings[n].due < row'[firings[n].id].nextFire
    BY DEF FiredBeforeNext
  <2>1. firings[n].due <= now
    BY DEF IInv, FiredBeforeNext
  <2>2. ASSUME Exists(firings[n].id)' PROVE firings[n].due < row'[firings[n].id].nextFire
    <3> DEFINE s == firings[n].id
    <3>1. arms[s] > 0
      BY DEF IInv, FiredWasArmed
    <3>2. Exists(s) /\ (row'[s].nextFire = row[s].nextFire \/ row'[s].nextFire > now)
      BY <1>2, <2>2, <3>1, <1>1
    <3>3. Exists(s) => row[s].nextFire \in Nat /\ row'[s].nextFire \in Nat
      <4>1. Exists(s) => row[s] \in Row /\ row'[s] \in Row
        BY <1>1, <2>2 DEF IInv, TypeOK, Exists
      <4> QED BY <4>1, ScheduleAssumption DEF Row, Time
    <3>4. firings[n].due < row[s].nextFire
      BY <3>2 DEF IInv, FiredBeforeNext
    <3> QED BY <1>1, <1>3, <2>1, <3>2, <3>3, <3>4
  <2> QED BY <1>1, <1>3, <2>1, <2>2
<1> QED BY <1>4, <1>5, <1>6 DEF IInv

-----------------------------------------------------------------------------
(* Type correctness.                                                       *)

\* What claimFiring, the writers of an outcome and the boot make of a row is a row.
LEMMA RowsMade ==
    ASSUME TypeOK, NEW s \in Schedules, Exists(s), NEW t \in Nat
    PROVE  /\ row[s] \in Row
           /\ ~Exhausted(s) => Consumed(s) \in Row
           /\ Rearmed(s, t) \in Row
<1>1. row[s] \in Row /\ now \in Nat
  BY RowFields DEF TypeOK
<1>2. BadCron \in Nat
  BY ScheduleAssumption DEF BadCron
<1>3. ~Exhausted(s) => Consumed(s) \in Row
  <2>1. CASE s \in Onces
    BY <1>1, <2>1 DEF Consumed, Row
  <2>2. CASE s \notin Onces
    <3>1. ~Exhausted(s) => After(now) \in Time
      BY <1>1, <2>2, NextInstant DEF Exhausted, Schedules
    <3> QED BY <1>1, <2>2, <3>1 DEF Consumed, Row
  <2> QED BY <2>1, <2>2
<1>4. Rearmed(s, t) \in Row
  <2>1. CASE From(t) = Never
    BY <1>1, <1>2, <2>1 DEF Rearmed, Row
  <2>2. CASE From(t) # Never
    <3>1. From(t) \in Time
      BY <2>2, NextInstant
    <3> QED BY <1>1, <2>2, <3>1 DEF Rearmed, Row
  <2> QED BY <2>1, <2>2
<1> QED BY <1>1, <1>3, <1>4

LEMMA RowMarked ==
    ASSUME TypeOK, NEW n \in DOMAIN firings, Exists(firings[n].id),
           NEW o \in {"fired", "failed", "refused"}
    PROVE  /\ Marked(n, o) \in Row
           /\ Marked(n, o).nextFire = row[firings[n].id].nextFire
           /\ Marked(n, o).enabled => row[firings[n].id].enabled
<1> DEFINE s == firings[n].id
           r == IF s \in Onces THEN [row[s] EXCEPT !.enabled = FALSE] ELSE row[s]
<1>1. row[s] \in Row /\ n \in Nat
  BY FiringFields, RowFields
<1>2. r \in Row /\ r.nextFire = row[s].nextFire /\ (r.enabled => row[s].enabled)
  BY <1>1 DEF Row
<1>3. Marked(n, o) = CASE o = "fired" -> [r EXCEPT !.lastRun = n, !.lastError = 0, !.lastRefusal = 0]
                       [] o = "failed" -> [r EXCEPT !.lastError = n]
                       [] o = "refused" -> [r EXCEPT !.lastRefusal = n]
  BY DEF Marked
<1> HIDE DEF r
<1>4. CASE o = "fired"
  <2>1. Marked(n, o) = [r EXCEPT !.lastRun = n, !.lastError = 0, !.lastRefusal = 0]
    BY <1>3, <1>4
  <2>2. Marked(n, o) \in Row
    <3>1. [r EXCEPT !.lastRun = n] \in Row
      BY <1>1, <1>2 DEF Row
    <3>2. \A x \in Row : [x EXCEPT !.lastError = 0] \in Row
      BY DEF Row
    <3>3. \A x \in Row : [x EXCEPT !.lastRefusal = 0] \in Row
      BY DEF Row
    <3>4. Marked(n, o) = [[[r EXCEPT !.lastRun = n] EXCEPT !.lastError = 0] EXCEPT !.lastRefusal = 0]
      BY <2>1
    <3> QED BY <3>1, <3>2, <3>3, <3>4
  <2>3. Marked(n, o).nextFire = r.nextFire /\ Marked(n, o).enabled = r.enabled
    BY <1>2, <2>1 DEF Row
  <2> QED BY <1>2, <2>2, <2>3
<1>5. CASE o = "failed"
  BY <1>1, <1>2, <1>3, <1>5 DEF Row
<1>6. CASE o = "refused"
  BY <1>1, <1>2, <1>3, <1>6 DEF Row
<1> QED BY <1>4, <1>5, <1>6

\* Of a step that changes the one row of s to r, with the firings as they were.
LEMMA RowChanged ==
    ASSUME TypeOK, NEW s \in Schedules, NEW r \in Row \cup {NoRow},
           row' = [row EXCEPT ![s] = r]
    PROVE  /\ row' \in [Schedules -> Row \cup {NoRow}]
           /\ row'[s] = r /\ Exists(s)' = (r # NoRow)
           /\ \A q \in Schedules : q # s => row'[q] = row[q] /\ Exists(q)' = Exists(q)
BY DEF TypeOK, Exists

-----------------------------------------------------------------------------
(* One lemma for each action.                                              *)

LEMMA CreateKeeps == ASSUME IInv, NEW s \in Schedules, CreateAny(s) PROVE IInv'
<1> USE DEF IInv
<1>1. PICK on \in BOOLEAN, at \in Time : Create(s, on, at)
  <2>1. PICK on \in BOOLEAN :
            \/ s \in Crons /\ Create(s, on, From(now))
            \/ s \in Onces /\ \E at \in Time : Create(s, on, at)
    BY DEF CreateAny
  <2>2. s \in Crons /\ Create(s, on, From(now)) => From(now) \in Time
    BY NextInstant DEF Create, TypeOK
  <2> QED BY <2>1, <2>2
<1> DEFINE r == NewRow(on, "none", at)
<1>2. r \in Row /\ row' = [row EXCEPT ![s] = r] /\ r.enabled = on
  BY <1>1 DEF Create, Row, NewRow
<1>3. /\ UNCHANGED <<now, up, firings, crashes>>
      /\ arms' = [arms EXCEPT ![s] = IF on THEN @ + 1 ELSE @] /\ arms[s] = 0
  BY <1>1 DEF Create, Armed
<1> HIDE DEF r
<1>4. TypeOK'
  <2>1. row' \in [Schedules -> Row \cup {NoRow}]
    BY <1>2, RowChanged
  <2>2. arms' \in [Schedules -> Nat]
    BY <1>3 DEF TypeOK
  <2> QED BY <1>3, <2>1, <2>2 DEF TypeOK
<1>5. \A q \in Crons : Exists(q)' =>
          \/ Exists(q) /\ row'[q].nextFire = row[q].nextFire
          \/ arms[q] = 0
  BY <1>2, <1>3, RowChanged DEF Schedules
<1>6. \A q \in Schedules : /\ arms'[q] >= arms[q]
                           /\ row'[q].enabled => row[q].enabled \/ arms'[q] > 0
  <2> SUFFICES ASSUME NEW q \in Schedules
               PROVE  /\ arms'[q] >= arms[q]
                      /\ row'[q].enabled => row[q].enabled \/ arms'[q] > 0
    OBVIOUS
  <2>1. arms[q] \in Nat
    BY DEF TypeOK
  <2>2. CASE q # s
    BY <1>2, <1>3, <2>1, <2>2, RowChanged DEF TypeOK
  <2>3. CASE q = s
    <3>1. row'[s].enabled = on
      BY <1>2, RowChanged
    <3>2. arms'[s] = IF on THEN 1 ELSE 0
      BY <1>3 DEF TypeOK
    <3> QED BY <1>3, <2>1, <2>3, <3>1, <3>2
  <2> QED BY <2>2, <2>3
<1> HIDE DEF IInv
<1>7. now' >= now
  BY <1>3 DEF IInv, TypeOK
<1> QED BY <1>3, <1>4, <1>5, <1>6, <1>7, Framed

LEMMA SetEnabledKeeps ==
    ASSUME IInv, NEW s \in Schedules, NEW on \in BOOLEAN, SetEnabled(s, on) PROVE IInv'
<1>1. /\ UNCHANGED <<now, up, firings, crashes>> /\ Exists(s)
      /\ arms' = [arms EXCEPT ![s] = IF on THEN @ + 1 ELSE @]
      /\ row' = [row EXCEPT ![s] = [row[s] EXCEPT !.enabled = on]]
  BY DEF SetEnabled, Armed
<1>2. TypeOK
  BY DEF IInv
<1> DEFINE r == [row[s] EXCEPT !.enabled = on]
<1>3. r \in Row /\ r.nextFire = row[s].nextFire /\ r.enabled = on
  BY <1>1, <1>2, RowFields DEF Row
<1> HIDE DEF r
<1>4. /\ row' \in [Schedules -> Row \cup {NoRow}] /\ row'[s] = r
      /\ \A q \in Schedules : q # s => row'[q] = row[q] /\ Exists(q)' = Exists(q)
  BY <1>1, <1>2, <1>3, RowChanged DEF r
<1>5. TypeOK'
  <2>1. arms' \in [Schedules -> Nat]
    BY <1>1, <1>2 DEF TypeOK
  <2> QED BY <1>1, <1>2, <1>4, <2>1 DEF TypeOK
<1>6. \A q \in Crons : Exists(q)' => Exists(q) /\ row'[q].nextFire = row[q].nextFire
  BY <1>1, <1>3, <1>4 DEF Schedules
<1>7. \A q \in Schedules : /\ arms'[q] >= arms[q]
                           /\ row'[q].enabled => row[q].enabled \/ arms'[q] > 0
  <2> SUFFICES ASSUME NEW q \in Schedules
               PROVE  /\ arms'[q] >= arms[q]
                      /\ row'[q].enabled => row[q].enabled \/ arms'[q] > 0
    OBVIOUS
  <2>1. arms[q] \in Nat
    BY <1>2 DEF TypeOK
  <2>2. CASE q # s
    BY <1>1, <1>2, <1>4, <2>1, <2>2 DEF TypeOK
  <2>3. CASE q = s
    <3>1. row'[s].enabled = on
      BY <1>3, <1>4
    <3>2. arms'[s] = IF on THEN arms[s] + 1 ELSE arms[s]
      BY <1>1, <1>2 DEF TypeOK
    <3> QED BY <2>1, <2>3, <3>1, <3>2
  <2> QED BY <2>2, <2>3
<1>8. now' >= now
  BY <1>1, <1>2 DEF TypeOK
<1> QED BY <1>1, <1>5, <1>6, <1>7, <1>8, Framed

\* A step that changes no row and arms nothing.
LEMMA SameRows ==
    ASSUME IInv, TypeOK', now' >= now, UNCHANGED <<row, arms>>,
           DOMAIN firings' = DOMAIN firings,
           \A n \in DOMAIN firings : /\ firings'[n].id = firings[n].id
                                     /\ firings'[n].due = firings[n].due
    PROVE  IInv'
<1>1. \A q \in Crons : Exists(q)' => Exists(q) /\ row'[q].nextFire = row[q].nextFire
  BY DEF Exists
<1>2. \A q \in Schedules : arms'[q] >= arms[q]
  BY DEF IInv, TypeOK
<1>3. \A q \in Schedules : row'[q].enabled => row[q].enabled \/ arms'[q] > 0
  OBVIOUS
<1> QED BY <1>1, <1>2, <1>3, Framed

\* A step that arms nothing, and changes at most one row, to one that is gone or that has
\* the same instant and is not enabled unless it was.
LEMMA OneRowKeeps ==
    ASSUME IInv, TypeOK', UNCHANGED <<now, arms>>,
           NEW s \in Schedules, NEW r \in Row \cup {NoRow},
           row' = [row EXCEPT ![s] = r], Exists(s),
           r # NoRow => r.nextFire = row[s].nextFire /\ (r.enabled => row[s].enabled),
           DOMAIN firings' = DOMAIN firings,
           \A n \in DOMAIN firings : /\ firings'[n].id = firings[n].id
                                     /\ firings'[n].due = firings[n].due
    PROVE  IInv'
<1>1. TypeOK
  BY DEF IInv
<1>2. /\ row'[s] = r /\ Exists(s)' = (r # NoRow)
      /\ \A q \in Schedules : q # s => row'[q] = row[q] /\ Exists(q)' = Exists(q)
  BY <1>1, RowChanged
<1>3. \A q \in Crons : Exists(q)' => Exists(q) /\ row'[q].nextFire = row[q].nextFire
  BY <1>2 DEF Schedules
<1>4. \A q \in Schedules : /\ arms'[q] >= arms[q]
                           /\ row'[q].enabled => row[q].enabled \/ arms'[q] > 0
  <2>1. \A q \in Schedules : arms[q] \in Nat /\ arms'[q] = arms[q]
    BY <1>1 DEF TypeOK
  <2>2. \A q \in Schedules : row'[q].enabled => row[q].enabled
    BY <1>2 DEF NoRow
  <2> QED BY <2>1, <2>2
<1>5. now' >= now
  BY <1>1 DEF TypeOK
<1> QED BY <1>3, <1>4, <1>5, Framed

LEMMA DeleteKeeps == ASSUME IInv, NEW s \in Schedules, Delete(s) PROVE IInv'
<1>1. /\ UNCHANGED <<now, up, firings, arms, crashes>> /\ Exists(s)
      /\ row' = [row EXCEPT ![s] = NoRow]
  BY DEF Delete
<1>2. TypeOK'
  BY <1>1, RowChanged DEF IInv, TypeOK
<1> QED BY <1>1, <1>2, OneRowKeeps

LEMMA ClaimKeeps ==
    ASSUME IInv, NEW s \in Schedules, Claim(s) \/ Release(s) \/ Deregister(s) PROVE IInv'
<1> DEFINE r == IF Claim(s) THEN [row[s] EXCEPT !.workflow = "claimed"]
                ELSE IF Release(s) THEN [row[s] EXCEPT !.workflow = "none"]
                ELSE [row[s] EXCEPT !.workflow = "none", !.enabled = FALSE]
<1>1. /\ UNCHANGED <<now, up, firings, arms, crashes>> /\ Exists(s)
      /\ row' = [row EXCEPT ![s] = r]
  BY DEF Claim, Release, Deregister
<1>2. TypeOK
  BY DEF IInv
<1>3. r \in Row /\ r.nextFire = row[s].nextFire /\ (r.enabled => row[s].enabled)
  <2>1. row[s] \in Row
    BY <1>1, <1>2, RowFields
  <2>2. CASE Claim(s)
    BY <2>1, <2>2 DEF Row
  <2>3. CASE ~Claim(s) /\ Release(s)
    BY <2>1, <2>3 DEF Row
  <2>4. CASE ~Claim(s) /\ ~Release(s)
    BY <2>1, <2>4 DEF Row
  <2> QED BY <2>2, <2>3, <2>4
<1> HIDE DEF r
<1>4. TypeOK'
  BY <1>1, <1>2, <1>3, RowChanged DEF TypeOK
<1> QED BY <1>1, <1>3, <1>4, OneRowKeeps

\* A step that answers firings, or loses them, renames none.
LEMMA Renamed ==
    ASSUME TypeOK, NEW N \in SUBSET (DOMAIN firings), NEW o \in Outcomes,
           firings' = [n \in DOMAIN firings |->
               IF n \in N THEN [firings[n] EXCEPT !.outcome = o] ELSE firings[n]]
    PROVE  /\ firings' \in Seq(Firing) /\ DOMAIN firings' = DOMAIN firings
           /\ \A n \in DOMAIN firings : /\ firings'[n].id = firings[n].id
                                         /\ firings'[n].due = firings[n].due
<1>1. /\ Len(firings) \in Nat /\ DOMAIN firings = 1..Len(firings)
      /\ \A n \in DOMAIN firings : firings[n] \in Firing
  BY FiringFields
<1>2. \A n \in DOMAIN firings :
         LET f == IF n \in N THEN [firings[n] EXCEPT !.outcome = o] ELSE firings[n] IN
         f \in Firing /\ f.id = firings[n].id /\ f.due = firings[n].due
  BY <1>1 DEF Firing
<1>3. firings' \in [1..Len(firings) -> Firing]
  BY <1>1, <1>2
<1> QED BY <1>1, <1>2, <1>3, SeqDef

LEMMA AnsweredKeeps ==
    ASSUME IInv, NEW n \in DOMAIN firings, Answered(n) PROVE IInv'
<1>1. PICK o \in {"fired", "failed", "refused"} : Mark(n, o)
  BY DEF Answered
<1>2. TypeOK /\ firings[n].id \in Schedules
  BY FiringFields DEF IInv
<1>3. UNCHANGED <<now, up, arms, crashes>>
  BY <1>1 DEF Mark
<1>4. /\ firings' \in Seq(Firing) /\ DOMAIN firings' = DOMAIN firings
      /\ \A m \in DOMAIN firings : /\ firings'[m].id = firings[m].id
                                    /\ firings'[m].due = firings[m].due
  <2>1. firings' = [m \in DOMAIN firings |->
            IF m \in {n} THEN [firings[m] EXCEPT !.outcome = o] ELSE firings[m]]
    <3>1. firings' = [firings EXCEPT ![n].outcome = o]
      BY <1>1 DEF Mark
    <3>2. firings \in [DOMAIN firings -> Firing]
      <4>1. firings \in [1..Len(firings) -> Firing]
        BY <1>2, LenProperties DEF TypeOK
      <4> QED BY <4>1
    <3> QED BY <3>1, <3>2
  <2> QED BY <1>2, <2>1, Renamed DEF Outcomes
<1>5. CASE Exists(firings[n].id)
  <2>1. row' = [row EXCEPT ![firings[n].id] = Marked(n, o)]
    BY <1>1, <1>5 DEF Mark
  <2>2. /\ Marked(n, o) \in Row
        /\ Marked(n, o).nextFire = row[firings[n].id].nextFire
        /\ Marked(n, o).enabled => row[firings[n].id].enabled
    BY <1>2, <1>5, RowMarked
  <2>3. TypeOK'
    BY <1>2, <1>3, <1>4, <2>1, <2>2, RowChanged DEF TypeOK
  <2> QED BY <1>2, <1>3, <1>4, <1>5, <2>1, <2>2, <2>3, OneRowKeeps
<1>6. CASE ~Exists(firings[n].id)
  <2>1. UNCHANGED row
    BY <1>1, <1>6 DEF Mark
  <2>2. TypeOK'
    BY <1>2, <1>3, <1>4, <2>1 DEF TypeOK
  <2>3. now' >= now /\ UNCHANGED <<row, arms>>
    BY <1>2, <1>3, <2>1 DEF TypeOK
  <2> QED BY <1>4, <2>2, <2>3, SameRows
<1> QED BY <1>5, <1>6

LEMMA AdvanceKeeps == ASSUME IInv, Advance PROVE IInv'
<1>1. TypeOK
  BY DEF IInv
<1>2. /\ UNCHANGED <<up, row, firings, arms, crashes>> /\ now' = now + 1
  BY DEF Advance
<1>3. TypeOK'
  BY <1>1, <1>2 DEF TypeOK
<1>4. now' >= now
  BY <1>1, <1>2 DEF TypeOK
<1> QED BY <1>1, <1>2, <1>3, <1>4, SameRows

LEMMA CrashKeeps == ASSUME IInv, Crash PROVE IInv'
<1>1. TypeOK
  BY DEF IInv
<1>2. /\ UNCHANGED <<now, row, arms>> /\ up' = FALSE /\ crashes' = crashes + 1
      /\ firings' = [n \in DOMAIN firings |->
             IF n \in {m \in DOMAIN firings : firings[m].outcome = "starting"}
             THEN [firings[n] EXCEPT !.outcome = "lost"] ELSE firings[n]]
  BY DEF Crash
<1>3. /\ firings' \in Seq(Firing) /\ DOMAIN firings' = DOMAIN firings
      /\ \A m \in DOMAIN firings : /\ firings'[m].id = firings[m].id
                                    /\ firings'[m].due = firings[m].due
  <2>1. {m \in DOMAIN firings : firings[m].outcome = "starting"} \in SUBSET DOMAIN firings
    OBVIOUS
  <2> QED BY <1>1, <1>2, <2>1, Renamed DEF Outcomes
<1>4. TypeOK'
  <2>1. UNCHANGED <<now, row, arms>> /\ up' = FALSE /\ crashes' = crashes + 1
    BY <1>2
  <2>2. up' \in BOOLEAN
    BY <2>1
  <2>3. crashes' \in Nat
    BY <1>1, <2>1 DEF TypeOK
  <2> QED BY <1>1, <1>3, <2>1, <2>2, <2>3 DEF TypeOK
<1>5. now' >= now
  BY <1>1, <1>2 DEF TypeOK
<1> QED BY <1>1, <1>2, <1>3, <1>4, <1>5, SameRows

\* After a boot the next instant is the one before the crash, or one from now on: later
\* than every instant that has fired.
LEMMA BootKeeps == ASSUME IInv, Boot PROVE IInv'
<1>1. TypeOK /\ now \in Nat
  BY DEF IInv, TypeOK
<1>2. /\ UNCHANGED <<firings, arms, crashes>> /\ up' = TRUE /\ now' = now + 1
      /\ row' = [s \in Schedules |-> Rearmed(s, now + 1)]
  BY DEF Boot
<1>3. ASSUME NEW s \in Schedules
      PROVE  /\ row'[s] \in Row \cup {NoRow}
             /\ Exists(s)' => Exists(s)
             /\ row'[s].enabled => row[s].enabled
             /\ \/ row'[s].nextFire = row[s].nextFire
                \/ row'[s].nextFire > now
  <2>1. row'[s] = Rearmed(s, now + 1)
    BY <1>2
  <2>2. CASE ~Exists(s)
    BY <2>1, <2>2 DEF Rearmed, Exists, NoRow
  <2>3. CASE Exists(s)
    <3>1. row[s] \in Row /\ row'[s] \in Row
      BY <1>1, <2>1, <2>3, RowsMade
    <3>2. From(now + 1) # Never => From(now + 1) \in Time /\ From(now + 1) >= now + 1
      BY <1>1, NextInstant
    <3>3. CASE row'[s] = row[s]
      BY <2>3, <3>1, <3>3
    <3>4. CASE row'[s] # row[s] /\ From(now + 1) = Never
      <4>1. row'[s] = [row[s] EXCEPT !.enabled = FALSE, !.lastError = BadCron]
        BY <2>1, <3>4 DEF Rearmed
      <4>2. row'[s].enabled = FALSE /\ row'[s].nextFire = row[s].nextFire
        BY <3>1, <4>1 DEF Row
      <4> QED BY <2>3, <3>1, <4>2
    <3>5. CASE row'[s] # row[s] /\ From(now + 1) # Never
      <4>1. row'[s] = [row[s] EXCEPT !.nextFire = From(now + 1)]
        BY <2>1, <3>5 DEF Rearmed
      <4>2. row'[s].nextFire = From(now + 1) /\ row'[s].enabled = row[s].enabled
        BY <3>1, <4>1 DEF Row
      <4>3. row'[s].nextFire > now
        BY <1>1, <3>2, <3>5, <4>2, ScheduleAssumption DEF Time
      <4> QED BY <2>3, <3>1, <4>2, <4>3
    <3> QED BY <3>3, <3>4, <3>5
  <2> QED BY <2>2, <2>3
<1>4. TypeOK' /\ now' >= now
  BY <1>1, <1>2, <1>3 DEF TypeOK
<1>5. \A s \in Schedules : /\ arms'[s] >= arms[s]
                           /\ row'[s].enabled => row[s].enabled \/ arms'[s] > 0
  BY <1>1, <1>2, <1>3 DEF TypeOK
<1> QED BY <1>2, <1>3, <1>4, <1>5, Framed DEF Schedules

\* Nothing is dispatched: the cron expression of a due row has run out.
LEMMA ExhaustedKeeps ==
    ASSUME IInv, NEW s \in Schedules, Exists(s),
           row' = [row EXCEPT ![s].enabled = FALSE, ![s].lastError = BadCron],
           UNCHANGED <<now, up, firings, arms, crashes>>
    PROVE  IInv'
<1> DEFINE r == [[row[s] EXCEPT !.enabled = FALSE] EXCEPT !.lastError = BadCron]
<1>1. TypeOK /\ row[s] \in Row /\ BadCron \in Nat
  BY RowFields, ScheduleAssumption DEF IInv, BadCron
<1>2. row' = [row EXCEPT ![s] = r]
  BY <1>1 DEF TypeOK
<1>3. r \in Row /\ r.nextFire = row[s].nextFire /\ r.enabled = FALSE
  BY <1>1 DEF Row
<1> HIDE DEF r
<1>4. TypeOK'
  BY <1>1, <1>2, <1>3, RowChanged DEF TypeOK
<1> QED BY <1>2, <1>3, <1>4, OneRowKeeps

\* What a dispatch leaves in the row: a row as enabled as before, whose next instant, for a
\* cron schedule, is past the clock.
LEMMA RowDispatched ==
    ASSUME TypeOK, NEW s \in Schedules, Exists(s), ~Exhausted(s), NEW n \in Nat,
           NEW r, r \in {Consumed(s), [Consumed(s) EXCEPT !.lastRefusal = n]}
    PROVE  /\ r \in Row /\ (r.enabled => row[s].enabled)
           /\ s \in Crons => r.nextFire > now
<1>1. Consumed(s) \in Row /\ row[s] \in Row /\ now \in Nat
  BY RowsMade DEF TypeOK
<1>2. Consumed(s).enabled => row[s].enabled
  BY <1>1 DEF Consumed, Row
<1>3. s \in Crons => Consumed(s).nextFire > now
  <2> SUFFICES ASSUME s \in Crons PROVE Consumed(s).nextFire > now
    OBVIOUS
  <2>1. After(now) > now
    BY <1>1, NextInstant DEF Exhausted
  <2>2. s \notin Onces
    BY ScheduleAssumption
  <2> QED BY <1>1, <2>1, <2>2 DEF Consumed, Row
<1>4. [Consumed(s) EXCEPT !.lastRefusal = n] \in Row
  BY <1>1 DEF Row
<1>5. /\ [Consumed(s) EXCEPT !.lastRefusal = n].enabled = Consumed(s).enabled
      /\ [Consumed(s) EXCEPT !.lastRefusal = n].nextFire = Consumed(s).nextFire
  BY <1>1 DEF Row
<1> QED BY <1>1, <1>2, <1>3, <1>4, <1>5

\* A due instant is fired and consumed in one step: it is not later than the clock, and the
\* row's next one is.
LEMMA DispatchKeeps ==
    ASSUME IInv, NEW s \in Schedules, Due(s), NEW r \in Row,
           r.enabled => row[s].enabled, s \in Crons => r.nextFire > now,
           NEW f \in Firing, f.id = s, f.due = row[s].nextFire,
           row' = [row EXCEPT ![s] = r], firings' = Append(firings, f),
           UNCHANGED <<now, up, arms, crashes>>
    PROVE  IInv'
<1> DEFINE k == Len(firings) + 1
<1>1. TypeOK /\ row[s] \in Row /\ now \in Nat
  BY RowFields DEF IInv, TypeOK, Due
<1>2. /\ Len(firings) \in Nat /\ DOMAIN firings = 1..Len(firings)
      /\ \A n \in DOMAIN firings :
            n \in Nat /\ firings[n].id \in Schedules /\ firings[n].due \in Nat
  BY <1>1, FiringFields
<1>3. /\ firings' \in Seq(Firing) /\ DOMAIN firings' = (DOMAIN firings) \cup {k}
      /\ firings'[k] = f /\ \A n \in DOMAIN firings : firings'[n] = firings[n]
  <2>1. /\ firings' \in Seq(Firing) /\ Len(firings') = k
        /\ firings'[k] = f /\ \A n \in 1..Len(firings) : firings'[n] = firings[n]
    BY <1>1, AppendProperties DEF TypeOK
  <2>2. DOMAIN firings' = 1..k
    BY <2>1, LenProperties
  <2> QED BY <1>2, <2>1, <2>2
<1>4. /\ row' \in [Schedules -> Row \cup {NoRow}] /\ row'[s] = r
      /\ \A q \in Schedules : q # s => row'[q] = row[q] /\ Exists(q)' = Exists(q)
  BY <1>1, RowChanged
<1>5. TypeOK'
  BY <1>1, <1>3, <1>4 DEF TypeOK
<1>6. f.due \in Nat /\ f.due <= now /\ r.nextFire \in Nat
  BY <1>1, ScheduleAssumption DEF Due, Firing, Row, Time
<1>7. FiredWasArmed'
  <2>1. \A q \in Schedules : row'[q].enabled => row[q].enabled
    BY <1>4
  <2>2. \A q \in Schedules : row[q].enabled => arms[q] > 0
    BY DEF IInv, FiredWasArmed
  <2>3. arms[s] > 0
    BY <2>2 DEF Due
  <2>4. \A n \in DOMAIN firings' : arms[firings'[n].id] > 0
    BY <1>3, <2>3 DEF IInv, FiredWasArmed
  <2> QED BY <2>1, <2>2, <2>4 DEF FiredWasArmed
<1>8. OneFiringPerInstant'
  <2> SUFFICES ASSUME NEW m \in DOMAIN firings', NEW n \in DOMAIN firings',
                      m < n, firings'[m].id = firings'[n].id, firings'[m].id \in Crons
               PROVE  firings'[m].due < firings'[n].due
    BY DEF OneFiringPerInstant
  <2>1. m \in DOMAIN firings
    BY <1>2, <1>3
  <2>2. CASE n \in DOMAIN firings
    BY <1>3, <2>1, <2>2 DEF IInv, OneFiringPerInstant
  <2>3. CASE n = k
    BY <1>3, <2>1, <2>3 DEF IInv, FiredBeforeNext, Due
  <2> QED BY <1>3, <2>2, <2>3
<1>9. FiredBeforeNext'
  <2> SUFFICES ASSUME NEW n \in DOMAIN firings', firings'[n].id \in Crons
               PROVE  /\ firings'[n].due <= now
                      /\ row'[firings'[n].id] # NoRow =>
                            firings'[n].due < row'[firings'[n].id].nextFire
    BY DEF FiredBeforeNext, Exists
  <2>1. firings'[n].due <= now /\ firings'[n].due \in Nat
    BY <1>2, <1>3, <1>6 DEF IInv, FiredBeforeNext
  <2>2. CASE firings'[n].id = s
    BY <1>1, <1>4, <1>6, <2>1, <2>2
  <2>3. CASE firings'[n].id # s
    <3>1. /\ n \in DOMAIN firings /\ firings'[n] = firings[n]
          /\ firings[n].id \in Schedules /\ row'[firings[n].id] = row[firings[n].id]
      BY <1>2, <1>3, <1>4, <2>3
    <3> QED BY <2>1, <3>1 DEF IInv, FiredBeforeNext, Exists
  <2> QED BY <2>1, <2>2, <2>3
<1> QED BY <1>5, <1>7, <1>8, <1>9 DEF IInv

LEMMA TickKeeps == ASSUME IInv, NEW s \in Schedules, Tick(s) PROVE IInv'
<1>1. Due(s) /\ Exists(s) /\ TypeOK /\ UNCHANGED <<now, up, arms, crashes>>
  BY DEF Tick, Due, IInv
<1>2. CASE Exhausted(s)
  <2>1. /\ row' = [row EXCEPT ![s].enabled = FALSE, ![s].lastError = BadCron]
        /\ UNCHANGED firings
    BY <1>2 DEF Tick
  <2> QED BY <1>1, <2>1, ExhaustedKeeps
<1>3. CASE ~Exhausted(s)
  <2> DEFINE f(o) == [id |-> s, due |-> row[s].nextFire, outcome |-> o]
             r(o) == IF o = "refused" THEN [Consumed(s) EXCEPT !.lastRefusal = Len(firings) + 1]
                     ELSE Consumed(s)
  <2>1. PICK o \in {"starting", "refused"} :
            firings' = Append(firings, f(o)) /\ row' = [row EXCEPT ![s] = r(o)]
    BY <1>3 DEF Tick
  <2>2. f(o) \in Firing /\ f(o).id = s /\ f(o).due = row[s].nextFire
    BY <1>1, RowFields, ScheduleAssumption DEF Row, Firing, Outcomes, Time
  <2>3. /\ r(o) \in Row /\ (r(o).enabled => row[s].enabled)
        /\ s \in Crons => r(o).nextFire > now
    <3>1. Len(firings) + 1 \in Nat
      BY <1>1, FiringFields
    <3> QED BY <1>1, <1>3, <3>1, RowDispatched
  <2> HIDE DEF f, r
  <2> QED BY <1>1, <2>1, <2>2, <2>3, DispatchKeeps
<1> QED BY <1>2, <1>3

LEMMA NextKeeps == ASSUME IInv, [Next]_vars PROVE IInv'
<1>1. CASE \E s \in Schedules : CreateAny(s)
  BY <1>1, CreateKeeps
<1>2. CASE \E s \in Schedules : Delete(s)
  BY <1>2, DeleteKeeps
<1>3. CASE \E s \in Schedules : Claim(s) \/ Release(s) \/ Deregister(s)
  BY <1>3, ClaimKeeps
<1>4. CASE \E s \in Schedules : Tick(s)
  BY <1>4, TickKeeps
<1>5. CASE \E s \in Schedules, on \in BOOLEAN : SetEnabled(s, on)
  BY <1>5, SetEnabledKeeps
<1>6. CASE \E n \in DOMAIN firings : Answered(n)
  BY <1>6, AnsweredKeeps
<1>7. CASE Advance \/ Crash \/ Boot
  BY <1>7, AdvanceKeeps, CrashKeeps, BootKeeps
<1>8. CASE UNCHANGED vars
  BY <1>8 DEF vars, IInv, TypeOK, FiredBeforeNext, FiredWasArmed, OneFiringPerInstant, Exists
<1> QED BY <1>1, <1>2, <1>3, <1>4, <1>5, <1>6, <1>7, <1>8 DEF Next

-----------------------------------------------------------------------------
LEMMA AlwaysInvariant == Spec => []IInv
<1>1. Init => IInv
  BY InitInvariant
<1>2. IInv /\ [Next]_vars => IInv'
  BY NextKeeps
<1> QED BY <1>1, <1>2, PTL DEF Spec

\* Every row, firing and counter keeps its shape, however calls, ticks, late outcomes and
\* boots interleave (scheduler.ts, the columns of a schedule).
THEOREM SchedulesTypeCorrect == Spec => []TypeOK
<1>1. IInv => TypeOK
  BY DEF IInv
<1> QED BY <1>1, AlwaysInvariant, PTL

\* A cron schedule never fires twice for one instant nor goes back to an earlier one
\* (scheduler.ts claimFiring: the instant is consumed before anything is started).
THEOREM NoInstantFiresTwice == Spec => []OneFiringPerInstant
<1>1. IInv => OneFiringPerInstant
  BY DEF IInv
<1> QED BY <1>1, AlwaysInvariant, PTL

-----------------------------------------------------------------------------
(* Outcomes on rows, and the firings of a one-shot                         *)

\* A row tells of an outcome of a firing of its own.
TellsTruth(s) ==
    LET r == row[s] IN
    /\ r.lastRun # 0 =>
          r.lastRun \in DOMAIN firings /\ firings[r.lastRun].id = s /\ firings[r.lastRun].outcome = "fired"
    /\ r.lastError \notin {0, BadCron} =>
          r.lastError \in DOMAIN firings /\ firings[r.lastError].id = s /\ firings[r.lastError].outcome = "failed"
    /\ r.lastRefusal # 0 =>
          r.lastRefusal \in DOMAIN firings /\ firings[r.lastRefusal].id = s /\ firings[r.lastRefusal].outcome = "refused"

\* The row, where there is one, tells of the firing or of a later run.
Told(n) ==
    LET r == row[firings[n].id] IN
    Exists(firings[n].id) =>
       /\ firings[n].outcome = "fired" => r.lastRun # 0
       /\ firings[n].outcome = "failed" => r.lastError # 0 \/ r.lastRun # 0
       /\ firings[n].outcome = "refused" => r.lastRefusal # 0 \/ r.lastRun # 0

OutcomesTold == (\A n \in DOMAIN firings : Told(n)) /\ \A s \in Schedules : TellsTruth(s)

LEMMA ToldIsOnRow == TypeOK /\ OutcomesTold => OutcomeOnRow
<1> SUFFICES ASSUME TypeOK, OutcomesTold PROVE OutcomeOnRow
  OBVIOUS
<1>1. \A n \in DOMAIN firings : Told(n)
  BY DEF OutcomesTold
<1>2. \A n \in DOMAIN firings : firings[n] \in Firing
  BY FiringFields
<1>3. ASSUME NEW s \in Schedules
      PROVE  LET r == row[s] IN
          /\ r.lastRun # 0 => firings[r.lastRun] \in [id : {s}, due : Nat, outcome : {"fired"}]
          /\ r.lastError \notin {0, BadCron} =>
                firings[r.lastError] \in [id : {s}, due : Nat, outcome : {"failed"}]
          /\ r.lastRefusal # 0 =>
                firings[r.lastRefusal] \in [id : {s}, due : Nat, outcome : {"refused"}]
  BY <1>2 DEF OutcomesTold, TellsTruth, Firing
<1> QED BY <1>1, <1>3 DEF OutcomeOnRow, Told

\* Calls, the clock and a boot: no firing changes, and a row keeps what it tells, but for the
\* error of an expression that has run out, goes, or comes.
RowsChange ==
    /\ firings' = firings
    /\ \A s \in Schedules :
          /\ arms'[s] >= arms[s]
          /\ row'[s].enabled => row[s].enabled \/ arms'[s] > arms[s]
          /\ \/ row'[s] = NoRow
             \/ /\ Exists(s) /\ row'[s].lastRun = row[s].lastRun /\ row'[s].lastRefusal = row[s].lastRefusal
                /\ row'[s].lastError \in {row[s].lastError, BadCron}
             \/ /\ arms[s] = 0 /\ row'[s].lastRun = 0 /\ row'[s].lastError = 0 /\ row'[s].lastRefusal = 0

LEMMA CreateChanges == ASSUME IInv, NEW s \in Schedules, CreateAny(s) PROVE RowsChange
<1>1. PICK on \in BOOLEAN : \E at \in Time : Create(s, on, at)
  <2>1. PICK on \in BOOLEAN :
            \/ s \in Crons /\ Create(s, on, From(now))
            \/ s \in Onces /\ \E at \in Time : Create(s, on, at)
    BY DEF CreateAny
  <2>2. s \in Crons /\ Create(s, on, From(now)) => From(now) \in Time
    BY NextInstant DEF Create, IInv, TypeOK
  <2> QED BY <2>1, <2>2
<1>2. PICK at \in Time : Create(s, on, at)
  BY <1>1
<1>3. /\ arms[s] = 0 /\ ~Exists(s) /\ row' = [row EXCEPT ![s] = NewRow(on, "none", at)] /\ firings' = firings
      /\ arms' = [arms EXCEPT ![s] = IF on THEN @ + 1 ELSE @]
  BY <1>2 DEF Create, Armed
<1>4. row \in [Schedules -> Row \cup {NoRow}] /\ arms \in [Schedules -> Nat]
  BY DEF IInv, TypeOK
<1>5. /\ row'[s] = NewRow(on, "none", at) /\ arms'[s] = (IF on THEN 1 ELSE 0)
      /\ \A q \in Schedules : q # s => row'[q] = row[q] /\ arms'[q] = arms[q]
  BY <1>3, <1>4
<1>6. /\ row'[s].lastRun = 0 /\ row'[s].lastError = 0 /\ row'[s].lastRefusal = 0
      /\ row'[s].enabled = on
  BY <1>5 DEF NewRow
<1>7. \A q \in Schedules : arms[q] \in Nat
  BY <1>4
<1> QED BY <1>3, <1>5, <1>6, <1>7 DEF RowsChange, Exists

\* One row is changed that was there, and goes or tells the same.
LEMMA OneRowChanges ==
    ASSUME TypeOK, NEW s \in Schedules, Exists(s), NEW r \in Row \cup {NoRow}, row' = [row EXCEPT ![s] = r],
           firings' = firings, \A q \in Schedules : arms'[q] >= arms[q],
           r.enabled => row[s].enabled \/ arms'[s] > arms[s],
           \/ r = NoRow
           \/ /\ r.lastRun = row[s].lastRun /\ r.lastRefusal = row[s].lastRefusal
              /\ r.lastError \in {row[s].lastError, BadCron}
    PROVE  RowsChange
<1>1. row'[s] = r /\ \A q \in Schedules : q # s => row'[q] = row[q]
  BY RowChanged
<1> QED BY <1>1 DEF RowsChange, Exists

LEMMA CallsChange ==
    ASSUME IInv, NEW s \in Schedules,
           \/ Delete(s) \/ Claim(s) \/ Release(s) \/ Deregister(s)
           \/ (\E on \in BOOLEAN : SetEnabled(s, on))
           \/ Tick(s) /\ Exhausted(s)
    PROVE  RowsChange
<1>1. TypeOK /\ row \in [Schedules -> Row \cup {NoRow}] /\ arms \in [Schedules -> Nat]
  BY DEF IInv, TypeOK
<1>2. Exists(s) /\ firings' = firings
  BY DEF Delete, Claim, Release, Deregister, SetEnabled, Tick, Due
<1>3. row[s] \in Row /\ BadCron \in Nat
  BY <1>1, <1>2, ScheduleAssumption DEF Exists, BadCron
<1>0. arms' = arms => \A q \in Schedules : arms'[q] >= arms[q]
  BY <1>1
<1>4. CASE Delete(s)
  <2>1. row' = [row EXCEPT ![s] = NoRow] /\ arms' = arms /\ NoRow.enabled = FALSE
    BY <1>4 DEF Delete, NoRow
  <2> QED BY <1>0, <1>1, <1>2, <2>1, OneRowChanges
<1>5. CASE Claim(s) \/ Release(s)
  <2>1. PICK w \in {"none", "claimed"} : row' = [row EXCEPT ![s].workflow = w] /\ arms' = arms
    BY <1>5 DEF Claim, Release
  <2> DEFINE r == [row[s] EXCEPT !.workflow = w]
  <2>2. r \in Row
    BY <1>3 DEF Row
  <2>3. /\ r.enabled = row[s].enabled /\ r.lastRun = row[s].lastRun /\ r.lastError = row[s].lastError
        /\ r.lastRefusal = row[s].lastRefusal /\ row' = [row EXCEPT ![s] = r]
    BY <1>1, <1>3, <2>1 DEF Row
  <2> HIDE DEF r
  <2> QED BY <1>0, <1>1, <1>2, <2>1, <2>2, <2>3, OneRowChanges
<1>6. CASE Deregister(s)
  <2> DEFINE r == [row[s] EXCEPT !.workflow = "none", !.enabled = FALSE]
  <2>1. r \in Row /\ arms' = arms
    BY <1>3, <1>6 DEF Row, Deregister
  <2>2. /\ r.enabled = FALSE /\ r.lastRun = row[s].lastRun /\ r.lastError = row[s].lastError
        /\ r.lastRefusal = row[s].lastRefusal /\ row' = [row EXCEPT ![s] = r]
    BY <1>1, <1>3, <1>6 DEF Row, Deregister
  <2> HIDE DEF r
  <2> QED BY <1>0, <1>1, <1>2, <2>1, <2>2, OneRowChanges
<1>7. ASSUME NEW on \in BOOLEAN, SetEnabled(s, on) PROVE RowsChange
  <2> DEFINE r == [row[s] EXCEPT !.enabled = on]
  <2>1. /\ arms' = [arms EXCEPT ![s] = IF on THEN @ + 1 ELSE @]
        /\ row' = [row EXCEPT ![s] = r]
    BY <1>7 DEF SetEnabled, Armed
  <2>2. r \in Row
    BY <1>3 DEF Row
  <2>3. /\ r.enabled = on /\ r.lastRun = row[s].lastRun /\ r.lastError = row[s].lastError
        /\ r.lastRefusal = row[s].lastRefusal
    BY <1>3 DEF Row
  <2>4. (\A q \in Schedules : arms'[q] >= arms[q]) /\ (on => arms'[s] > arms[s])
    BY <1>1, <2>1
  <2> HIDE DEF r
  <2> QED BY <1>1, <1>2, <2>1, <2>2, <2>3, <2>4, OneRowChanges
<1>8. CASE Tick(s) /\ Exhausted(s)
  <2> DEFINE r == [row[s] EXCEPT !.enabled = FALSE, !.lastError = BadCron]
  <2>1. row' = [row EXCEPT ![s] = r] /\ arms' = arms
    BY <1>1, <1>8 DEF Tick
  <2>2. r \in Row
    BY <1>3 DEF Row
  <2>3. r.enabled = FALSE /\ r.lastRun = row[s].lastRun /\ r.lastError = BadCron /\ r.lastRefusal = row[s].lastRefusal
    BY <1>3 DEF Row
  <2> HIDE DEF r
  <2> QED BY <1>0, <1>1, <1>2, <2>1, <2>2, <2>3, OneRowChanges
<1> QED BY <1>4, <1>5, <1>6, <1>7, <1>8

LEMMA ClocksChange == ASSUME IInv, Advance \/ Boot PROVE RowsChange
<1>1. arms' = arms /\ firings' = firings /\ arms \in [Schedules -> Nat] /\ now \in Nat
  BY DEF Advance, Boot, IInv, TypeOK
<1>2. CASE Advance
  BY <1>1, <1>2 DEF Advance, RowsChange, Exists
<1>3. CASE Boot
  <2>1. ASSUME NEW s \in Schedules
        PROVE  /\ row'[s].enabled => row[s].enabled
               /\ \/ row'[s] = NoRow
                  \/ /\ Exists(s) /\ row'[s].lastRun = row[s].lastRun /\ row'[s].lastRefusal = row[s].lastRefusal
                     /\ row'[s].lastError \in {row[s].lastError, BadCron}
    <3>1. row'[s] = Rearmed(s, now + 1)
      BY <1>3 DEF Boot
    <3>2. CASE ~Exists(s)
      BY <3>1, <3>2 DEF Rearmed, Exists, NoRow
    <3>3. CASE Exists(s)
      <4>1. row[s] \in Row /\ BadCron \in Nat
        BY <3>3, ScheduleAssumption DEF IInv, TypeOK, Exists, BadCron
      <4>2. CASE row'[s] = row[s]
        BY <3>3, <4>2
      <4>3. CASE row'[s] = [row[s] EXCEPT !.enabled = FALSE, !.lastError = BadCron]
        BY <3>3, <4>1, <4>3 DEF Row
      <4>4. CASE row'[s] = [row[s] EXCEPT !.nextFire = From(now + 1)]
        BY <3>3, <4>1, <4>4 DEF Row
      <4> QED BY <3>1, <4>2, <4>3, <4>4 DEF Rearmed
    <3> QED BY <3>2, <3>3
  <2> QED BY <1>1, <2>1 DEF RowsChange
<1> QED BY <1>2, <1>3

LEMMA ChangesKeepTold == ASSUME IInv, OutcomesTold, RowsChange PROVE OutcomesTold'
<1>1. BadCron # 0
  BY ScheduleAssumption DEF BadCron
<1>2. ASSUME NEW n \in DOMAIN firings' PROVE Told(n)'
  <2> DEFINE s == firings[n].id
  <2>1. n \in DOMAIN firings /\ firings'[n] = firings[n] /\ s \in Schedules /\ Told(n) /\ arms[s] > 0
    BY FiringFields DEF IInv, RowsChange, OutcomesTold, FiredWasArmed
  <2>2. \/ row'[s] = NoRow
        \/ /\ Exists(s) /\ row'[s].lastRun = row[s].lastRun /\ row'[s].lastRefusal = row[s].lastRefusal
           /\ row'[s].lastError \in {row[s].lastError, BadCron}
        \/ arms[s] = 0
    BY <2>1 DEF RowsChange
  <2> QED BY <1>1, <2>1, <2>2 DEF Told, Exists
<1>3. ASSUME NEW s \in Schedules PROVE TellsTruth(s)'
  <2>1. firings' = firings /\ TellsTruth(s)
    BY DEF RowsChange, OutcomesTold
  <2>2. \/ row'[s] = NoRow
        \/ /\ row'[s].lastRun = row[s].lastRun /\ row'[s].lastRefusal = row[s].lastRefusal
           /\ row'[s].lastError \in {row[s].lastError, BadCron}
        \/ row'[s].lastRun = 0 /\ row'[s].lastError = 0 /\ row'[s].lastRefusal = 0
    BY DEF RowsChange
  <2>3. NoRow.lastRun = 0 /\ NoRow.lastError = 0 /\ NoRow.lastRefusal = 0
    BY DEF NoRow
  <2> QED BY <2>1, <2>2, <2>3 DEF TellsTruth
<1> QED BY <1>2, <1>3 DEF OutcomesTold

-----------------------------------------------------------------------------
\* A dispatch: the new firing is on its way, or it was refused and its row says so.
LEMMA DispatchKeepsTold ==
    ASSUME IInv, OutcomesTold, NEW s \in Schedules, Tick(s), ~Exhausted(s)
    PROVE  OutcomesTold'
<1> DEFINE k == Len(firings) + 1
<1>1. TypeOK /\ Exists(s) /\ row[s] \in Row /\ Consumed(s) \in Row
  BY RowsMade DEF IInv, Tick, Due, TypeOK
<1>2. /\ Len(firings) \in Nat /\ DOMAIN firings = 1..Len(firings)
      /\ \A n \in DOMAIN firings : n \in Nat /\ n # k /\ firings[n] \in Firing /\ firings[n].id \in Schedules
  BY <1>1, FiringFields
<1>3. PICK o \in {"starting", "refused"} :
         /\ firings' = Append(firings, [id |-> s, due |-> row[s].nextFire, outcome |-> o])
         /\ row' = [row EXCEPT ![s] = IF o = "refused" THEN [Consumed(s) EXCEPT !.lastRefusal = k]
                                      ELSE Consumed(s)]
  BY DEF Tick
<1> DEFINE f == [id |-> s, due |-> row[s].nextFire, outcome |-> o]
           r == IF o = "refused" THEN [Consumed(s) EXCEPT !.lastRefusal = k] ELSE Consumed(s)
<1>4. f \in Firing /\ f.id = s /\ f.outcome = o
  BY <1>1, ScheduleAssumption DEF Row, Firing, Outcomes, Time
<1>5. /\ DOMAIN firings' = (DOMAIN firings) \cup {k}
      /\ firings'[k] = f /\ \A n \in DOMAIN firings : firings'[n] = firings[n]
  <2>1. firings' = Append(firings, f) /\ firings \in Seq(Firing)
    BY <1>1, <1>3 DEF TypeOK
  <2> HIDE DEF f
  <2>2. /\ firings' \in Seq(Firing) /\ Len(firings') = k
        /\ firings'[k] = f /\ \A n \in 1..Len(firings) : firings'[n] = firings[n]
    BY <1>4, <2>1, AppendProperties
  <2>3. DOMAIN firings' = 1..k
    BY <2>2, LenProperties
  <2> QED BY <1>2, <2>2, <2>3
<1>6. /\ Consumed(s).lastRun = row[s].lastRun /\ Consumed(s).lastError = row[s].lastError
      /\ Consumed(s).lastRefusal = row[s].lastRefusal
  BY <1>1 DEF Consumed, Row
<1>7. /\ r \in Row /\ r.lastRun = row[s].lastRun /\ r.lastError = row[s].lastError
      /\ r.lastRefusal = IF o = "refused" THEN k ELSE row[s].lastRefusal
  BY <1>1, <1>2, <1>6 DEF Row
<1> HIDE DEF f
<1>8. row' = [row EXCEPT ![s] = r]
  BY <1>3
<1> HIDE DEF r
<1>9. /\ row'[s] = r /\ \A q \in Schedules : q # s => row'[q] = row[q]
  BY <1>1, <1>7, <1>8, RowChanged
<1>10. k # 0 /\ k \in Nat
  BY <1>2
<1> HIDE DEF k
<1>11. ASSUME NEW n \in DOMAIN firings' PROVE Told(n)'
  <2>1. CASE n = k
    BY <1>4, <1>5, <1>7, <1>9, <1>10, <2>1 DEF Told
  <2>2. CASE n \in DOMAIN firings /\ firings[n].id = s
    BY <1>1, <1>5, <1>7, <1>9, <1>10, <2>2 DEF Told, OutcomesTold
  <2>3. CASE n \in DOMAIN firings /\ firings[n].id # s
    <3>1. firings'[n] = firings[n] /\ row'[firings[n].id] = row[firings[n].id] /\ Told(n)
      BY <1>2, <1>5, <1>9, <2>3 DEF OutcomesTold
    <3> QED BY <3>1 DEF Told, Exists
  <2> QED BY <1>5, <2>1, <2>2, <2>3
<1>12. ASSUME NEW q \in Schedules PROVE TellsTruth(q)'
  <2>1. TellsTruth(q)
    BY DEF OutcomesTold
  <2>2. CASE q # s
    <3>1. row'[q] = row[q]
      BY <1>9, <2>2
    <3> QED BY <1>5, <2>1, <3>1 DEF TellsTruth
  <2>3. CASE q = s
    BY <1>4, <1>5, <1>7, <1>9, <1>10, <2>1, <2>3 DEF TellsTruth
  <2> QED BY <2>2, <2>3
<1> QED BY <1>11, <1>12 DEF OutcomesTold

\* Firings that were on their way get an outcome.
LEMMA MarkKeepsTold ==
    ASSUME IInv, OutcomesTold, NEW n \in DOMAIN firings, NEW o \in {"fired", "failed", "refused"}, Mark(n, o)
    PROVE  OutcomesTold'
<1> DEFINE s == firings[n].id
<1>1. TypeOK /\ firings[n].outcome = "starting" /\ s \in Schedules /\ n \in Nat /\ n # 0
  <2>1. DOMAIN firings = 1..Len(firings)
    BY FiringFields DEF IInv
  <2> QED BY <2>1, FiringFields DEF IInv, Mark
<1>2. /\ DOMAIN firings' = DOMAIN firings
      /\ \A m \in DOMAIN firings : m # n => firings'[m] = firings[m]
      /\ firings'[n].id = s /\ firings'[n].outcome = o
  <2>1. firings' = [firings EXCEPT ![n].outcome = o] /\ firings[n] \in Firing
    BY <1>1, FiringFields DEF Mark
  <2> QED BY <2>1 DEF Firing
<1>3. \A m \in DOMAIN firings : firings[m].id \in Schedules /\ m \in Nat
  BY <1>1, FiringFields
<1>4. CASE ~Exists(s)
  <2>1. row' = row
    BY <1>4 DEF Mark
  <2>2. ASSUME NEW m \in DOMAIN firings' PROVE Told(m)'
    BY <1>2, <1>4, <2>1 DEF Told, Exists, OutcomesTold
  <2>3. ASSUME NEW q \in Schedules PROVE TellsTruth(q)'
    <3>1. TellsTruth(q)
      BY DEF OutcomesTold
    <3> QED BY <1>1, <1>2, <2>1, <3>1 DEF TellsTruth
  <2> QED BY <2>2, <2>3 DEF OutcomesTold
<1>5. CASE Exists(s)
  <2> DEFINE r == IF s \in Onces THEN [row[s] EXCEPT !.enabled = FALSE] ELSE row[s]
             new == Marked(n, o)
  <2>1. row[s] \in Row /\ r \in Row /\ new \in Row
    <3>1. row[s] \in Row
      BY <1>1, <1>5 DEF TypeOK, Exists
    <3>2. r \in Row
      BY <3>1 DEF Row
    <3> QED BY <1>1, <1>5, <3>1, <3>2, RowMarked
  <2>2. r.lastRun = row[s].lastRun /\ r.lastError = row[s].lastError /\ r.lastRefusal = row[s].lastRefusal
    BY <2>1 DEF Row
  <2>3. new = CASE o = "fired" -> [r EXCEPT !.lastRun = n, !.lastError = 0, !.lastRefusal = 0]
                [] o = "failed" -> [r EXCEPT !.lastError = n]
                [] o = "refused" -> [r EXCEPT !.lastRefusal = n]
    BY DEF Marked
  <2> HIDE DEF r
  <2>4. /\ o = "fired" => new.lastRun = n /\ new.lastError = 0 /\ new.lastRefusal = 0
        /\ o = "failed" => new.lastRun = row[s].lastRun /\ new.lastError = n /\ new.lastRefusal = row[s].lastRefusal
        /\ o = "refused" => new.lastRun = row[s].lastRun /\ new.lastError = row[s].lastError /\ new.lastRefusal = n
    BY <2>1, <2>2, <2>3 DEF Row
  <2>5. row' = [row EXCEPT ![s] = new]
    BY <1>5 DEF Mark
  <2> HIDE DEF new
  <2>6. /\ row'[s] = new /\ \A q \in Schedules : q # s => row'[q] = row[q]
    BY <1>1, <2>1, <2>5, RowChanged
  <2>7. ASSUME NEW m \in DOMAIN firings' PROVE Told(m)'
    <3>1. CASE m = n
      BY <1>1, <1>2, <2>4, <2>6, <3>1 DEF Told
    <3>2. CASE m # n /\ firings[m].id = s
      <4>1. firings'[m] = firings[m] /\ Told(m)
        BY <1>2, <3>2 DEF OutcomesTold
      <4> QED BY <1>1, <1>5, <2>4, <2>6, <3>2, <4>1 DEF Told
    <3>3. CASE m # n /\ firings[m].id # s
      <4>1. firings'[m] = firings[m] /\ Told(m) /\ row'[firings[m].id] = row[firings[m].id]
        BY <1>2, <1>3, <2>6, <3>3 DEF OutcomesTold
      <4> QED BY <4>1 DEF Told, Exists
    <3> QED BY <3>1, <3>2, <3>3
  <2>8. ASSUME NEW q \in Schedules PROVE TellsTruth(q)'
    <3>1. TellsTruth(q)
      BY DEF OutcomesTold
    <3>2. CASE q # s
      <4>1. row'[q] = row[q]
        BY <2>6, <3>2
      <4> QED BY <1>1, <1>2, <3>1, <4>1 DEF TellsTruth
    <3>3. CASE q = s
      BY <1>1, <1>2, <2>4, <2>6, <3>1, <3>3 DEF TellsTruth
    <3> QED BY <3>2, <3>3
  <2> QED BY <2>7, <2>8 DEF OutcomesTold
<1> QED BY <1>4, <1>5

LEMMA CrashKeepsTold == ASSUME IInv, OutcomesTold, Crash PROVE OutcomesTold'
<1>1. /\ row' = row /\ DOMAIN firings' = DOMAIN firings
      /\ \A n \in DOMAIN firings :
            /\ firings'[n].id = firings[n].id
            /\ \/ firings'[n].outcome = firings[n].outcome
               \/ firings[n].outcome = "starting" /\ firings'[n].outcome = "lost"
  <2>1. \A n \in DOMAIN firings : firings[n] \in Firing
    BY FiringFields DEF IInv
  <2> QED BY <2>1 DEF Crash, Firing
<1>2. ASSUME NEW n \in DOMAIN firings' PROVE Told(n)'
  BY <1>1 DEF Told, Exists, OutcomesTold
<1>3. ASSUME NEW q \in Schedules PROVE TellsTruth(q)'
  <2>1. TellsTruth(q)
    BY DEF OutcomesTold
  <2> QED BY <1>1, <2>1 DEF TellsTruth
<1> QED BY <1>2, <1>3 DEF OutcomesTold

LEMMA NextKeepsTold == ASSUME IInv, OutcomesTold, [Next]_vars PROVE OutcomesTold'
<1>1. CASE RowsChange
  BY <1>1, ChangesKeepTold
<1>2. ASSUME NEW s \in Schedules, Tick(s) PROVE OutcomesTold'
  BY <1>1, <1>2, DispatchKeepsTold, CallsChange
<1>3. ASSUME NEW n \in DOMAIN firings, Answered(n) PROVE OutcomesTold'
  BY <1>3, MarkKeepsTold DEF Answered
<1>4. CASE UNCHANGED vars
  BY <1>4 DEF vars, OutcomesTold, Told, TellsTruth, Exists
<1> QED BY <1>1, <1>2, <1>3, <1>4, CreateChanges, CallsChange, ClocksChange, CrashKeepsTold DEF Next

\* What became of a firing is on its row, or a later run cleared it, and a row tells of no
\* outcome that no firing of its own had (scheduler.ts markFired, markFailed, markRefused).
THEOREM OutcomesAreOnRows == Spec => []OutcomeOnRow
<1>1. Init => OutcomesTold
  <2> SUFFICES ASSUME Init PROVE OutcomesTold
    OBVIOUS
  <2>1. DOMAIN firings = {}
    BY DEF Init
  <2>2. ASSUME NEW s \in Schedules PROVE row[s].lastRun = 0 /\ row[s].lastError = 0 /\ row[s].lastRefusal = 0
    BY DEF Init, NewRow, NoRow
  <2> QED BY <2>1, <2>2 DEF OutcomesTold, TellsTruth
<1>2. IInv /\ OutcomesTold /\ [Next]_vars => OutcomesTold'
  BY NextKeepsTold
<1>3. IInv /\ OutcomesTold => OutcomeOnRow
  BY ToldIsOnRow DEF IInv
<1> QED BY <1>1, <1>2, <1>3, AlwaysInvariant, PTL DEF Spec

-----------------------------------------------------------------------------
\* One-shots: what has fired, and what may still fire, was armed for it.
Spent(s) == Cardinality(FiringsOf(s)) + (IF row[s].enabled THEN 1 ELSE 0) <= arms[s]

LEMMA FiringsFinite ==
    ASSUME TypeOK, NEW s
    PROVE  IsFiniteSet(FiringsOf(s)) /\ Cardinality(FiringsOf(s)) \in Nat
<1>1. IsFiniteSet(1..Len(firings)) /\ FiringsOf(s) \in SUBSET (1..Len(firings))
  BY FiringFields, FS_Interval DEF FiringsOf
<1>2. IsFiniteSet(FiringsOf(s))
  BY <1>1, FS_Subset
<1> QED BY <1>2, FS_CardinalityType

\* A step after which a schedule has the same firings, and was armed if it may newly fire.
LEMMA SameFiringsSpent ==
    ASSUME TypeOK, TypeOK', NEW s \in Schedules, Spent(s), FiringsOf(s)' = FiringsOf(s),
           arms'[s] >= arms[s], row'[s].enabled => row[s].enabled \/ arms'[s] > arms[s]
    PROVE  Spent(s)'
<1> DEFINE c == Cardinality(FiringsOf(s))
<1>1. c \in Nat /\ arms[s] \in Nat /\ arms'[s] \in Nat
  BY FiringsFinite DEF TypeOK
<1>2. Cardinality(FiringsOf(s)') = c
  OBVIOUS
<1>3. CASE row'[s].enabled
  <2>1. row[s].enabled => c + 1 <= arms[s]
    BY DEF Spent
  <2>2. c <= arms[s]
    BY <1>1 DEF Spent
  <2>3. c + 1 <= arms'[s]
    <3> HIDE DEF c
    <3> QED BY <1>1, <1>3, <2>1, <2>2
  <2> QED BY <1>2, <1>3, <2>3 DEF Spent
<1>4. CASE ~row'[s].enabled
  <2>1. c <= arms[s]
    BY <1>1 DEF Spent
  <2>2. c + 0 <= arms'[s]
    <3> HIDE DEF c
    <3> QED BY <1>1, <2>1
  <2> QED BY <1>2, <1>4, <2>2 DEF Spent
<1> QED BY <1>3, <1>4

\* The firing of a one-shot uses up what it was armed for.
LEMMA DispatchSpends ==
    ASSUME IInv, IInv', OnceFiresPerArm, NEW s \in Schedules, Tick(s), ~Exhausted(s)
    PROVE  OnceFiresPerArm'
<1> DEFINE k == Len(firings) + 1
<1>1. TypeOK /\ TypeOK' /\ Exists(s) /\ row[s] \in Row /\ row[s].enabled /\ arms' = arms
  BY RowsMade DEF IInv, Tick, Due, TypeOK
<1>2. /\ Len(firings) \in Nat /\ DOMAIN firings = 1..Len(firings)
      /\ \A n \in DOMAIN firings : n \in Nat /\ n # k
  BY <1>1, FiringFields
<1>3. PICK o \in {"starting", "refused"} :
         /\ firings' = Append(firings, [id |-> s, due |-> row[s].nextFire, outcome |-> o])
         /\ row' = [row EXCEPT ![s] = IF o = "refused" THEN [Consumed(s) EXCEPT !.lastRefusal = k]
                                      ELSE Consumed(s)]
  BY DEF Tick
<1> DEFINE f == [id |-> s, due |-> row[s].nextFire, outcome |-> o]
           r == IF o = "refused" THEN [Consumed(s) EXCEPT !.lastRefusal = k] ELSE Consumed(s)
<1>4. f \in Firing /\ f.id = s
  BY <1>1, ScheduleAssumption DEF Row, Firing, Outcomes, Time
<1>5. /\ DOMAIN firings' = (DOMAIN firings) \cup {k}
      /\ firings'[k] = f /\ \A n \in DOMAIN firings : firings'[n] = firings[n]
  <2>1. firings' = Append(firings, f) /\ firings \in Seq(Firing)
    BY <1>1, <1>3 DEF TypeOK
  <2> HIDE DEF f
  <2>2. /\ firings' \in Seq(Firing) /\ Len(firings') = k
        /\ firings'[k] = f /\ \A n \in 1..Len(firings) : firings'[n] = firings[n]
    BY <1>4, <2>1, AppendProperties
  <2>3. DOMAIN firings' = 1..k
    BY <2>2, LenProperties
  <2> QED BY <1>2, <2>2, <2>3
<1>6. Consumed(s) \in Row
  BY <1>1, RowsMade DEF IInv, Tick, Due
<1>7. s \in Onces => r.enabled = FALSE
  BY <1>1, <1>6 DEF Consumed, Row
<1>8. row'[s] = r /\ \A q \in Schedules : q # s => row'[q] = row[q]
  BY <1>1, <1>3 DEF TypeOK
<1> HIDE DEF f, r
<1>9. FiringsOf(s)' = FiringsOf(s) \cup {k} /\ k \notin FiringsOf(s)
  BY <1>2, <1>4, <1>5 DEF FiringsOf
<1>10. \A q \in Schedules : q # s => FiringsOf(q)' = FiringsOf(q)
  BY <1>2, <1>4, <1>5 DEF FiringsOf
<1> HIDE DEF k
<1>11. ASSUME NEW q \in Onces PROVE Spent(q)'
  <2>1. Spent(q) /\ q \in Schedules /\ arms[q] \in Nat
    BY <1>1 DEF OnceFiresPerArm, Spent, Schedules, TypeOK
  <2>2. CASE q # s
    <3>1. row'[q] = row[q] /\ arms'[q] >= arms[q] /\ FiringsOf(q)' = FiringsOf(q)
      BY <1>1, <1>8, <1>10, <2>1, <2>2
    <3> QED BY <1>1, <2>1, <3>1, SameFiringsSpent
  <2>3. CASE q = s
    <3> DEFINE c == Cardinality(FiringsOf(s))
               d == Cardinality(FiringsOf(s)')
    <3>1. c \in Nat /\ d = c + 1
      BY <1>1, <1>9, FiringsFinite, FS_AddElement
    <3>2. c + 1 <= arms[s]
      BY <1>1, <2>1, <2>3 DEF Spent
    <3>3. row'[s].enabled = FALSE /\ arms'[s] = arms[s]
      BY <1>1, <1>7, <1>8, <2>3
    <3> HIDE DEF c, d
    <3>4. d + 0 <= arms'[s] /\ d + 0 = d
      BY <2>1, <2>3, <3>1, <3>2, <3>3
    <3>5. d + (IF row'[s].enabled THEN 1 ELSE 0) <= arms'[s]
      BY <3>3, <3>4
    <3> QED BY <2>3, <3>5 DEF Spent, d
  <2> QED BY <2>2, <2>3
<1> QED BY <1>11 DEF OnceFiresPerArm, Spent

\* Every other step leaves each schedule its firings.
LEMMA OthersSpend ==
    ASSUME IInv, IInv', OnceFiresPerArm,
           \A s \in Schedules : /\ FiringsOf(s)' = FiringsOf(s) /\ arms'[s] >= arms[s]
                                /\ row'[s].enabled => row[s].enabled \/ arms'[s] > arms[s]
    PROVE  OnceFiresPerArm'
<1>1. ASSUME NEW s \in Onces PROVE Spent(s)'
  <2>1. Spent(s) /\ s \in Schedules /\ TypeOK /\ TypeOK'
    BY DEF OnceFiresPerArm, Spent, Schedules, IInv
  <2> QED BY <2>1, SameFiringsSpent
<1> QED BY <1>1 DEF OnceFiresPerArm, Spent

LEMMA MarkSpends ==
    ASSUME IInv, IInv', OnceFiresPerArm, NEW n \in DOMAIN firings, NEW o \in {"fired", "failed", "refused"},
           Mark(n, o)
    PROVE  OnceFiresPerArm'
<1>1. TypeOK /\ arms' = arms
  BY DEF IInv, Mark
<1>2. /\ DOMAIN firings' = DOMAIN firings
      /\ \A m \in DOMAIN firings : firings'[m].id = firings[m].id
  <2>1. firings' = [firings EXCEPT ![n].outcome = o] /\ \A m \in DOMAIN firings : firings[m] \in Firing
    BY <1>1, FiringFields DEF Mark
  <2> QED BY <2>1 DEF Firing
<1> DEFINE i == firings[n].id
           r == IF i \in Onces THEN [row[i] EXCEPT !.enabled = FALSE] ELSE row[i]
           new == Marked(n, o)
<1>3. ASSUME NEW s \in Schedules PROVE row'[s].enabled => row[s].enabled
  <2>1. CASE ~Exists(i)
    BY <2>1 DEF Mark
  <2>2. CASE Exists(i)
    <3>1. i \in Schedules /\ row[i] \in Row
      BY <1>1, <2>2, FiringFields DEF TypeOK, Exists
    <3>2. r \in Row /\ (r.enabled => row[i].enabled)
      BY <3>1 DEF Row
    <3>3. new = CASE o = "fired" -> [r EXCEPT !.lastRun = n, !.lastError = 0, !.lastRefusal = 0]
                  [] o = "failed" -> [r EXCEPT !.lastError = n]
                  [] o = "refused" -> [r EXCEPT !.lastRefusal = n]
      BY DEF Marked
    <3> HIDE DEF r
    <3>4. new.enabled = r.enabled
      BY <3>2, <3>3 DEF Row
    <3>5. row' = [row EXCEPT ![i] = new]
      BY <2>2 DEF Mark
    <3> HIDE DEF new
    <3>6. row'[i] = new /\ (s # i => row'[s] = row[s])
      BY <1>1, <3>1, <3>5 DEF TypeOK
    <3> QED BY <3>2, <3>4, <3>6
  <2> QED BY <2>1, <2>2
<1>4. \A s \in Schedules : FiringsOf(s)' = FiringsOf(s)
  BY <1>2 DEF FiringsOf
<1>5. \A s \in Schedules : arms'[s] >= arms[s]
  BY <1>1 DEF TypeOK
<1> QED BY <1>3, <1>4, <1>5, OthersSpend

LEMMA CrashSpends ==
    ASSUME IInv, IInv', OnceFiresPerArm, Crash PROVE OnceFiresPerArm'
<1>1. row' = row /\ arms' = arms /\ arms \in [Schedules -> Nat]
  BY DEF Crash, IInv, TypeOK
<1>2. DOMAIN firings' = DOMAIN firings /\ \A m \in DOMAIN firings : firings'[m].id = firings[m].id
  <2>1. \A m \in DOMAIN firings : firings[m] \in Firing
    BY FiringFields DEF IInv
  <2> QED BY <2>1 DEF Crash, Firing
<1>3. \A s \in Schedules : FiringsOf(s)' = FiringsOf(s) /\ arms'[s] >= arms[s]
  BY <1>1, <1>2 DEF FiringsOf
<1> QED BY <1>1, <1>3, OthersSpend

LEMMA NextSpends ==
    ASSUME IInv, IInv', OnceFiresPerArm, [Next]_vars PROVE OnceFiresPerArm'
<1>1. CASE RowsChange
  <2>1. \A s \in Schedules : FiringsOf(s)' = FiringsOf(s)
    BY <1>1 DEF RowsChange, FiringsOf
  <2> QED BY <1>1, <2>1, OthersSpend DEF RowsChange
<1>2. ASSUME NEW s \in Schedules, Tick(s) PROVE OnceFiresPerArm'
  BY <1>1, <1>2, DispatchSpends, CallsChange
<1>3. ASSUME NEW n \in DOMAIN firings, Answered(n) PROVE OnceFiresPerArm'
  BY <1>3, MarkSpends DEF Answered
<1>4. CASE UNCHANGED vars
  BY <1>4 DEF vars, OnceFiresPerArm, FiringsOf
<1> QED BY <1>1, <1>2, <1>3, <1>4, CreateChanges, CallsChange, ClocksChange, CrashSpends DEF Next

\* A one-shot fires at most once for every time it was enabled, whatever is disabled, enabled,
\* claimed, deleted, crashed, booted or answered late in between (scheduler.ts claimFiring).
THEOREM OnceFiresOncePerArm == Spec => []OnceFiresPerArm
<1>1. Init => OnceFiresPerArm
  <2> SUFFICES ASSUME Init, NEW s \in Onces PROVE Spent(s)
    BY DEF OnceFiresPerArm, Spent
  <2>1. FiringsOf(s) = {} /\ s \in Schedules
    BY DEF Init, FiringsOf, Schedules
  <2>2. Cardinality(FiringsOf(s)) = 0
    BY <2>1, FS_EmptySet
  <2>3. arms[s] = IF row[s].enabled THEN 1 ELSE 0
    BY <2>1 DEF Init
  <2>4. arms[s] \in {0, 1}
    BY <2>3
  <2> QED BY <2>2, <2>3, <2>4 DEF Spent
<1>2. IInv /\ IInv' /\ OnceFiresPerArm /\ [Next]_vars => OnceFiresPerArm'
  BY NextSpends
<1> QED BY <1>1, <1>2, AlwaysInvariant, PTL DEF Spec

-----------------------------------------------------------------------------
(* The contract of module Timetable.                                       *)

\* computeNextFire gives an instant of the expression.
LEMMA InstantsOfExpression ==
    ASSUME NEW t \in Nat
    PROVE  /\ After(t) # Never => After(t) \in Instants
           /\ From(t) # Never => From(t) \in Instants
<1> USE ScheduleAssumption
<1>1. ASSUME After(t) # Never PROVE After(t) \in {i \in Instants : i > t}
  <2>1. {i \in Instants : i > t} # {}
    BY <1>1 DEF After, Least
  <2> QED BY <2>1, LeastIsLeast DEF After
<1>2. ASSUME From(t) # Never PROVE From(t) \in {i \in Instants : i >= t}
  <2>1. {i \in Instants : i >= t} # {}
    BY <1>2 DEF From, Least
  <2> QED BY <2>1, LeastIsLeast DEF From
<1> QED BY <1>1, <1>2

\* A cron row is always about to fire for an instant its expression names.
NextNamed == \A s \in Crons : Exists(s) => row[s].nextFire \in Instants

LEMMA NamedByRows ==
    ASSUME NextNamed,
           \A s \in Crons : Exists(s)' =>
               (Exists(s) /\ row'[s].nextFire = row[s].nextFire) \/ row'[s].nextFire \in Instants
    PROVE  NextNamed'
BY DEF NextNamed, Exists

\* Calls change nothing of a row but whether it is enabled and whom it is bound to.
LEMMA CallsKeepNamed ==
    ASSUME IInv, NextNamed, NEW s \in Schedules,
           \/ Delete(s) \/ Claim(s) \/ Release(s) \/ Deregister(s)
           \/ (\E on \in BOOLEAN : SetEnabled(s, on))
           \/ Tick(s) /\ Exhausted(s)
    PROVE  NextNamed'
<1>1. Exists(s) /\ row \in [Schedules -> Row \cup {NoRow}]
  BY DEF IInv, TypeOK, Delete, Claim, Release, Deregister, SetEnabled, Tick, Due
<1>2. row[s] \in Row
  BY <1>1 DEF Exists
<1>3. /\ row'[s] = NoRow \/ row'[s].nextFire = row[s].nextFire
      /\ \A q \in Schedules : q # s => row'[q] = row[q]
  BY <1>1, <1>2 DEF Delete, Claim, Release, Deregister, SetEnabled, Tick, Exhausted, Row
<1> QED BY <1>1, <1>3, NamedByRows DEF Exists, Schedules

LEMMA NamedKept == ASSUME IInv, NextNamed, [Next]_vars PROVE NextNamed'
<1>1. TypeOK /\ row \in [Schedules -> Row \cup {NoRow}] /\ now \in Nat
  BY DEF IInv, TypeOK
<1>2. ASSUME NEW s \in Schedules, CreateAny(s) PROVE NextNamed'
  <2>1. PICK on \in BOOLEAN, at \in Nat \cup {From(now)} : Create(s, on, at) /\ (s \in Crons => at = From(now))
    <3>1. PICK on \in BOOLEAN : \/ s \in Crons /\ Create(s, on, From(now))
                                \/ s \in Onces /\ \E at \in Time : Create(s, on, at)
      BY <1>2 DEF CreateAny
    <3>2. s \in Onces => s \notin Crons /\ Time \subseteq Nat
      BY ScheduleAssumption DEF Time
    <3> QED BY <3>1, <3>2
  <2>2. row' = [row EXCEPT ![s] = NewRow(on, "none", at)] /\ at # Never
    BY <2>1 DEF Create
  <2>3. s \in Crons => row'[s].nextFire \in Instants
    BY <1>1, <2>1, <2>2, InstantsOfExpression DEF NewRow
  <2>4. \A q \in Schedules : q # s => row'[q] = row[q]
    BY <1>1, <2>2
  <2> QED BY <2>3, <2>4, NamedByRows DEF Exists, Schedules
<1>3. ASSUME NEW s \in Schedules, Tick(s), ~Exhausted(s) PROVE NextNamed'
  <2>1. Exists(s) /\ Consumed(s) \in Row /\ row[s] \in Row
    BY <1>1, <1>3, RowsMade DEF Tick, Due
  <2>2. PICK r \in {Consumed(s), [Consumed(s) EXCEPT !.lastRefusal = Len(firings) + 1]} :
            row' = [row EXCEPT ![s] = r]
    BY <1>3 DEF Tick
  <2>3. r.nextFire = Consumed(s).nextFire
    BY <2>1, <2>2 DEF Row
  <2>4. s \in Crons => Consumed(s).nextFire = After(now) /\ After(now) # Never
    BY <1>3, <2>1, ScheduleAssumption DEF Consumed, Exhausted, Row
  <2>5. s \in Crons => row'[s].nextFire \in Instants
    BY <1>1, <2>2, <2>3, <2>4, InstantsOfExpression
  <2>6. \A q \in Schedules : q # s => row'[q] = row[q]
    BY <1>1, <2>2
  <2> QED BY <2>5, <2>6, NamedByRows DEF Exists, Schedules
<1>4. ASSUME NEW n \in DOMAIN firings, NEW o \in {"fired", "failed", "refused"}, Mark(n, o)
      PROVE  NextNamed'
  <2> DEFINE s == firings[n].id
  <2>1. CASE ~Exists(s)
    BY <1>4, <2>1, NamedByRows DEF Mark, Exists
  <2>2. CASE Exists(s)
    <3>1. s \in Schedules /\ Marked(n, o).nextFire = row[s].nextFire
      BY <1>1, <2>2, FiringFields, RowMarked
    <3>2. row' = [row EXCEPT ![s] = Marked(n, o)]
      BY <1>4, <2>2 DEF Mark
    <3>3. \A q \in Schedules : row'[q] = IF q = s THEN Marked(n, o) ELSE row[q]
      BY <1>1, <3>1, <3>2
    <3> HIDE DEF s
    <3> QED BY <2>2, <3>1, <3>3, NamedByRows DEF Exists, Schedules
  <2> QED BY <2>1, <2>2
<1>5. CASE Boot
  <2> SUFFICES ASSUME NEW s \in Crons, Exists(s)'
               PROVE  (Exists(s) /\ row'[s].nextFire = row[s].nextFire) \/ row'[s].nextFire \in Instants
    BY NamedByRows
  <2>1. s \in Schedules /\ row'[s] = Rearmed(s, now + 1) /\ now + 1 \in Nat
    BY <1>1, <1>5 DEF Boot, Schedules
  <2>2. CASE s \in Crons /\ row[s].workflow = "legacy"
    <3>1. Exists(s) /\ row[s] \in Row
      BY <1>1, <2>1, <2>2 DEF Exists, NoRow
    <3> QED BY <2>1, <2>2, <3>1, InstantsOfExpression DEF Rearmed, Row
  <2>3. CASE ~(s \in Crons /\ row[s].workflow = "legacy")
    BY <2>1, <2>3 DEF Rearmed, Exists
  <2> QED BY <2>2, <2>3
<1>6. CASE row' = row
  BY <1>6, NamedByRows DEF Exists
<1> QED BY <1>2, <1>3, <1>4, <1>5, <1>6, CallsKeepNamed
        DEF Next, vars, Answered, Advance, Crash

-----------------------------------------------------------------------------
\* A step that dispatches nothing rings and shoots nothing.
LEMMA Silent ==
    ASSUME DOMAIN firings' = DOMAIN firings,
           \A n \in DOMAIN firings : /\ firings'[n].id = firings[n].id
                                     /\ firings'[n].due = firings[n].due
    PROVE  rung' = rung /\ shots' = shots
<1>1. \A s \in Schedules : FiringsOf(s)' = FiringsOf(s)
  BY DEF FiringsOf
<1>2. shots' = shots
  BY <1>1 DEF shots, Schedules
<1>3. \A s \in Crons : {firings'[n].due : n \in FiringsOf(s)'} = {firings[n].due : n \in FiringsOf(s)}
  BY <1>1 DEF FiringsOf, Schedules
<1> QED BY <1>2, <1>3 DEF rung

\* A call that enables a schedule allows a one-shot once more.
LEMMA ArmedByContract ==
    ASSUME TypeOK, UNCHANGED <<now, firings>>, NEW s \in Schedules, NEW on \in BOOLEAN, Armed(s, on)
    PROVE  [Plan!TNext]_(Plan!tvars)
<1>1. rung' = rung /\ shots' = shots
  BY Silent
<1>2. \A q \in Schedules : arms'[q] = IF q = s /\ on THEN arms[q] + 1 ELSE arms[q]
  BY DEF Armed, TypeOK
<1>3. allowed = [q \in Onces |-> arms[q]] /\ allowed' = [q \in Onces |-> arms'[q]]
  BY DEF allowed
<1>4. CASE s \in Onces /\ on
  <2>1. allowed' = [allowed EXCEPT ![s] = @ + 1]
    BY <1>2, <1>3, <1>4 DEF Schedules
  <2>2. Plan!Allow(s)
    BY <1>1, <2>1 DEF Plan!Allow
  <2> QED BY <1>4, <2>2 DEF Plan!TNext
<1>5. CASE ~(s \in Onces /\ on)
  <2>1. allowed' = allowed
    BY <1>2, <1>3, <1>5 DEF Schedules
  <2> QED BY <1>1, <2>1 DEF Plan!tvars
<1> QED BY <1>4, <1>5

\* A dispatch is the firing of its schedule.
LEMMA DispatchByContract ==
    ASSUME IInv, OnceFiresPerArm, NextNamed, NEW s \in Schedules, Tick(s), ~Exhausted(s)
    PROVE  [Plan!TNext]_(Plan!tvars)
<1> DEFINE k == Len(firings) + 1
           t == row[s].nextFire
<1>1. /\ TypeOK /\ Exists(s) /\ row[s] \in Row /\ row[s].enabled /\ t <= now
      /\ UNCHANGED <<now, arms>>
  BY RowsMade DEF IInv, Tick, Due
<1>2. /\ Len(firings) \in Nat /\ DOMAIN firings = 1..Len(firings)
      /\ \A n \in DOMAIN firings : n \in Nat /\ n # k
  BY <1>1, FiringFields
<1>3. PICK o \in {"starting", "refused"} : firings' = Append(firings, [id |-> s, due |-> t, outcome |-> o])
  BY DEF Tick
<1> DEFINE f == [id |-> s, due |-> t, outcome |-> o]
<1>4. f \in Firing /\ f.id = s /\ f.due = t
  BY <1>1, ScheduleAssumption DEF Row, Firing, Outcomes, Time
<1>5. /\ DOMAIN firings' = (DOMAIN firings) \cup {k}
      /\ firings'[k] = f /\ \A n \in DOMAIN firings : firings'[n] = firings[n]
  <2>1. firings' = Append(firings, f) /\ firings \in Seq(Firing)
    BY <1>1, <1>3 DEF TypeOK
  <2> HIDE DEF f
  <2>2. /\ firings' \in Seq(Firing) /\ Len(firings') = k
        /\ firings'[k] = f /\ \A n \in 1..Len(firings) : firings'[n] = firings[n]
    BY <1>4, <2>1, AppendProperties
  <2>3. DOMAIN firings' = 1..k
    BY <2>2, LenProperties
  <2> QED BY <1>2, <2>2, <2>3
<1> HIDE DEF f, k
<1>6. FiringsOf(s)' = FiringsOf(s) \cup {k} /\ k \notin FiringsOf(s)
  BY <1>2, <1>4, <1>5 DEF FiringsOf
<1>7. \A q \in Schedules : q # s => FiringsOf(q)' = FiringsOf(q)
  BY <1>2, <1>4, <1>5 DEF FiringsOf
<1>8. allowed' = allowed
  BY <1>1 DEF allowed
<1>9. CASE s \in Crons
  <2>1. s \notin Onces
    BY <1>9, ScheduleAssumption
  <2>2. shots' = shots
    BY <1>7, <2>1 DEF shots, Schedules
  <2>3. \A q \in Crons : {firings'[n].due : n \in FiringsOf(q)'} =
            IF q = s THEN {firings[n].due : n \in FiringsOf(q)} \cup {t}
            ELSE {firings[n].due : n \in FiringsOf(q)}
    <3> SUFFICES ASSUME NEW q \in Crons
                 PROVE  {firings'[n].due : n \in FiringsOf(q)'} =
                            IF q = s THEN {firings[n].due : n \in FiringsOf(q)} \cup {t}
                            ELSE {firings[n].due : n \in FiringsOf(q)}
      OBVIOUS
    <3>1. \A n \in FiringsOf(q) : firings'[n].due = firings[n].due
      BY <1>5 DEF FiringsOf
    <3>2. firings'[k].due = t
      BY <1>4, <1>5
    <3> HIDE DEF t
    <3>3. CASE q = s
      BY <1>6, <3>1, <3>2, <3>3
    <3>4. CASE q # s
      BY <1>7, <3>1, <3>4 DEF Schedules
    <3> QED BY <3>3, <3>4
  <2>4. rung' = [rung EXCEPT ![s] = @ \cup {t}]
    <3> HIDE DEF t
    <3> QED BY <1>9, <2>3 DEF rung
  <2>5. \A u \in rung[s] : u < t
    <3>1. \A n \in DOMAIN firings : firings[n].id = s => firings[n].due < t
      BY <1>1, <1>9 DEF IInv, FiredBeforeNext
    <3> QED BY <1>9, <3>1 DEF rung, FiringsOf
  <2>6. t \in Instants
    BY <1>1, <1>9 DEF NextNamed
  <2>7. Plan!Ring(s, t)
    BY <1>1, <1>8, <2>2, <2>4, <2>5 DEF Plan!Ring
  <2> QED BY <1>9, <2>6, <2>7 DEF Plan!TNext
<1>10. CASE s \in Onces
  <2> DEFINE c == Cardinality(FiringsOf(s))
             d == Cardinality(FiringsOf(s)')
  <2>1. c \in Nat /\ d = c + 1
    BY <1>1, <1>6, FiringsFinite, FS_AddElement
  <2>2. c + 1 <= arms[s] /\ arms[s] \in Nat
    BY <1>1, <1>10 DEF OnceFiresPerArm, TypeOK
  <2>3. \A q \in Onces : Cardinality(FiringsOf(q)') = IF q = s THEN d ELSE Cardinality(FiringsOf(q))
    BY <1>7 DEF Schedules
  <2>4. shots = [q \in Onces |-> Cardinality(FiringsOf(q))]
        /\ shots' = [q \in Onces |-> Cardinality(FiringsOf(q)')]
    BY DEF shots
  <2>5. shots[s] = c /\ allowed[s] = arms[s]
    BY <1>10 DEF shots, allowed
  <2> HIDE DEF c, d
  <2>6. shots' = [shots EXCEPT ![s] = @ + 1]
    BY <1>10, <2>1, <2>3, <2>4, <2>5
  <2>7. shots[s] < allowed[s]
    BY <2>1, <2>2, <2>5
  <2>8. rung' = rung
    <3>1. s \notin Crons
      BY <1>10, ScheduleAssumption
    <3>2. \A q \in Crons : {firings'[n].due : n \in FiringsOf(q)'} = {firings[n].due : n \in FiringsOf(q)}
      BY <1>5, <1>7, <3>1 DEF FiringsOf, Schedules
    <3> QED BY <3>2 DEF rung
  <2>9. Plan!Shoot(s)
    BY <1>1, <1>8, <2>6, <2>7, <2>8 DEF Plan!Shoot
  <2> QED BY <1>10, <2>9 DEF Plan!TNext
<1> QED BY <1>9, <1>10 DEF Schedules

\* A step that arms nothing and dispatches nothing lets time pass, or does nothing at all.
LEMMA QuietByContract ==
    ASSUME now' = now \/ now' = now + 1, arms' = arms, DOMAIN firings' = DOMAIN firings,
           \A n \in DOMAIN firings : /\ firings'[n].id = firings[n].id
                                     /\ firings'[n].due = firings[n].due
    PROVE  [Plan!TNext]_(Plan!tvars)
<1>1. rung' = rung /\ shots' = shots /\ allowed' = allowed
  BY Silent DEF allowed
<1> QED BY <1>1 DEF Plan!TNext, Plan!Pass, Plan!tvars

LEMMA NextByContract ==
    ASSUME IInv, OnceFiresPerArm, NextNamed, [Next]_vars
    PROVE  [Plan!TNext]_(Plan!tvars)
<1>1. TypeOK /\ \A n \in DOMAIN firings : firings[n] \in Firing
  BY FiringFields DEF IInv
<1>2. ASSUME NEW s \in Schedules, CreateAny(s) PROVE [Plan!TNext]_(Plan!tvars)
  <2>1. PICK on \in BOOLEAN : Armed(s, on) /\ UNCHANGED <<now, firings>>
    BY <1>2 DEF CreateAny, Create
  <2> QED BY <1>1, <2>1, ArmedByContract
<1>3. ASSUME NEW s \in Schedules, NEW on \in BOOLEAN, SetEnabled(s, on) PROVE [Plan!TNext]_(Plan!tvars)
  BY <1>1, <1>3, ArmedByContract DEF SetEnabled
<1>4. ASSUME NEW n \in DOMAIN firings, Answered(n) PROVE [Plan!TNext]_(Plan!tvars)
  <2>1. PICK o \in {"fired", "failed", "refused"} : firings' = [firings EXCEPT ![n].outcome = o]
    BY <1>4 DEF Answered, Mark
  <2>2. now' = now /\ arms' = arms
    BY <1>4 DEF Answered, Mark
  <2>3. /\ DOMAIN firings' = DOMAIN firings
        /\ \A m \in DOMAIN firings : firings'[m].id = firings[m].id /\ firings'[m].due = firings[m].due
    BY <1>1, <2>1 DEF Firing
  <2> QED BY <2>2, <2>3, QuietByContract
<1>5. CASE Crash
  <2>1. /\ DOMAIN firings' = DOMAIN firings
        /\ \A m \in DOMAIN firings : firings'[m].id = firings[m].id /\ firings'[m].due = firings[m].due
    BY <1>1, <1>5 DEF Crash, Firing
  <2>2. now' = now /\ arms' = arms
    BY <1>5 DEF Crash
  <2> QED BY <2>1, <2>2, QuietByContract
<1>6. CASE (now' = now \/ now' = now + 1) /\ UNCHANGED <<firings, arms>>
  BY <1>6, QuietByContract
<1>7. ASSUME NEW s \in Schedules, Tick(s) PROVE [Plan!TNext]_(Plan!tvars)
  <2>1. Exhausted(s) => UNCHANGED <<now, firings, arms>>
    BY <1>7 DEF Tick
  <2> QED BY <1>6, <1>7, <2>1, DispatchByContract
<1> QED BY <1>2, <1>3, <1>4, <1>5, <1>6, <1>7
        DEF Next, vars, Delete, Claim, Release, Deregister, Advance, Boot

\* The scheduler keeps the contract of Timetable for every expression and any number of schedules
\* and crashes: a cron schedule fires for instants of its expression that have come, in order, and
\* a one-shot as often as it was enabled at most.
THEOREM TimetableKept == Spec => OnTime
<1>1. Init => Plan!TInit /\ NextNamed
  <2> SUFFICES ASSUME Init PROVE Plan!TInit /\ NextNamed
    OBVIOUS
  <2>1. now = 0 /\ firings = <<>> /\ arms = [s \in Schedules |-> IF row[s].enabled THEN 1 ELSE 0]
    BY DEF Init
  <2>2. \A s : FiringsOf(s) = {}
    BY <2>1 DEF FiringsOf
  <2>3. rung = [s \in Crons |-> {}] /\ shots = [s \in Onces |-> 0]
    BY <2>2, FS_EmptySet DEF rung, shots
  <2>4. allowed \in [Onces -> {0, 1}]
    BY <2>1 DEF allowed, Schedules
  <2>5. NextNamed
    <3> SUFFICES ASSUME NEW s \in Crons, Exists(s) PROVE row[s].nextFire \in Instants
      BY DEF NextNamed
    <3>1. row[s].nextFire = From(now)
      BY DEF Init
    <3>2. row[s] \in Row
      BY InitInvariant, RowFields DEF IInv, Schedules
    <3>3. From(now) # Never
      BY <3>1, <3>2, ScheduleAssumption DEF Row, Time, Never
    <3> QED BY <2>1, <3>1, <3>3, InstantsOfExpression
  <2> QED BY <2>1, <2>3, <2>4, <2>5 DEF Plan!TInit
<1>2. IInv /\ NextNamed /\ [Next]_vars => NextNamed'
  BY NamedKept
<1>3. IInv /\ OnceFiresPerArm /\ NextNamed /\ [Next]_vars => [Plan!TNext]_(Plan!tvars)
  BY NextByContract
<1> QED BY <1>1, <1>2, <1>3, AlwaysInvariant, OnceFiresOncePerArm, PTL DEF Spec, OnTime, Plan!TSpec

=============================================================================
