------------------------ MODULE WebhookDeliveryProofs ------------------------
(***************************************************************************)
(* All deliveries of one id are told the same, until the engine crashes    *)
(* one run of it is executed, and an id is in progress only while a        *)
(* delivery is at work on it, for any number of ids and deliveries.  The   *)
(* invariant ties what was answered, and the runs, to the row of the id; a *)
(* row with an outcome is never written again because only the one         *)
(* delivery that owns a pending row writes it.                             *)
(***************************************************************************)
EXTENDS WebhookDelivery, TLAPS, SequenceTheorems, FiniteSetTheorems

\* What was told of an id is what its row says.
ToldByRow ==
    \A n \in DOMAIN req : req[n].id \in Ids =>
        /\ Accepts(n) => /\ row[req[n].id].status \in {"accepted", "legacy"}
                         /\ row[req[n].id].run = req[n].run
        /\ req[n].answer = "refused" => row[req[n].id].status = "refused"

\* A delivery that waits for start() owns the pending row of its id.
OwnersApart ==
    /\ \A n \in DOMAIN req : req[n].answer = "starting" /\ req[n].id \in Ids =>
          row[req[n].id].status = "pending"
    /\ \A m, n \in DOMAIN req :
          (/\ req[m].answer = "starting" /\ req[n].answer = "starting"
           /\ req[m].id = req[n].id /\ req[m].id \in Ids) => m = n

\* While the engine is down nothing waits.
NoneWaits == ~up => \A n \in DOMAIN req : req[n].answer \notin Phases

\* Until a crash the row of an id names every run of it that start() has executed.
RunsOnRows ==
    crashes = 0 => /\ up
                   /\ \A i \in DOMAIN runs : runs[i].begun /\ req[runs[i].by].id \in Ids =>
                         /\ row[req[runs[i].by].id].status = "accepted"
                         /\ row[req[runs[i].by].id].run = i

IInv == TypeOK /\ ToldByRow /\ OwnersApart /\ NoneWaits /\ RunsOnRows

-----------------------------------------------------------------------------
LEMMA SeqFields ==
    ASSUME TypeOK
    PROVE  /\ Len(req) \in Nat /\ DOMAIN req = 1..Len(req)
           /\ \A n \in DOMAIN req : /\ n \in Nat /\ req[n] \in Request
                                    /\ req[n].id \in Ids \cup {NoId}
           /\ Len(runs) \in Nat /\ DOMAIN runs = 1..Len(runs)
           /\ \A i \in DOMAIN runs : /\ i \in Nat \ {0} /\ runs[i] \in Created
                                     /\ runs[i].by \in DOMAIN req
<1>1. req \in Seq(Request) /\ runs \in Seq(Created)
  BY DEF TypeOK
<1>2. /\ Len(req) \in Nat /\ DOMAIN req = 1..Len(req) /\ req \in [1..Len(req) -> Request]
      /\ Len(runs) \in Nat /\ DOMAIN runs = 1..Len(runs)
      /\ runs \in [1..Len(runs) -> Created]
  BY <1>1, LenProperties
<1>3. \A n \in 1..Len(req) : req[n].id \in Ids \cup {NoId}
  BY <1>2 DEF Request
<1>4. \A i \in 1..Len(runs) : runs[i].by \in 1..Len(req)
  BY <1>2 DEF Created
<1> QED BY <1>2, <1>3, <1>4

\* What Replay tells agrees with the row, and is an answer.
LEMMA ReplaySays ==
    ASSUME TypeOK, NEW d \in Ids
    PROVE  /\ Replay(d).answer \in Answers /\ Replay(d).run \in Nat
           /\ Known(d) /\ Replay(d).answer \in {"accepted", "replayed"} =>
                 row[d].status \in {"accepted", "legacy"} /\ row[d].run = Replay(d).run
           /\ Replay(d).answer = "refused" => row[d].status = "refused"
<1>1. row[d] \in Row
  BY DEF TypeOK
<1>2. row[d].status \in {"none", "legacy", "pending", "refused", "accepted"} /\ row[d].run \in Nat
  BY <1>1 DEF Row
<1>3. Replay(d).answer = CASE row[d].status = "pending" -> "inProgress"
                           [] row[d].status = "refused" -> "refused"
                           [] OTHER -> "replayed"
  BY Zenon DEF Replay
<1>4. Replay(d).run = row[d].run
  BY Zenon DEF Replay
<1> QED BY <1>2, <1>3, <1>4 DEF Answers, Known

LEMMA InitInvariant == Init => IInv
<1> SUFFICES ASSUME Init PROVE IInv
  OBVIOUS
<1>1. row \in [Ids -> Row]
  <2>1. row \in [Ids -> {NoRow, [status |-> "legacy", run |-> 0]}]
    BY DEF Init
  <2>2. NoRow \in Row /\ [status |-> "legacy", run |-> 0] \in Row
    BY DEF NoRow, Row
  <2> QED BY <2>1, <2>2
<1>2. up = TRUE /\ req = <<>> /\ runs = <<>> /\ crashes = 0
  BY DEF Init
<1>3. TypeOK
  BY <1>1, <1>2 DEF Init, TypeOK, HookStates
<1>4. ToldByRow /\ OwnersApart /\ NoneWaits /\ RunsOnRows
  BY <1>2 DEF ToldByRow, OwnersApart, NoneWaits, RunsOnRows
<1> QED BY <1>3, <1>4 DEF IInv

-----------------------------------------------------------------------------
\* A delivery that arrives, or goes on, and writes no row: if it has been told something the
\* row says so, and it does not go on to start() if it has an id.
LEMMA TellingKeeps ==
    ASSUME IInv, TypeOK', UNCHANGED <<up, row, runs, crashes>>, up, NEW n \in DOMAIN req',
           DOMAIN req' = (DOMAIN req) \cup {n},
           \A m \in DOMAIN req : req'[m].id = req[m].id /\ (m # n => req'[m] = req[m]),
           req'[n].id \in Ids =>
              /\ req'[n].answer # "starting"
              /\ req'[n].answer \in {"accepted", "replayed"} =>
                    /\ row[req'[n].id].status \in {"accepted", "legacy"}
                    /\ row[req'[n].id].run = req'[n].run
              /\ req'[n].answer = "refused" => row[req'[n].id].status = "refused"
    PROVE  IInv'
<1>1. ToldByRow'
  BY DEF IInv, ToldByRow, Accepts
<1>2. OwnersApart'
  <2>1. \A m \in DOMAIN req' : req'[m].answer = "starting" /\ req'[m].id \in Ids =>
            m \in DOMAIN req /\ m # n /\ req'[m] = req[m]
    OBVIOUS
  <2>2. \A m \in DOMAIN req' : req'[m].answer = "starting" /\ req'[m].id \in Ids =>
            row[req'[m].id].status = "pending"
    BY <2>1 DEF IInv, OwnersApart
  <2>3. ASSUME NEW m \in DOMAIN req', NEW k \in DOMAIN req',
               req'[m].answer = "starting", req'[k].answer = "starting",
               req'[m].id = req'[k].id, req'[m].id \in Ids
        PROVE  m = k
    BY <2>1, <2>3 DEF IInv, OwnersApart
  <2> QED BY <2>2, <2>3 DEF OwnersApart
<1>3. \A i \in DOMAIN runs : req'[runs[i].by].id = req[runs[i].by].id
  BY SeqFields DEF IInv
<1>4. RunsOnRows'
  BY <1>3 DEF IInv, RunsOnRows
<1>5. NoneWaits'
  BY DEF NoneWaits
<1> QED BY <1>1, <1>2, <1>4, <1>5 DEF IInv

\* A delivery whose answer is written is otherwise as it was.
LEMMA Answered ==
    ASSUME TypeOK, NEW n \in DOMAIN req, NEW a,
           a.answer \in Phases \cup Answers, a.run \in Nat, Answer(n, a)
    PROVE  /\ req' \in Seq(Request) /\ Len(req') = Len(req) /\ DOMAIN req' = DOMAIN req
           /\ \A m \in DOMAIN req : req'[m].id = req[m].id /\ (m # n => req'[m] = req[m])
           /\ req'[n].answer = a.answer /\ req'[n].run = a.run
<1> DEFINE r == [[req[n] EXCEPT !.answer = a.answer] EXCEPT !.run = a.run]
<1>1. /\ Len(req) \in Nat /\ DOMAIN req = 1..Len(req)
      /\ \A m \in DOMAIN req : req[m] \in Request
      /\ req \in [DOMAIN req -> Request]
  BY SeqFields, LenProperties DEF TypeOK
<1>2. req' = [req EXCEPT ![n] = r]
  BY <1>1 DEF Answer
<1>3. r \in Request /\ r.id = req[n].id /\ r.answer = a.answer /\ r.run = a.run
  BY <1>1 DEF Request
<1> HIDE DEF r
<1>4. req' \in [1..Len(req) -> Request]
  BY <1>1, <1>2, <1>3
<1>5. req' \in Seq(Request) /\ Len(req') = Len(req)
  BY <1>1, <1>4, SeqDef, LenProperties
<1> QED BY <1>1, <1>2, <1>3, <1>4, <1>5

LEMMA ReceiveKeeps ==
    ASSUME IInv, NEW h \in Hooks, NEW d \in Ids \cup {NoId}, Receive(h, d) PROVE IInv'
<1>1. PICK signed \in BOOLEAN :
          req' = Append(req, [hook |-> h, id |-> d, answer |-> First(h, d, signed).answer,
                              run |-> First(h, d, signed).run])
  BY DEF Receive
<1>2. TypeOK /\ up /\ UNCHANGED <<up, hook, row, runs, crashes>>
  BY DEF IInv, Receive
<1> DEFINE a == First(h, d, signed)
           f == [hook |-> h, id |-> d, answer |-> a.answer, run |-> a.run]
           n == Len(req) + 1
<1>3. /\ a.answer \in {"resolving"} \cup Answers /\ a.run \in Nat
      /\ d \in Ids =>
            /\ a.answer \in {"accepted", "replayed"} =>
                  row[d].status \in {"accepted", "legacy"} /\ row[d].run = a.run
            /\ a.answer = "refused" => row[d].status = "refused"
  <2>1. CASE a = Replay(d) /\ Known(d)
    BY <1>2, <2>1, ReplaySays DEF Known
  <2>2. CASE \E w \in Refusals \cup {"resolving"} : a = [answer |-> w, run |-> 0]
    BY <2>2 DEF Answers, Refusals
  <2>3. \/ a = Replay(d) /\ Known(d)
        \/ \E w \in Refusals \cup {"resolving"} : a = [answer |-> w, run |-> 0]
    BY DEF First, Refusals
  <2> QED BY <2>1, <2>2, <2>3
<1> HIDE DEF a
<1>4. f \in Request
  BY <1>3 DEF Request, Phases
<1>5. /\ req' \in Seq(Request) /\ Len(req') = n /\ DOMAIN req' = (DOMAIN req) \cup {n}
      /\ req'[n] = f /\ \A m \in DOMAIN req : req'[m] = req[m] /\ m # n
  <2>1. req' = Append(req, f)
    BY <1>1 DEF a
  <2>2. Len(req) \in Nat /\ DOMAIN req = 1..Len(req) /\ req \in Seq(Request)
    BY <1>2, SeqFields DEF TypeOK
  <2>3. /\ req' \in Seq(Request) /\ Len(req') = n
        /\ req'[n] = f /\ \A m \in 1..Len(req) : req'[m] = req[m]
    BY <1>4, <2>1, <2>2, AppendProperties
  <2>4. DOMAIN req' = 1..n
    BY <2>3, LenProperties
  <2> QED BY <2>2, <2>3, <2>4
<1>6. TypeOK'
  <2>1. runs' \in Seq(Created')
    <3>1. /\ Len(req) \in Nat /\ Len(runs) \in Nat /\ DOMAIN runs = 1..Len(runs)
          /\ \A i \in DOMAIN runs : runs[i] \in Created
      BY <1>2, SeqFields
    <3>2. Created \subseteq Created'
      BY <1>5, <3>1 DEF Created
    <3>3. runs' \in [1..Len(runs) -> Created']
      BY <1>2, <3>1, <3>2, LenProperties DEF TypeOK
    <3> QED BY <1>2, <3>1, <3>3, SeqDef
  <2> QED BY <1>2, <1>5, <2>1 DEF TypeOK
<1>7. \A m \in DOMAIN req : req'[m].id = req[m].id /\ (m # n => req'[m] = req[m])
  BY <1>5
<1>8. n \in DOMAIN req' /\ f.id = d /\ f.answer = a.answer /\ f.run = a.run
  BY <1>5
<1>9. a.answer # "starting"
  BY <1>3 DEF Answers, Refusals
<1> HIDE DEF f, n
<1>10. req'[n].id = d /\ req'[n].answer = a.answer /\ req'[n].run = a.run
  BY <1>5, <1>8
<1> QED BY <1>2, <1>3, <1>5, <1>6, <1>7, <1>8, <1>9, <1>10, TellingKeeps

\* The delivery takes the id: there was no row, and so no other delivery owned it.
LEMMA TakingKeeps ==
    ASSUME IInv, TypeOK', up, NEW n \in DOMAIN req, NEW d \in Ids, req[n].id = d,
           row[d].status = "none", row' = [row EXCEPT ![d] = [status |-> "pending", run |-> 0]],
           Answer(n, [answer |-> "starting", run |-> 0]),
           UNCHANGED <<up, hook, runs, crashes>>
    PROVE  IInv'
<1> DEFINE a == [answer |-> "starting", run |-> 0]
<1>1. TypeOK /\ a.answer \in Phases \cup Answers /\ a.run \in Nat
  BY DEF IInv, Phases
<1>2. /\ DOMAIN req' = DOMAIN req
      /\ \A m \in DOMAIN req : req'[m].id = req[m].id /\ (m # n => req'[m] = req[m])
      /\ req'[n].answer = "starting"
  BY <1>1, Answered
<1>3. row'[d].status = "pending" /\ \A e \in Ids : e # d => row'[e] = row[e]
  BY <1>1 DEF TypeOK
<1>4. ToldByRow'
  <2>1. \A m \in DOMAIN req : req[m].id = d => ~Accepts(m) /\ req[m].answer # "refused"
    BY DEF IInv, ToldByRow
  <2>2. \A m \in DOMAIN req : req'[m].id = d => req'[m].answer \notin {"accepted", "replayed", "refused"}
    BY <1>2, <2>1 DEF Accepts
  <2>3. \A m \in DOMAIN req : req'[m].id # d => req'[m] = req[m]
    BY <1>2
  <2> QED BY <1>2, <1>3, <2>2, <2>3 DEF IInv, ToldByRow, Accepts
<1>5. OwnersApart'
  <2>1. \A m \in DOMAIN req : req[m].id = d => req[m].answer # "starting"
    BY DEF IInv, OwnersApart
  <2>2. \A m \in DOMAIN req : req'[m].answer = "starting" => m = n \/ req[m].answer = "starting"
    BY <1>2
  <2>3. \A m \in DOMAIN req' : req'[m].answer = "starting" /\ req'[m].id \in Ids =>
            row'[req'[m].id].status = "pending"
    BY <1>2, <1>3, <2>2 DEF IInv, OwnersApart
  <2>4. ASSUME NEW m \in DOMAIN req', NEW k \in DOMAIN req',
               req'[m].answer = "starting", req'[k].answer = "starting",
               req'[m].id = req'[k].id, req'[m].id \in Ids
        PROVE  m = k
    BY <1>2, <2>1, <2>2, <2>4 DEF IInv, OwnersApart
  <2> QED BY <2>3, <2>4 DEF OwnersApart
<1>6. RunsOnRows'
  <2> SUFFICES ASSUME crashes = 0 PROVE RunsOnRows'
    BY DEF RunsOnRows
  <2>1. \A i \in DOMAIN runs : /\ runs[i].by \in DOMAIN req
                               /\ req'[runs[i].by].id = req[runs[i].by].id
                               /\ runs[i].begun => req[runs[i].by].id # d
    BY <1>1, <1>2, SeqFields DEF IInv, RunsOnRows
  <2> QED BY <1>3, <2>1 DEF IInv, RunsOnRows
<1>7. NoneWaits'
  BY DEF NoneWaits
<1> QED BY <1>4, <1>5, <1>6, <1>7 DEF IInv

\* Runs stay where they are when deliveries keep their places.
LEMMA RunsKeepPlace ==
    ASSUME TypeOK, Len(req') = Len(req), UNCHANGED runs
    PROVE  runs' \in Seq(Created')
BY DEF TypeOK, Created

\* A run more, of a delivery there is.
LEMMA RunAdded ==
    ASSUME TypeOK, Len(req') = Len(req), NEW n \in DOMAIN req, NEW b \in BOOLEAN,
           runs' = Append(runs, [by |-> n, begun |-> b])
    PROVE  /\ runs' \in Seq(Created') /\ Len(runs') = Len(runs) + 1
           /\ DOMAIN runs' = 1..(Len(runs) + 1)
           /\ runs'[Len(runs) + 1] = [by |-> n, begun |-> b]
           /\ \A i \in DOMAIN runs : runs'[i] = runs[i]
<1> DEFINE e == [by |-> n, begun |-> b]
<1>1. e \in Created
  BY SeqFields DEF Created
<1> HIDE DEF e
<1>2. /\ runs' \in Seq(Created) /\ Len(runs') = Len(runs) + 1 /\ runs'[Len(runs) + 1] = e
      /\ \A i \in 1..Len(runs) : runs'[i] = runs[i]
  BY <1>1, AppendProperties DEF e, TypeOK
<1>3. DOMAIN runs' = 1..(Len(runs) + 1) /\ DOMAIN runs = 1..Len(runs)
  BY <1>2, SeqFields, LenProperties
<1>4. Created' = Created
  BY DEF Created
<1> QED BY <1>2, <1>3, <1>4 DEF e

LEMMA ResolvedKeeps == ASSUME IInv, NEW n \in DOMAIN req, Resolved(n) PROVE IInv'
<1>1. TypeOK /\ up /\ req[n].answer = "resolving" /\ UNCHANGED <<up, hook, runs, crashes>>
  BY DEF IInv, Resolved
<1>2. ASSUME NEW a, a.answer \in Phases \cup Answers, a.run \in Nat, Answer(n, a), UNCHANGED row,
             req[n].id \in Ids =>
                /\ a.answer # "starting"
                /\ a.answer \in {"accepted", "replayed"} =>
                      row[req[n].id].status \in {"accepted", "legacy"} /\ row[req[n].id].run = a.run
                /\ a.answer = "refused" => row[req[n].id].status = "refused"
      PROVE  IInv'
  <2>1. /\ req' \in Seq(Request) /\ Len(req') = Len(req) /\ DOMAIN req' = DOMAIN req
        /\ \A m \in DOMAIN req : req'[m].id = req[m].id /\ (m # n => req'[m] = req[m])
        /\ req'[n].answer = a.answer /\ req'[n].run = a.run
    BY <1>1, <1>2, Answered
  <2>2. TypeOK'
    BY <1>1, <1>2, <2>1, RunsKeepPlace DEF TypeOK
  <2>3. n \in DOMAIN req' /\ DOMAIN req' = (DOMAIN req) \cup {n}
    BY <2>1
  <2> QED BY <1>1, <1>2, <2>1, <2>2, <2>3, TellingKeeps
<1>3. CASE Answer(n, [answer |-> "unresolved", run |-> 0]) /\ UNCHANGED row
  BY <1>2, <1>3 DEF Answers, Refusals
<1>4. CASE req[n].id = NoId /\ Answer(n, [answer |-> "starting", run |-> 0]) /\ UNCHANGED row
  BY <1>2, <1>4, WebhookAssumption DEF Phases
<1>5. CASE req[n].id \in Ids /\ ClaimedId(n, req[n].id)
  <2> DEFINE d == req[n].id
  <2>1. CASE Known(d)
    <3>1. Answer(n, Replay(d)) /\ UNCHANGED row
      BY <1>5, <2>1 DEF ClaimedId
    <3>2. /\ Replay(d).answer \in Answers /\ Replay(d).run \in Nat
          /\ Replay(d).answer \in {"accepted", "replayed"} =>
                row[d].status \in {"accepted", "legacy"} /\ row[d].run = Replay(d).run
          /\ Replay(d).answer = "refused" => row[d].status = "refused"
      BY <1>1, <1>5, <2>1, ReplaySays
    <3>3. Replay(d).answer # "starting"
      BY <3>2 DEF Answers, Refusals
    <3> QED BY <1>2, <3>1, <3>2, <3>3
  <2>2. CASE ~Known(d)
    <3>1. /\ row' = [row EXCEPT ![d] = [status |-> "pending", run |-> 0]]
          /\ Answer(n, [answer |-> "starting", run |-> 0])
          /\ row[d].status = "none"
      BY <1>5, <2>2 DEF ClaimedId, Known
    <3>2. req' \in Seq(Request) /\ Len(req') = Len(req)
      BY <1>1, <3>1, Answered DEF Phases
    <3>3. row' \in [Ids -> Row]
      <4>1. [status |-> "pending", run |-> 0] \in Row
        BY DEF Row
      <4> QED BY <1>1, <3>1, <4>1 DEF TypeOK
    <3>4. TypeOK'
      BY <1>1, <3>2, <3>3, RunsKeepPlace DEF TypeOK
    <3> QED BY <1>1, <1>5, <3>1, <3>4, TakingKeeps
  <2> QED BY <2>1, <2>2
<1> QED BY <1>3, <1>4, <1>5 DEF Resolved

\* start() answers: the delivery owned the row it writes, and nothing else was told of the id.
LEMMA StartedKeeps ==
    ASSUME IInv, NEW n \in DOMAIN req, NEW o \in {"accepted", "refused", "failed"}, Started(n, o)
    PROVE  IInv'
<1> DEFINE k == IF o = "accepted" THEN Len(runs) + 1 ELSE 0
           a == [answer |-> o, run |-> k]
           d == req[n].id
<1>1. /\ TypeOK /\ up /\ req[n].answer = "starting" /\ UNCHANGED <<up, hook, crashes>>
      /\ runs' \in Leaves(n, o) /\ Answer(n, a)
      /\ row' = IF d \in Ids THEN [row EXCEPT ![d] = Outcome(o)] ELSE row
  BY DEF IInv, Started
<1>2. /\ Len(runs) \in Nat /\ DOMAIN runs = 1..Len(runs) /\ Len(req) \in Nat
      /\ DOMAIN req = 1..Len(req) /\ \A i \in DOMAIN runs : runs[i].by \in DOMAIN req
      /\ k \in Nat
  BY <1>1, SeqFields
<1>3. /\ req' \in Seq(Request) /\ Len(req') = Len(req) /\ DOMAIN req' = DOMAIN req
      /\ \A m \in DOMAIN req : req'[m].id = req[m].id /\ (m # n => req'[m] = req[m])
      /\ req'[n].answer = o /\ req'[n].run = k
  <2>1. a.answer \in Phases \cup Answers /\ a.run \in Nat
    BY <1>2 DEF Answers
  <2> QED BY <1>1, <2>1, Answered
<1>4. /\ Outcome(o) \in Row /\ Outcome(o).run = k
      /\ Outcome(o).status = IF o = "failed" THEN "none" ELSE o
  BY <1>2 DEF Outcome, NoRow, Row
<1>5. /\ d \in Ids => row'[d] = Outcome(o)
      /\ \A e \in Ids : e # d => row'[e] = row[e]
      /\ row' \in [Ids -> Row]
  BY <1>1, <1>4 DEF TypeOK
<1>6. /\ runs' \in Seq(Created')
      /\ \A i \in DOMAIN runs' : \/ i \in DOMAIN runs /\ runs'[i] = runs[i]
                                 \/ o = "accepted" /\ i = k /\ runs'[i].by = n
                                 \/ ~runs'[i].begun
  <2>1. CASE o = "accepted"
    <3>1. runs' = Append(runs, [by |-> n, begun |-> TRUE])
      BY <1>1, <2>1 DEF Leaves
    <3>2. TypeOK /\ TRUE \in BOOLEAN /\ n \in DOMAIN req /\ Len(req') = Len(req)
      BY <1>1, <1>3
    <3>3. /\ runs' \in Seq(Created') /\ DOMAIN runs' = 1..(Len(runs) + 1)
          /\ runs'[Len(runs) + 1] = [by |-> n, begun |-> TRUE]
          /\ \A i \in DOMAIN runs : runs'[i] = runs[i]
      BY <3>1, <3>2, RunAdded
    <3> QED BY <1>2, <2>1, <3>3
  <2>2. CASE runs' = runs
    BY <1>1, <1>3, <2>2, RunsKeepPlace
  <2>3. CASE runs' = Append(runs, [by |-> n, begun |-> FALSE])
    <3>1. TypeOK /\ FALSE \in BOOLEAN /\ n \in DOMAIN req /\ Len(req') = Len(req)
      BY <1>1, <1>3
    <3>2. /\ runs' \in Seq(Created') /\ DOMAIN runs' = 1..(Len(runs) + 1)
          /\ runs'[Len(runs) + 1] = [by |-> n, begun |-> FALSE]
          /\ \A i \in DOMAIN runs : runs'[i] = runs[i]
      BY <2>3, <3>1, RunAdded
    <3> QED BY <1>2, <3>2
  <2> QED BY <1>1, <2>1, <2>2, <2>3 DEF Leaves
<1>7. TypeOK'
  BY <1>1, <1>3, <1>5, <1>6 DEF TypeOK
<1> HIDE DEF a, k
<1>8. d \in Ids => /\ row[d].status = "pending"
                   /\ \A m \in DOMAIN req : req[m].id = d =>
                         /\ req[m].answer \notin {"accepted", "replayed", "refused"}
                         /\ req[m].answer = "starting" => m = n
  BY <1>1 DEF IInv, ToldByRow, OwnersApart, Accepts
<1>9. ToldByRow'
  <2> SUFFICES ASSUME NEW m \in DOMAIN req, req[m].id \in Ids
               PROVE  /\ req'[m].answer \in {"accepted", "replayed"} =>
                            /\ row'[req[m].id].status \in {"accepted", "legacy"}
                            /\ row'[req[m].id].run = req'[m].run
                      /\ req'[m].answer = "refused" => row'[req[m].id].status = "refused"
    BY <1>3 DEF ToldByRow, Accepts
  <2>1. CASE m = n
    BY <1>3, <1>4, <1>5, <2>1
  <2>2. CASE m # n /\ req[m].id = d
    BY <1>3, <1>8, <2>2
  <2>3. CASE m # n /\ req[m].id # d
    BY <1>3, <1>5, <2>3 DEF IInv, ToldByRow, Accepts
  <2> QED BY <2>1, <2>2, <2>3
<1>10. OwnersApart'
  <2>1. \A m \in DOMAIN req : req'[m].answer = "starting" =>
            req'[m] = req[m] /\ (req[m].id \in Ids => req[m].id # d)
    BY <1>3, <1>8
  <2>2. \A m \in DOMAIN req' : req'[m].answer = "starting" /\ req'[m].id \in Ids =>
            row'[req'[m].id].status = "pending"
    BY <1>3, <1>5, <2>1 DEF IInv, OwnersApart
  <2>3. ASSUME NEW m \in DOMAIN req', NEW j \in DOMAIN req',
               req'[m].answer = "starting", req'[j].answer = "starting",
               req'[m].id = req'[j].id, req'[m].id \in Ids
        PROVE  m = j
    BY <1>3, <2>1, <2>3 DEF IInv, OwnersApart
  <2> QED BY <2>2, <2>3 DEF OwnersApart
<1>11. RunsOnRows'
  <2> SUFFICES ASSUME crashes = 0 PROVE RunsOnRows'
    BY <1>1 DEF RunsOnRows
  <2>1. \A i \in DOMAIN runs : runs[i].begun /\ req[runs[i].by].id \in Ids =>
            /\ req[runs[i].by].id # d
            /\ row[req[runs[i].by].id].status = "accepted" /\ row[req[runs[i].by].id].run = i
    BY <1>8 DEF IInv, RunsOnRows
  <2> SUFFICES ASSUME NEW i \in DOMAIN runs', runs'[i].begun, req'[runs'[i].by].id \in Ids
               PROVE  /\ row'[req'[runs'[i].by].id].status = "accepted"
                      /\ row'[req'[runs'[i].by].id].run = i
    BY <1>1 DEF RunsOnRows
  <2>2. CASE i \in DOMAIN runs /\ runs'[i] = runs[i]
    BY <1>2, <1>3, <1>5, <2>1, <2>2
  <2>3. CASE o = "accepted" /\ i = k /\ runs'[i].by = n
    BY <1>3, <1>4, <1>5, <2>3
  <2> QED BY <1>6, <2>2, <2>3
<1>12. NoneWaits'
  BY <1>1 DEF NoneWaits
<1> QED BY <1>7, <1>9, <1>10, <1>11, <1>12 DEF IInv

\* No row changes, and no delivery is told anything any more.
LEMMA CrashKeeps == ASSUME IInv, Crash PROVE IInv'
<1>1. /\ TypeOK /\ crashes' = crashes + 1 /\ up' = FALSE /\ UNCHANGED <<hook, row>>
      /\ req' = [n \in DOMAIN req |->
             IF req[n].answer \in Phases THEN [req[n] EXCEPT !.answer = "cut"] ELSE req[n]]
  BY DEF IInv, Crash
<1>2. /\ Len(req) \in Nat /\ DOMAIN req = 1..Len(req)
      /\ \A n \in DOMAIN req : req[n] \in Request
  BY <1>1, SeqFields
<1>3. \A n \in DOMAIN req : /\ req'[n] \in Request
                            /\ req'[n] = req[n] \/ req'[n].answer = "cut"
                            /\ req'[n].id = req[n].id /\ req'[n].answer \notin Phases
  <2> SUFFICES ASSUME NEW n \in DOMAIN req
               PROVE  /\ req'[n] \in Request
                      /\ req'[n] = req[n] \/ req'[n].answer = "cut"
                      /\ req'[n].id = req[n].id /\ req'[n].answer \notin Phases
    OBVIOUS
  <2>1. CASE req[n].answer \in Phases
    <3>1. req'[n] = [req[n] EXCEPT !.answer = "cut"] /\ req[n] \in Request
      BY <1>1, <1>2, <2>1
    <3>2. req'[n] \in Request /\ req'[n].answer = "cut" /\ req'[n].id = req[n].id
      BY <3>1 DEF Request
    <3> QED BY <3>2 DEF Phases
  <2>2. CASE req[n].answer \notin Phases
    BY <1>1, <1>2, <2>2
  <2> QED BY <2>1, <2>2
<1>4. req' \in Seq(Request) /\ Len(req') = Len(req) /\ DOMAIN req' = DOMAIN req
  <2>1. req' \in [1..Len(req) -> Request]
    BY <1>1, <1>2, <1>3
  <2> QED BY <1>2, <2>1, SeqDef, LenProperties
<1>5. runs' \in Seq(Created')
  BY <1>1, <1>4, RunsKeepPlace, RunAdded DEF Crash
<1>6. TypeOK'
  <2>1. up' \in BOOLEAN
    BY <1>1
  <2>2. crashes' \in Nat
    BY <1>1 DEF TypeOK
  <2> QED BY <1>1, <1>4, <1>5, <2>1, <2>2 DEF TypeOK
<1>7. ToldByRow'
  BY <1>1, <1>3, <1>4 DEF IInv, ToldByRow, Accepts
<1>8. OwnersApart' /\ NoneWaits'
  BY <1>3, <1>4 DEF OwnersApart, NoneWaits, Phases
<1>9. RunsOnRows'
  <2>1. crashes' # 0
    BY <1>1 DEF TypeOK
  <2> QED BY <2>1 DEF RunsOnRows
<1> QED BY <1>6, <1>7, <1>8, <1>9 DEF IInv

\* Only pending rows are deleted, of which nothing was told and nobody is the owner.
LEMMA BootKeeps == ASSUME IInv, Boot PROVE IInv'
<1>1. /\ TypeOK /\ up' = TRUE /\ UNCHANGED <<hook, req, runs, crashes>>
      /\ row' = [d \in Ids |-> IF row[d].status = "pending" THEN NoRow ELSE row[d]]
  BY DEF IInv, Boot, RowsAtBoot
<1>2. \A d \in Ids : row'[d] = row[d] \/ (row[d].status = "pending" /\ row'[d] = NoRow)
  BY <1>1
<1>3. row' \in [Ids -> Row]
  <2>1. NoRow \in Row
    BY DEF NoRow, Row
  <2> QED BY <1>1, <2>1 DEF TypeOK
<1>4. TypeOK'
  <2>1. up' \in BOOLEAN
    BY <1>1
  <2> QED BY <1>1, <1>3, <2>1 DEF TypeOK, Created
<1>5. ToldByRow'
  BY <1>1, <1>2 DEF IInv, ToldByRow, Accepts
<1>6. ~up
  BY DEF Boot
<1>7. \A n \in DOMAIN req : req[n].answer \notin Phases
  BY <1>6 DEF IInv, NoneWaits
<1>8. OwnersApart' /\ NoneWaits'
  <2>1. \A n \in DOMAIN req' : req'[n].answer # "starting"
    BY <1>1, <1>7 DEF Phases
  <2> QED BY <1>1, <2>1 DEF OwnersApart, NoneWaits
<1>9. RunsOnRows'
  <2>1. crashes # 0
    BY <1>6 DEF IInv, RunsOnRows
  <2> QED BY <1>1, <2>1 DEF RunsOnRows
<1> QED BY <1>4, <1>5, <1>8, <1>9 DEF IInv

\* The webhooks' own rows are in no part of the invariant but the type.
LEMMA HookKeeps ==
    ASSUME IInv, UNCHANGED <<up, row, req, runs, crashes>>, hook' \in [Hooks -> HookStates]
    PROVE  IInv'
<1>1. TypeOK'
  BY DEF IInv, TypeOK, Created
<1>2. ToldByRow'
  BY DEF IInv, ToldByRow, Accepts
<1>3. OwnersApart' /\ NoneWaits'
  BY DEF IInv, OwnersApart, NoneWaits
<1>4. RunsOnRows'
  BY DEF IInv, RunsOnRows
<1> QED BY <1>1, <1>2, <1>3, <1>4 DEF IInv

LEMMA SetHookKeeps ==
    ASSUME IInv, NEW h \in Hooks, Create(h) \/ Claim(h) \/ Release(h) \/ Deregister(h) \/ Delete(h)
    PROVE  IInv'
<1>1. PICK to \in HookStates : \E from \in SUBSET HookStates : SetHook(h, from, to)
  BY DEF Create, Claim, Release, Deregister, Delete, HookStates
<1>2. UNCHANGED <<up, row, req, runs, crashes>> /\ hook' = [hook EXCEPT ![h] = to]
  BY <1>1 DEF SetHook
<1>3. hook' \in [Hooks -> HookStates]
  BY <1>2 DEF IInv, TypeOK
<1> QED BY <1>2, <1>3, HookKeeps

LEMMA NextKeeps == ASSUME IInv, [Next]_vars PROVE IInv'
<1>1. CASE \E h \in Hooks : Create(h) \/ Claim(h) \/ Release(h) \/ Deregister(h) \/ Delete(h)
  BY <1>1, SetHookKeeps
<1>2. CASE \E h \in Hooks, d \in Ids \cup {NoId} : Receive(h, d)
  BY <1>2, ReceiveKeeps
<1>3. CASE \E n \in DOMAIN req : Resolved(n)
  BY <1>3, ResolvedKeeps
<1>4. CASE \E n \in DOMAIN req : StartAnswers(n)
  BY <1>4, StartedKeeps DEF StartAnswers
<1>5. CASE Crash \/ Boot
  BY <1>5, CrashKeeps, BootKeeps
<1>6. CASE UNCHANGED vars
  BY <1>6, HookKeeps DEF vars, IInv, TypeOK
<1> QED BY <1>1, <1>2, <1>3, <1>4, <1>5, <1>6 DEF Next

-----------------------------------------------------------------------------
LEMMA AlwaysInvariant == Spec => []IInv
<1>1. Init => IInv
  BY InitInvariant
<1>2. IInv /\ [Next]_vars => IInv'
  BY NextKeeps
<1> QED BY <1>1, <1>2, PTL DEF Spec

\* Deliveries, rows and runs keep their shape; an accepted row names a run, and no other row
\* does (webhook-registry.ts, the columns of webhook_deliveries).
THEOREM DeliveriesTypeCorrect == Spec => []TypeOK
<1>1. IInv => TypeOK
  BY DEF IInv
<1> QED BY <1>1, AlwaysInvariant, PTL

\* All deliveries of one id are told of the same run or are all refused, through races and
\* crashes (webhook-registry.ts _replayFromRow).
THEOREM IdsAnswerAlike == Spec => []AnswersAgree
<1>1. IInv => AnswersAgree
  BY DEF IInv, ToldByRow, AnswersAgree
<1> QED BY <1>1, AlwaysInvariant, PTL

\* Until the engine crashes, the run that start() executes for an id is the one its row names
\* and retries are told of, so that there is one at most, however many deliveries race and however
\* often start() has thrown after it made a run (webhook-registry.ts deliver, run-manager.ts start).
THEOREM IdsBeginOneRun == Spec => []BegunOnceUntilCrash
<1>1. IInv => BegunOnceUntilCrash
  BY DEF IInv, RunsOnRows, BegunOnceUntilCrash, Begun
<1> QED BY <1>1, AlwaysInvariant, PTL

-----------------------------------------------------------------------------
\* A row whose outcome is open has a delivery at work on it; that there is one only is in IInv.
PendingHasOwner ==
    up => \A d \in Ids : row[d].status = "pending" =>
              \E n \in DOMAIN req : req[n].id = d /\ req[n].answer = "starting"

\* Where no row becomes pending it is enough that the owners go on waiting.
LEMMA OwnersWait ==
    ASSUME PendingHasOwner, up,
           \A d \in Ids : row'[d].status = "pending" => row[d].status = "pending",
           \A d \in Ids : row'[d].status = "pending" =>
              \A m \in DOMAIN req : req[m].id = d /\ req[m].answer = "starting" =>
                 m \in DOMAIN req' /\ req'[m].id = d /\ req'[m].answer = "starting"
    PROVE  PendingHasOwner'
<1>1. ASSUME NEW d \in Ids, row'[d].status = "pending"
      PROVE  \E n \in DOMAIN req' : req'[n].id = d /\ req'[n].answer = "starting"
  <2>1. PICK m \in DOMAIN req : req[m].id = d /\ req[m].answer = "starting"
    BY <1>1 DEF PendingHasOwner
  <2> QED BY <1>1, <2>1
<1> QED BY <1>1 DEF PendingHasOwner

LEMMA ReceiveOwned ==
    ASSUME IInv, PendingHasOwner, NEW h \in Hooks, NEW d \in Ids \cup {NoId}, Receive(h, d)
    PROVE  PendingHasOwner'
<1>1. PICK r : req' = Append(req, r)
  BY DEF Receive
<1> DEFINE Any == Request \cup {r}
<1>2. Len(req) \in Nat /\ DOMAIN req = 1..Len(req) /\ req \in [1..Len(req) -> Any]
  <2>1. req \in Seq(Request)
    BY DEF IInv, TypeOK
  <2> QED BY <2>1, LenProperties
<1>3. \A m \in DOMAIN req : m \in DOMAIN req' /\ req'[m] = req[m]
  <2> HIDE DEF Any
  <2>1. req \in Seq(Any)
    BY <1>2, SeqDef
  <2>2. r \in Any
    BY DEF Any
  <2>3. /\ req' \in Seq(Any) /\ Len(req') = Len(req) + 1
        /\ \A m \in 1..Len(req) : req'[m] = req[m]
    BY <1>1, <2>1, <2>2, AppendProperties
  <2>4. DOMAIN req' = 1..(Len(req) + 1)
    BY <2>3, LenProperties
  <2> QED BY <1>2, <2>3, <2>4
<1>4. up /\ row' = row
  BY DEF Receive
<1> QED BY <1>3, <1>4, OwnersWait

LEMMA ResolvedOwned ==
    ASSUME IInv, PendingHasOwner, NEW n \in DOMAIN req, Resolved(n) PROVE PendingHasOwner'
<1>1. TypeOK /\ up /\ up' = up /\ req[n].answer = "resolving"
  BY DEF IInv, Resolved
<1>2. ASSUME NEW a, Answer(n, a)
      PROVE  /\ DOMAIN req' = DOMAIN req /\ req'[n].id = req[n].id
             /\ req'[n].answer = a.answer
             /\ \A m \in DOMAIN req : m # n => req'[m] = req[m]
  <2>1. req[n] \in Request /\ req' = [req EXCEPT ![n] = [[req[n] EXCEPT !.answer = a.answer] EXCEPT !.run = a.run]]
    BY <1>1, <1>2, SeqFields DEF Answer
  <2> QED BY <2>1 DEF Request
<1>3. ASSUME NEW a, Answer(n, a), row' = row PROVE PendingHasOwner'
  <2>1. \A m \in DOMAIN req : req[m].answer = "starting" => m \in DOMAIN req' /\ req'[m] = req[m]
    BY <1>1, <1>2, <1>3
  <2> QED BY <1>1, <1>3, <2>1, OwnersWait
<1>4. CASE req[n].id \in Ids /\ ~Known(req[n].id) /\ ClaimedId(n, req[n].id)
  <2> DEFINE d == req[n].id
             a == [answer |-> "starting", run |-> 0]
  <2>1. row' = [row EXCEPT ![d] = [status |-> "pending", run |-> 0]] /\ Answer(n, a)
    BY <1>4 DEF ClaimedId
  <2>2. /\ DOMAIN req' = DOMAIN req /\ req'[n].id = d /\ req'[n].answer = "starting"
        /\ \A m \in DOMAIN req : m # n => req'[m] = req[m]
    BY <1>2, <2>1
  <2>3. \A e \in Ids : e # d => row'[e] = row[e]
    BY <1>1, <2>1 DEF TypeOK
  <2>4. ASSUME NEW e \in Ids, row'[e].status = "pending"
        PROVE  \E m \in DOMAIN req' : req'[m].id = e /\ req'[m].answer = "starting"
    <3>1. CASE e = d
      BY <2>2, <3>1
    <3>2. CASE e # d
      <4>1. PICK m \in DOMAIN req : req[m].id = e /\ req[m].answer = "starting"
        BY <1>1, <2>3, <2>4, <3>2 DEF PendingHasOwner
      <4> QED BY <2>2, <3>2, <4>1
    <3> QED BY <3>1, <3>2
  <2> QED BY <2>4 DEF PendingHasOwner
<1>5. CASE req[n].id \in Ids /\ Known(req[n].id) /\ ClaimedId(n, req[n].id)
  BY <1>3, <1>5 DEF ClaimedId
<1> QED BY <1>3, <1>4, <1>5 DEF Resolved

LEMMA StartedOwned ==
    ASSUME IInv, PendingHasOwner, NEW n \in DOMAIN req, NEW o \in {"accepted", "refused", "failed"},
           Started(n, o)
    PROVE  PendingHasOwner'
<1> DEFINE d == req[n].id
           a == [answer |-> o, run |-> IF o = "accepted" THEN Len(runs) + 1 ELSE 0]
<1>1. /\ TypeOK /\ up /\ Answer(n, a)
      /\ row' = IF d \in Ids THEN [row EXCEPT ![d] = Outcome(o)] ELSE row
  BY DEF IInv, Started
<1>2. DOMAIN req' = DOMAIN req /\ \A m \in DOMAIN req : m # n => req'[m] = req[m]
  <2>1. req' = [req EXCEPT ![n] = [[req[n] EXCEPT !.answer = a.answer] EXCEPT !.run = a.run]]
    BY <1>1, SeqFields DEF Answer
  <2> QED BY <2>1
<1> HIDE DEF a
<1>3. Outcome(o).status # "pending"
  BY DEF Outcome, NoRow
<1>4. \A e \in Ids : (e = d => row'[e].status # "pending") /\ (e # d => row'[e] = row[e])
  BY <1>1, <1>3 DEF TypeOK
<1>5. \A e \in Ids : row'[e].status = "pending" => row[e].status = "pending" /\ e # d
  BY <1>4
<1> QED BY <1>1, <1>2, <1>5, OwnersWait

LEMMA NextOwned == ASSUME IInv, PendingHasOwner, [Next]_vars PROVE PendingHasOwner'
<1>1. CASE UNCHANGED <<up, row, req>>
  BY <1>1 DEF PendingHasOwner
<1>2. ASSUME NEW h \in Hooks, Create(h) \/ Claim(h) \/ Release(h) \/ Deregister(h) \/ Delete(h)
      PROVE  PendingHasOwner'
  BY <1>1, <1>2 DEF Create, Claim, Release, Deregister, Delete, SetHook
<1>3. CASE Crash
  BY <1>3 DEF Crash, PendingHasOwner
<1>4. CASE Boot
  BY <1>4 DEF Boot, RowsAtBoot, NoRow, PendingHasOwner
<1>5. CASE UNCHANGED vars
  BY <1>1, <1>5 DEF vars
<1> QED BY <1>2, <1>3, <1>4, <1>5, ReceiveOwned, ResolvedOwned, StartedOwned DEF Next, StartAnswers

LEMMA OneOwner == ASSUME IInv, PendingHasOwner PROVE PendingIsOwned
<1> SUFFICES ASSUME up, NEW d \in Ids
             PROVE  Cardinality({n \in DOMAIN req : req[n].id = d /\ req[n].answer = "starting"})
                        = IF row[d].status = "pending" THEN 1 ELSE 0
  BY DEF PendingIsOwned
<1> DEFINE owners == {n \in DOMAIN req : req[n].id = d /\ req[n].answer = "starting"}
<1>1. CASE row[d].status = "pending"
  <2>1. PICK n \in DOMAIN req : req[n].id = d /\ req[n].answer = "starting"
    BY <1>1 DEF PendingHasOwner
  <2>2. owners = {n}
    BY <2>1 DEF IInv, OwnersApart
  <2> QED BY <1>1, <2>2, FS_Singleton
<1>2. CASE row[d].status # "pending"
  <2>1. owners = {}
    BY <1>2 DEF IInv, OwnersApart
  <2> QED BY <1>2, <2>1, FS_EmptySet
<1> QED BY <1>1, <1>2

\* An id is said to be in progress only while exactly one delivery of it waits for start(),
\* through races, failures, crashes and boots (webhook-registry.ts deliver).
THEOREM PendingIdsAreOwned == Spec => []PendingIsOwned
<1>1. Init => PendingHasOwner
  BY DEF Init, NoRow, PendingHasOwner
<1>2. IInv /\ PendingHasOwner /\ [Next]_vars => PendingHasOwner'
  BY NextOwned
<1>3. IInv /\ PendingHasOwner => PendingIsOwned
  BY OneOwner
<1> QED BY <1>1, <1>2, <1>3, AlwaysInvariant, PTL DEF Spec

-----------------------------------------------------------------------------
(* The contract of module Verdicts.                                        *)

\* The next run has a number no row names yet.
RunsKnown == \A d \in Ids : row[d].run <= Len(runs)

LEMMA RowFields ==
    ASSUME TypeOK, NEW d \in Ids
    PROVE  /\ row[d].status \in {"none", "legacy", "pending", "refused", "accepted"}
           /\ row[d].run \in Nat /\ (row[d].status # "accepted" => row[d].run = 0)
           /\ row[d].status = "accepted" => row[d].run # 0
<1>1. row[d] \in Row
  BY DEF TypeOK
<1> QED BY <1>1 DEF Row

LEMMA RunsStayKnown == ASSUME IInv, RunsKnown, [Next]_vars PROVE RunsKnown'
<1>1. TypeOK /\ TypeOK'
  BY NextKeeps DEF IInv
<1>2. Len(runs) \in Nat /\ \A d \in Ids : row[d].run \in Nat
  BY <1>1, SeqFields, RowFields
<1>3. CASE row' = row /\ runs' = runs
  BY <1>3 DEF RunsKnown
<1>4. ASSUME NEW n \in DOMAIN req, Resolved(n) PROVE RunsKnown'
  <2>1. runs' = runs /\ \A d \in Ids : row'[d] = row[d] \/ row'[d].run = 0
    BY <1>1, <1>4 DEF Resolved, ClaimedId, TypeOK
  <2> QED BY <1>2, <2>1 DEF RunsKnown
<1>5. ASSUME NEW n \in DOMAIN req, NEW o \in {"accepted", "refused", "failed"}, Started(n, o)
      PROVE  RunsKnown'
  <2>1. /\ Len(runs') \in {Len(runs), Len(runs) + 1}
        /\ o = "accepted" => Len(runs') = Len(runs) + 1
        /\ Outcome(o).run = IF o = "accepted" THEN Len(runs) + 1 ELSE 0
    <3>1. \A b \in BOOLEAN :
              runs' = Append(runs, [by |-> n, begun |-> b]) => Len(runs') = Len(runs) + 1
      <4>1. Len(req') = Len(req)
        BY <1>1, <1>5 DEF Started, Answer, TypeOK
      <4> QED BY <1>1, <4>1, RunAdded
    <3> QED BY <1>5, <3>1 DEF Started, Leaves, Outcome, NoRow
  <2>2. \A d \in Ids : row'[d] = row[d] \/ row'[d] = Outcome(o)
    BY <1>1, <1>5 DEF Started, TypeOK
  <2> QED BY <1>2, <2>1, <2>2 DEF RunsKnown
<1>6. CASE Crash
  <2>1. /\ row' = row
        /\ \/ runs' = runs
           \/ \E n \in DOMAIN req, b \in BOOLEAN : runs' = Append(runs, [by |-> n, begun |-> b])
    BY <1>6 DEF Crash
  <2>2. Len(runs) <= Len(runs')
    <3>1. ASSUME NEW n \in DOMAIN req, NEW b \in BOOLEAN,
                 runs' = Append(runs, [by |-> n, begun |-> b])
          PROVE  Len(runs) <= Len(runs')
      <4>1. runs \in Seq(Created) /\ [by |-> n, begun |-> b] \in Created
        BY <1>1, SeqFields DEF TypeOK, Created
      <4>2. Len(runs') = Len(runs) + 1
        BY <3>1, <4>1, AppendProperties
      <4> QED BY <1>2, <4>2
    <3>2. CASE runs' = runs
      BY <1>2, <3>2
    <3> QED BY <2>1, <3>1, <3>2
  <2>3. Len(runs') \in Nat
    BY <1>1, LenProperties DEF TypeOK
  <2> QED BY <1>2, <2>1, <2>2, <2>3 DEF RunsKnown
<1>7. CASE Boot
  <2>1. runs' = runs /\ \A d \in Ids : row'[d] = row[d] \/ row'[d].run = 0
    BY <1>7 DEF Boot, RowsAtBoot, NoRow
  <2> QED BY <1>2, <2>1 DEF RunsKnown
<1> QED BY <1>3, <1>4, <1>5, <1>6, <1>7
        DEF Next, vars, StartAnswers, Create, Claim, Release, Deregister, Delete, SetHook, Receive

\* What a row says of its id.
LEMMA FateOf ==
    ASSUME NEW d \in Ids
    PROVE  /\ row[d].status \in {"accepted", "legacy"} => fate[d] = Contract!Accepted(row[d].run)
           /\ row[d].status = "refused" => fate[d] = Contract!Refused
           /\ row[d].status \notin {"accepted", "legacy", "refused"} => fate[d] = Contract!Open
BY DEF fate, Contract!Accepted, Contract!Refused, Contract!Open

\* What a delivery whose turn it is may be told: nothing, or what its id has come to.
LEMMA OneIsTold ==
    ASSUME NEW n, n \in DOMAIN req => ~Tells(n), n \in DOMAIN req',
           \A m : m \in DOMAIN req' <=> m \in DOMAIN req \/ m = n,
           \A m \in DOMAIN req : m # n => req'[m] = req[m],
           n \in DOMAIN req => req'[n].id = req[n].id
    PROVE  /\ ~Tells(n)' \/ req'[n].id \notin Ids => told' = told
           /\ Tells(n)' /\ req'[n].id \in Ids =>
                 told' = [told EXCEPT ![req'[n].id] = @ \cup {Verdict(n)'}]
<1>1. \A m \in DOMAIN req : m # n => (Tells(m)' <=> Tells(m)) /\ Verdict(m)' = Verdict(m)
  BY DEF Tells, Accepts, Verdict
<1>2. \A d \in Ids :
        told'[d] = told[d] \cup (IF Tells(n)' /\ req'[n].id = d THEN {Verdict(n)'} ELSE {})
  <2> SUFFICES ASSUME NEW d \in Ids
               PROVE  {Verdict(m)' : m \in {j \in DOMAIN req' : req'[j].id = d /\ Tells(j)'}}
                        = {Verdict(m) : m \in {j \in DOMAIN req : req[j].id = d /\ Tells(j)}}
                            \cup (IF Tells(n)' /\ req'[n].id = d THEN {Verdict(n)'} ELSE {})
    BY DEF told
  <2>1. {j \in DOMAIN req' : req'[j].id = d /\ Tells(j)'}
          = {j \in DOMAIN req : req[j].id = d /\ Tells(j)}
               \cup (IF Tells(n)' /\ req'[n].id = d THEN {n} ELSE {})
    BY <1>1
  <2>2. \A j \in DOMAIN req : req[j].id = d /\ Tells(j) => j # n /\ Verdict(j)' = Verdict(j)
    BY <1>1
  <2> QED BY <2>1, <2>2
<1>3. /\ told = [d \in Ids |-> told[d]] /\ told' = [d \in Ids |-> told'[d]]
  BY DEF told
<1>4. CASE ~Tells(n)' \/ req'[n].id \notin Ids
  <2>1. \A d \in Ids : told'[d] = told[d]
    BY <1>2, <1>4
  <2> QED BY <1>3, <1>4, <2>1
<1>5. CASE Tells(n)' /\ req'[n].id \in Ids
  <2>1. \A d \in Ids : told'[d] = IF d = req'[n].id THEN told[d] \cup {Verdict(n)'} ELSE told[d]
    BY <1>2, <1>5
  <2> QED BY <1>3, <1>5, <2>1
<1> QED BY <1>4, <1>5

\* A delivery that is answered from the row repeats the verdict.
LEMMA RepeatsVerdict ==
    ASSUME TypeOK, UNCHANGED row, NEW n, n \in DOMAIN req => ~Tells(n), n \in DOMAIN req',
           \A m : m \in DOMAIN req' <=> m \in DOMAIN req \/ m = n,
           \A m \in DOMAIN req : m # n => req'[m] = req[m],
           n \in DOMAIN req => req'[n].id = req[n].id,
           req'[n].id \in Ids =>
              /\ req'[n].answer \in {"accepted", "replayed"} =>
                    /\ row[req'[n].id].status \in {"accepted", "legacy"}
                    /\ row[req'[n].id].run = req'[n].run
              /\ req'[n].answer = "refused" => row[req'[n].id].status = "refused"
    PROVE  [Contract!VNext]_(Contract!vvars)
<1> DEFINE d == req'[n].id
<1>1. fate' = fate
  BY DEF fate
<1>2. CASE ~Tells(n)' \/ d \notin Ids
  BY <1>1, <1>2, OneIsTold DEF Contract!vvars
<1>3. CASE Tells(n)' /\ d \in Ids
  <2>1. told' = [told EXCEPT ![d] = @ \cup {Verdict(n)'}]
    BY <1>3, OneIsTold
  <2>2. fate[d] = Verdict(n)' /\ fate[d] # Contract!Open
    <3>1. CASE req'[n].answer \in {"accepted", "replayed"}
      <4>1. fate[d] = Contract!Accepted(req'[n].run)
        BY <1>3, <3>1, FateOf
      <4> QED BY <3>1, <4>1 DEF Verdict, Accepts, Contract!Accepted, Contract!Open
    <3>2. CASE req'[n].answer = "refused"
      <4>1. fate[d] = Contract!Refused
        BY <1>3, <3>2, FateOf
      <4> QED BY <3>2, <4>1 DEF Verdict, Accepts, Contract!Refused, Contract!Open
    <3> QED BY <1>3, <3>1, <3>2 DEF Tells, Accepts
  <2> HIDE DEF d
  <2>3. Contract!Repeat(d)
    BY <1>1, <2>1, <2>2 DEF Contract!Repeat, Contract!Tell
  <2> QED BY <1>3, <2>3 DEF Contract!VNext
<1> QED BY <1>2, <1>3

LEMMA ReceiveByContract ==
    ASSUME IInv, NEW h \in Hooks, NEW d \in Ids \cup {NoId}, Receive(h, d)
    PROVE  [Contract!VNext]_(Contract!vvars)
<1>1. PICK signed \in BOOLEAN :
          req' = Append(req, [hook |-> h, id |-> d, answer |-> First(h, d, signed).answer,
                              run |-> First(h, d, signed).run])
  BY DEF Receive
<1> DEFINE a == First(h, d, signed)
           n == Len(req) + 1
<1>2. TypeOK /\ UNCHANGED row
  BY DEF IInv, Receive
<1>3. Len(req) \in Nat /\ DOMAIN req = 1..Len(req)
  BY <1>2, SeqFields
<1>4. /\ DOMAIN req' = 1..n /\ req'[n].id = d /\ req'[n].answer = a.answer /\ req'[n].run = a.run
      /\ \A m \in DOMAIN req : req'[m] = req[m]
  BY <1>1, <1>2, <1>3 DEF TypeOK
<1>5. d \in Ids =>
        /\ a.answer \in {"accepted", "replayed"} =>
              row[d].status \in {"accepted", "legacy"} /\ row[d].run = a.run
        /\ a.answer = "refused" => row[d].status = "refused"
  <2>1. CASE a = Replay(d) /\ Known(d)
    BY <1>2, <2>1, ReplaySays
  <2>2. CASE a.answer \in {"unknown", "disabled", "unsigned", "unclaimed", "resolving"}
    BY <2>2
  <2> QED BY <2>1, <2>2 DEF First
<1>6. n \notin DOMAIN req /\ n \in DOMAIN req' /\ \A m : m \in DOMAIN req' <=> m \in DOMAIN req \/ m = n
  BY <1>3, <1>4
<1> HIDE DEF a, n
<1> QED BY <1>2, <1>4, <1>5, <1>6, RepeatsVerdict

\* A step that leaves every verdict, and all that was told, as they were.
LEMMA NothingTold ==
    ASSUME NEW n \in DOMAIN req, ~Tells(n), ~Tells(n)', DOMAIN req' = DOMAIN req,
           \A m \in DOMAIN req : req'[m].id = req[m].id /\ (m # n => req'[m] = req[m]),
           \A d \in Ids : fate'[d] = fate[d]
    PROVE  UNCHANGED Contract!vvars
<1>1. told' = told
  BY OneIsTold
<1>2. fate = [d \in Ids |-> fate[d]] /\ fate' = [d \in Ids |-> fate'[d]]
  BY DEF fate
<1> QED BY <1>1, <1>2 DEF Contract!vvars

LEMMA ResolvedByContract ==
    ASSUME IInv, NEW n \in DOMAIN req, Resolved(n)
    PROVE  [Contract!VNext]_(Contract!vvars)
<1>1. TypeOK /\ req[n].answer = "resolving" /\ ~Tells(n)
  BY DEF IInv, Resolved, Tells, Accepts
<1>2. ASSUME NEW a, a.answer \in Phases \cup Answers, a.run \in Nat, Answer(n, a), UNCHANGED row,
             req[n].id \in Ids =>
                /\ a.answer \in {"accepted", "replayed"} =>
                      row[req[n].id].status \in {"accepted", "legacy"} /\ row[req[n].id].run = a.run
                /\ a.answer = "refused" => row[req[n].id].status = "refused"
      PROVE  [Contract!VNext]_(Contract!vvars)
  <2>1. /\ DOMAIN req' = DOMAIN req /\ req'[n].answer = a.answer /\ req'[n].run = a.run
        /\ \A m \in DOMAIN req : req'[m].id = req[m].id /\ (m # n => req'[m] = req[m])
    BY <1>1, <1>2, Answered
  <2> QED BY <1>1, <1>2, <2>1, RepeatsVerdict
<1>3. CASE Answer(n, [answer |-> "unresolved", run |-> 0]) /\ UNCHANGED row
  BY <1>2, <1>3 DEF Answers, Refusals
<1>4. CASE req[n].id = NoId /\ Answer(n, [answer |-> "starting", run |-> 0]) /\ UNCHANGED row
  BY <1>2, <1>4, WebhookAssumption DEF Phases
<1>5. CASE req[n].id \in Ids /\ ClaimedId(n, req[n].id)
  <2> DEFINE d == req[n].id
  <2>1. CASE Known(d)
    <3>1. Answer(n, Replay(d)) /\ UNCHANGED row
      BY <1>5, <2>1 DEF ClaimedId
    <3>2. /\ Replay(d).answer \in Answers /\ Replay(d).run \in Nat
          /\ Replay(d).answer \in {"accepted", "replayed"} =>
                row[d].status \in {"accepted", "legacy"} /\ row[d].run = Replay(d).run
          /\ Replay(d).answer = "refused" => row[d].status = "refused"
      BY <1>1, <1>5, <2>1, ReplaySays
    <3> QED BY <1>2, <3>1, <3>2
  <2>2. CASE ~Known(d)
    <3>1. /\ row' = [row EXCEPT ![d] = [status |-> "pending", run |-> 0]]
          /\ Answer(n, [answer |-> "starting", run |-> 0])
          /\ row[d].status = "none"
      BY <1>5, <2>2 DEF ClaimedId, Known
    <3>2. /\ DOMAIN req' = DOMAIN req /\ req'[n].answer = "starting"
          /\ \A m \in DOMAIN req : req'[m].id = req[m].id /\ (m # n => req'[m] = req[m])
      BY <1>1, <3>1, Answered DEF Phases
    <3>3. \A e \in Ids : row'[e] = row[e] \/ (row'[e].status = "pending" /\ row[e].status = "none")
      BY <1>1, <1>5, <3>1 DEF TypeOK
    <3>4. \A e \in Ids : fate'[e] = fate[e]
      BY <3>3 DEF fate
    <3>5. ~Tells(n)'
      BY <3>2 DEF Tells, Accepts
    <3> QED BY <1>1, <3>2, <3>4, <3>5, NothingTold
  <2> QED BY <2>1, <2>2
<1> QED BY <1>3, <1>4, <1>5 DEF Resolved

\* start() answers: the id gets its verdict, or stays open after a transient failure.
LEMMA StartedByContract ==
    ASSUME IInv, RunsKnown, NEW n \in DOMAIN req, NEW o \in {"accepted", "refused", "failed"},
           Started(n, o)
    PROVE  [Contract!VNext]_(Contract!vvars)
<1> DEFINE k == IF o = "accepted" THEN Len(runs) + 1 ELSE 0
           a == [answer |-> o, run |-> k]
           d == req[n].id
<1>1. /\ TypeOK /\ req[n].answer = "starting" /\ ~Tells(n) /\ Answer(n, a)
      /\ row' = IF d \in Ids THEN [row EXCEPT ![d] = Outcome(o)] ELSE row
  BY DEF IInv, Started, Tells, Accepts
<1>2. k \in Nat /\ Len(runs) \in Nat
  BY <1>1, SeqFields
<1>3. /\ DOMAIN req' = DOMAIN req /\ req'[n].answer = o /\ req'[n].run = k
      /\ \A m \in DOMAIN req : req'[m].id = req[m].id /\ (m # n => req'[m] = req[m])
  <2>1. a.answer \in Phases \cup Answers /\ a.run \in Nat
    BY <1>2 DEF Answers
  <2> QED BY <1>1, <2>1, Answered
<1>4. /\ Outcome(o).run = k
      /\ Outcome(o).status = IF o = "failed" THEN "none" ELSE o
  BY DEF Outcome, NoRow
<1>5. CASE d \notin Ids
  <2>1. fate' = fate
    BY <1>1, <1>5 DEF fate
  <2>2. told' = told
    BY <1>1, <1>3, <1>5, OneIsTold
  <2> QED BY <2>1, <2>2 DEF Contract!vvars
<1>6. CASE d \in Ids
  <2>1. row[d].status = "pending" /\ fate[d] = Contract!Open
    BY <1>1, <1>6, FateOf DEF IInv, OwnersApart
  <2>2. /\ row'[d] = Outcome(o)
        /\ \A e \in Ids : e # d => row'[e] = row[e]
    BY <1>1, <1>6 DEF TypeOK
  <2>3. \A e \in Ids : e # d => fate'[e] = fate[e]
    BY <2>2 DEF fate
  <2>4. CASE o = "failed"
    <3>1. ~Tells(n)'
      BY <1>3, <2>4 DEF Tells, Accepts
    <3>2. fate'[d] = Contract!Open
      BY <1>4, <1>6, <2>2, <2>4 DEF fate, Contract!Open
    <3> QED BY <1>1, <1>3, <2>1, <2>3, <3>1, <3>2, NothingTold
  <2>5. CASE o # "failed"
    <3> DEFINE v == Verdict(n)'
    <3>1. Tells(n)'
      BY <1>3, <2>5 DEF Tells, Accepts
    <3>2. told' = [told EXCEPT ![d] = @ \cup {v}]
      BY <1>1, <1>3, <1>6, <3>1, OneIsTold
    <3>3. v = IF o = "accepted" THEN Contract!Accepted(k) ELSE Contract!Refused
      BY <1>3, <2>5 DEF Verdict, Accepts, Contract!Accepted, Contract!Refused
    <3>4. fate'[d] = v
      BY <1>4, <1>6, <2>2, <2>5, <3>3 DEF fate, Contract!Accepted, Contract!Refused
    <3>5. fate' = [fate EXCEPT ![d] = v]
      <4>1. fate = [e \in Ids |-> fate[e]] /\ fate' = [e \in Ids |-> fate'[e]]
        BY DEF fate
      <4> HIDE DEF v
      <4> QED BY <1>6, <2>3, <3>4, <4>1
    <3>6. CASE o = "accepted"
      <4>1. k \in Nat \ {0} /\ \A e \in Ids : row[e].run \in Nat /\ row[e].run < k
        BY <1>1, <1>2, <3>6, RowFields DEF RunsKnown
      <4>2. \A e \in Ids : fate[e].run = row[e].run \/ fate[e].run = 0
        BY DEF fate
      <4>3. \A e \in Ids : fate[e].run # k
        BY <4>1, <4>2
      <4> HIDE DEF k, d
      <4>4. Contract!Accept(d, k)
        BY <2>1, <3>2, <3>3, <3>5, <3>6, <4>3 DEF Contract!Accept, Contract!Decide, Contract!Tell
      <4> QED BY <1>6, <4>1, <4>4 DEF Contract!VNext
    <3>7. CASE o # "accepted"
      <4>1. Contract!Refuse(d)
        BY <2>1, <3>2, <3>3, <3>5, <3>7 DEF Contract!Refuse, Contract!Decide, Contract!Tell
      <4> QED BY <1>6, <4>1 DEF Contract!VNext
    <3> QED BY <3>6, <3>7
  <2> QED BY <2>4, <2>5
<1> QED BY <1>5, <1>6

\* A crash cuts those who wait, and a boot clears rows without a verdict: nothing that was said
\* is changed.
LEMMA CrashByContract ==
    ASSUME IInv, Crash \/ Boot PROVE UNCHANGED Contract!vvars
<1>1. \A d \in Ids : fate'[d] = fate[d]
  <2>1. \A d \in Ids : row'[d] = row[d] \/ (row'[d].status = "none" /\ row[d].status = "pending")
    BY DEF Crash, Boot, RowsAtBoot, NoRow
  <2> QED BY <2>1 DEF fate
<1>2. /\ DOMAIN req' = DOMAIN req
      /\ \A m \in DOMAIN req : /\ req'[m].id = req[m].id /\ (Tells(m)' <=> Tells(m))
                               /\ Tells(m) => Verdict(m)' = Verdict(m)
  <2>1. /\ DOMAIN req' = DOMAIN req
        /\ \A m \in DOMAIN req : \/ req'[m] = req[m]
                                 \/ /\ req[m].answer \in Phases
                                    /\ req'[m] = [req[m] EXCEPT !.answer = "cut"]
    BY DEF Crash, Boot
  <2>2. \A m \in DOMAIN req : req[m] \in Request
    BY SeqFields DEF IInv
  <2>3. \A m \in DOMAIN req : \/ req'[m] = req[m]
                              \/ /\ req[m].answer \in Phases /\ req'[m].answer = "cut"
                                 /\ req'[m].id = req[m].id
    BY <2>1, <2>2 DEF Request
  <2> QED BY <2>1, <2>3 DEF Phases, Tells, Accepts, Verdict
<1>3. told' = told
  <2> SUFFICES ASSUME NEW d \in Ids
               PROVE  {Verdict(m)' : m \in {j \in DOMAIN req' : req'[j].id = d /\ Tells(j)'}}
                        = {Verdict(m) : m \in {j \in DOMAIN req : req[j].id = d /\ Tells(j)}}
    BY DEF told
  <2> QED BY <1>2
<1>4. fate = [d \in Ids |-> fate[d]] /\ fate' = [d \in Ids |-> fate'[d]]
  BY DEF fate
<1> QED BY <1>1, <1>3, <1>4 DEF Contract!vvars

\* The table of deliveries keeps the contract of Verdicts for every number of ids, deliveries and
\* crashes: an id comes to one verdict and everybody is told it, and no run is two ids'.
THEOREM VerdictContractKept == Spec => VerdictsStand
<1>1. Init => Contract!VInit /\ RunsKnown
  <2> SUFFICES ASSUME Init PROVE Contract!VInit /\ RunsKnown
    OBVIOUS
  <2>1. req = <<>> /\ runs = <<>> /\ \A d \in Ids : row[d] \in {NoRow, [status |-> "legacy", run |-> 0]}
    BY DEF Init
  <2>2. told = [d \in Ids |-> {}]
    BY <2>1 DEF told
  <2>3. fate \in [Ids -> {Contract!Open, Contract!Accepted(0)}]
    BY <2>1 DEF fate, NoRow, Contract!Open, Contract!Accepted
  <2>4. RunsKnown
    BY <2>1 DEF RunsKnown, NoRow
  <2> QED BY <2>2, <2>3, <2>4 DEF Contract!VInit
<1>2. IInv /\ RunsKnown /\ [Next]_vars => RunsKnown'
  BY RunsStayKnown
<1>3. IInv /\ RunsKnown /\ [Next]_vars => [Contract!VNext]_(Contract!vvars)
  <2> SUFFICES ASSUME IInv, RunsKnown, [Next]_vars PROVE [Contract!VNext]_(Contract!vvars)
    OBVIOUS
  <2>1. CASE row' = row /\ req' = req
    BY <2>1 DEF fate, told, Tells, Accepts, Verdict, Contract!vvars
  <2>2. CASE \E h \in Hooks, d \in Ids \cup {NoId} : Receive(h, d)
    BY <2>2, ReceiveByContract
  <2>3. CASE \E n \in DOMAIN req : Resolved(n)
    BY <2>3, ResolvedByContract
  <2>4. CASE \E n \in DOMAIN req : StartAnswers(n)
    BY <2>4, StartedByContract DEF StartAnswers
  <2>5. CASE Crash \/ Boot
    BY <2>5, CrashByContract
  <2> QED BY <2>1, <2>2, <2>3, <2>4, <2>5
          DEF Next, vars, Create, Claim, Release, Deregister, Delete, SetHook
<1> QED BY <1>1, <1>2, <1>3, AlwaysInvariant, PTL DEF Spec, VerdictsStand, Contract!VSpec

=============================================================================
