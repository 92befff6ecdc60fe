------------------------- MODULE AgentDispatchProofs -------------------------
(***************************************************************************)
(* No slot of a run or of the host is lost or handed out twice, a run      *)
(* overshoots its budget by no more than its width, nothing of an aborted  *)
(* run is at the gateway, and only a prefix is replayed, for any runs,     *)
(* calls, slots, widths, budgets, executions and crashes.                  *)
(*                                                                         *)
(* The counters are tied to the sets of calls they count (HostOK,          *)
(* GuardOK); what may still be charged is counted with what was            *)
(* (SpendingOK); a call is sent once (SentOK), and those of an execution   *)
(* that has not missed were all replayed or are still in the pipe          *)
(* (ReplayOK).                                                             *)
(***************************************************************************)
EXTENDS AgentDispatch, FiniteSetTheorems, TLAPS

\* The line holds calls that wait in it, each once.
InLine(places, line, place) ==
    /\ \A i \in DOMAIN line : places[line[i]] = place
    /\ \A i, j \in DOMAIN line : line[i] = line[j] => i = j

HostOK ==
    /\ IsFiniteSet(Dispatched) /\ inUse = Cardinality(Dispatched) /\ inUse <= Slots
    /\ queue # <<>> => inUse = Slots
    /\ InLine(at, queue, "queued")

GuardOK(r) ==
    /\ IsFiniteSet(Holding(r)) /\ inFlight[r] = Cardinality(Holding(r)) /\ inFlight[r] <= Concurrency
    /\ guardQueue[r] # <<>> => inFlight[r] = Concurrency
    /\ InLine(at, guardQueue[r], "slot")
    /\ \A i \in DOMAIN guardQueue[r] : guardQueue[r][i].run = r

\* The calls of a run that have passed the check of its budget and are not charged yet.
Pending(r) == {c \in Call : c.run = r /\ at[c] \in {"queued", "starting", "flying", "cut"}}
SpendingOK(r) == spent[r] + Cardinality(Pending(r)) < Budget + Concurrency

\* A call that is in the pipe or in the engine was sent, and is in one of them.
Sent(c) == c.gen < gen[c.run] \/ (c.gen = gen[c.run] /\ c.seq < sent[c.run])
SentOK == \A c \in Call : /\ c \in pipe => at[c] = "out"
                          /\ c \in pipe \/ at[c] # "out" => Sent(c)

NoneFlies == \A c \in Call : aborted[c.run] => at[c] # "flying"

\* The call a script of the present execution made at a place.
Own(r, q) == [run |-> r, gen |-> gen[r], seq |-> q]
ReplayOK(r) ==
    /\ \A s \in replayed[r] : \A q \in Seqs : q < s => q \in replayed[r]
    /\ ~missed[r] =>
          /\ state[r] = "running" => \A q \in Seqs : q < sent[r] => q \in replayed[r] \/ Own(r, q) \in pipe
          /\ \A c \in pipe : c.run = r /\ c.gen = gen[r] =>
                \A q \in Seqs : q < c.seq => q \in replayed[r] \/ Own(r, q) \in pipe

IInv ==
    /\ TypeOK /\ HostOK /\ SentOK /\ NoneFlies
    /\ \A r \in Runs : GuardOK(r) /\ SpendingOK(r) /\ ReplayOK(r)

-----------------------------------------------------------------------------
(* Lines *)

LEMMA Tails ==
    ASSUME NEW s \in Seq(Call), s # <<>>
    PROVE  /\ Tail(s) \in Seq(Call) /\ Head(s) \in Call /\ 1 \in DOMAIN s /\ Head(s) = s[1]
           /\ \A i \in DOMAIN Tail(s) : i \in Nat /\ i > 0 /\ i + 1 \in DOMAIN s /\ Tail(s)[i] = s[i + 1]
OBVIOUS

LEMMA Appends ==
    ASSUME NEW s \in Seq(Call), NEW c \in Call
    PROVE  /\ Append(s, c) \in Seq(Call) /\ Append(s, c) # <<>>
           /\ \A i \in DOMAIN Append(s, c) :
                 (i \in DOMAIN s /\ Append(s, c)[i] = s[i]) \/ (i = Len(s) + 1 /\ Append(s, c)[i] = c)
OBVIOUS

LEMMA LineStays ==
    ASSUME NEW a, NEW b, NEW place, NEW line \in Seq(Call), InLine(a, line, place),
           \A x \in Call : a[x] = place => b[x] = place
    PROVE  InLine(b, line, place)
BY DEF InLine

LEMMA LineGrows ==
    ASSUME NEW a, NEW b, NEW place, NEW line \in Seq(Call), InLine(a, line, place),
           NEW c \in Call, a[c] # place, b[c] = place,
           \A x \in Call : a[x] = place => b[x] = place
    PROVE  InLine(b, Append(line, c), place)
<1>1. \A i \in DOMAIN line : line[i] \in Call /\ line[i] # c /\ b[line[i]] = place
  BY DEF InLine
<1>2. \A i, j \in DOMAIN line : line[i] = line[j] => i = j
  BY DEF InLine
<1> QED BY <1>1, <1>2, Appends DEF InLine

LEMMA LineShrinks ==
    ASSUME NEW a, NEW b, NEW place, NEW line \in Seq(Call), InLine(a, line, place), line # <<>>,
           \A x \in Call : x # Head(line) /\ a[x] = place => b[x] = place
    PROVE  InLine(b, Tail(line), place)
<1>1. \A i \in DOMAIN line : line[i] \in Call /\ a[line[i]] = place
  BY DEF InLine
<1>2. \A i, j \in DOMAIN line : line[i] = line[j] => i = j
  BY DEF InLine
<1>3. \A i \in DOMAIN Tail(line) : Tail(line)[i] # Head(line)
  BY <1>2, Tails
<1>4. \A i \in DOMAIN Tail(line) : b[Tail(line)[i]] = place
  BY <1>1, <1>3, Tails
<1>5. \A i, j \in DOMAIN Tail(line) : Tail(line)[i] = Tail(line)[j] => i = j
  BY <1>2, Tails
<1> QED BY <1>4, <1>5 DEF InLine

-----------------------------------------------------------------------------
(* Counting *)

LEMMA OneMore ==
    ASSUME NEW S, IsFiniteSet(S), NEW x, x \notin S
    PROVE  IsFiniteSet(S \cup {x}) /\ Cardinality(S \cup {x}) = Cardinality(S) + 1 /\ Cardinality(S) \in Nat
BY FS_AddElement, FS_CardinalityType

LEMMA OneLess ==
    ASSUME NEW S, IsFiniteSet(S), NEW x \in S
    PROVE  /\ IsFiniteSet(S \ {x}) /\ Cardinality(S \ {x}) = Cardinality(S) - 1
           /\ Cardinality(S) \in Nat /\ Cardinality(S) > 0
<1>1. IsFiniteSet(S \ {x}) /\ Cardinality(S \ {x}) = Cardinality(S) - 1
  BY FS_RemoveElement
<1>2. Cardinality(S) \in Nat /\ Cardinality(S \ {x}) \in Nat
  BY <1>1, FS_CardinalityType
<1> QED BY <1>1, <1>2

\* One goes and another comes.
LEMMA Handed ==
    ASSUME NEW S, IsFiniteSet(S), NEW x \in S, NEW y, y \notin S
    PROVE  IsFiniteSet((S \ {x}) \cup {y}) /\ Cardinality((S \ {x}) \cup {y}) = Cardinality(S)
<1>1. IsFiniteSet(S \ {x}) /\ Cardinality(S \ {x}) = Cardinality(S) - 1 /\ Cardinality(S) \in Nat
  BY OneLess
<1>2. y \notin S \ {x}
  OBVIOUS
<1>3. /\ IsFiniteSet((S \ {x}) \cup {y})
      /\ Cardinality((S \ {x}) \cup {y}) = Cardinality(S \ {x}) + 1
  BY <1>1, <1>2, OneMore
<1> QED BY <1>1, <1>3

LEMMA Part ==
    ASSUME NEW S, IsFiniteSet(S), NEW T \in SUBSET S
    PROVE  IsFiniteSet(T) /\ Cardinality(T) \in Nat /\ Cardinality(S) \in Nat /\ Cardinality(T) <= Cardinality(S)
BY FS_Subset, FS_CardinalityType

LEMMA PendingHolds ==
    ASSUME NEW r \in Runs, GuardOK(r)
    PROVE  /\ IsFiniteSet(Pending(r)) /\ Cardinality(Pending(r)) \in Nat
           /\ Cardinality(Holding(r)) \in Nat /\ Cardinality(Pending(r)) <= Cardinality(Holding(r))
<1>1. Pending(r) \in SUBSET Holding(r)
  BY DEF Pending, Holding
<1> QED BY <1>1, Part DEF GuardOK

-----------------------------------------------------------------------------
(* The slots of a run *)

SlotTypes ==
    /\ at \in [Call -> Places]
    /\ guardQueue \in [Runs -> Seq(Call)] /\ inFlight \in [Runs -> Nat]
    /\ queue \in Seq(Call) /\ inUse \in Nat

\* What a request and a return do to a pool: who holds a slot before and after, and the line.
Joined(c, width, before, after, line, next) ==
    \/ line = <<>> /\ Cardinality(before) < width /\ after = before \cup {c} /\ next = line
    \/ Cardinality(before) = width /\ after = before /\ next = Append(line, c)
Returned(c, before, after, line, next) ==
    \/ line = <<>> /\ after = before \ {c} /\ next = line
    \/ line # <<>> /\ after = (before \ {c}) \cup {Head(line)} /\ next = Tail(line)

Idle == {"out", "slot"}
Admitted == {"starting", "flying", "cut", "answered"}

LEMMA GuardStays ==
    ASSUME SlotTypes, NEW r \in Runs, GuardOK(r),
           inFlight'[r] = inFlight[r], guardQueue'[r] = guardQueue[r],
           \A x \in Call : x.run = r => (at[x] \in Idle <=> at'[x] \in Idle) /\ (at[x] = "slot" => at'[x] = "slot")
    PROVE  GuardOK(r)'
<1>1. Holding(r)' = Holding(r)
  BY DEF Holding, Idle
<1>2. guardQueue[r] \in Seq(Call) /\ \A i \in DOMAIN guardQueue[r] : guardQueue[r][i] \in Call
  BY DEF SlotTypes
<1>3. InLine(at', guardQueue[r], "slot")
  BY <1>2 DEF InLine, GuardOK
<1> QED BY <1>1, <1>3 DEF GuardOK

LEMMA GuardAcquire ==
    ASSUME SlotTypes, NEW c \in Call, GuardOK(c.run), at[c] = "out", AcquireSlot(c)
    PROVE  /\ GuardOK(c.run)'
           /\ guardQueue' \in [Runs -> Seq(Call)] /\ inFlight' \in [Runs -> Nat]
           /\ at'[c] \in {"checking", "slot"} /\ at' = [at EXCEPT ![c] = at'[c]]
           /\ \A q \in Runs : q # c.run => inFlight'[q] = inFlight[q] /\ guardQueue'[q] = guardQueue[q]
           /\ Joined(c, Concurrency, Holding(c.run), Holding(c.run)', guardQueue[c.run], guardQueue'[c.run])
<1> DEFINE r == c.run
<1>1. r \in Runs /\ guardQueue[r] \in Seq(Call) /\ inFlight[r] \in Nat
  BY DEF SlotTypes, Call
<1>2. CASE inFlight[r] < Concurrency
  <2>1. /\ inFlight' = [inFlight EXCEPT ![r] = @ + 1] /\ at' = [at EXCEPT ![c] = "checking"]
        /\ guardQueue' = guardQueue
    BY <1>1, <1>2, DispatchAssumption DEF AcquireSlot
  <2>2. at'[c] = "checking" /\ \A x \in Call : x # c => at'[x] = at[x]
    BY <2>1 DEF SlotTypes
  <2>3. Holding(r)' = Holding(r) \cup {c} /\ c \notin Holding(r)
    BY <2>2 DEF Holding
  <2>4. /\ IsFiniteSet(Holding(r)) /\ inFlight[r] = Cardinality(Holding(r))
        /\ guardQueue[r] = <<>>
    BY <1>1, <1>2, DispatchAssumption DEF GuardOK
  <2>5. IsFiniteSet(Holding(r)') /\ Cardinality(Holding(r)') = inFlight[r] + 1
    BY <2>3, <2>4, OneMore
  <2>6. inFlight'[r] = inFlight[r] + 1 /\ inFlight' \in [Runs -> Nat]
    BY <1>1, <2>1 DEF SlotTypes
  <2>7. inFlight'[r] <= Concurrency
    BY <1>1, <1>2, <2>6, DispatchAssumption
  <2>8. GuardOK(r)'
    <3>1. guardQueue'[r] = <<>> /\ DOMAIN guardQueue'[r] = {}
      BY <2>1, <2>4
    <3> QED BY <2>5, <2>6, <2>7, <3>1 DEF GuardOK, InLine
  <2>9. Joined(c, Concurrency, Holding(r), Holding(r)', guardQueue[r], guardQueue'[r])
    BY <1>2, <2>1, <2>3, <2>4 DEF Joined
  <2> QED BY <2>1, <2>2, <2>6, <2>8, <2>9 DEF SlotTypes
<1>3. CASE inFlight[r] >= Concurrency
  <2>1. /\ guardQueue' = [guardQueue EXCEPT ![r] = Append(@, c)] /\ at' = [at EXCEPT ![c] = "slot"]
        /\ inFlight' = inFlight
    BY <1>1, <1>3, DispatchAssumption DEF AcquireSlot
  <2>2. at'[c] = "slot" /\ \A x \in Call : x # c => at'[x] = at[x]
    BY <2>1 DEF SlotTypes
  <2>3. Holding(r)' = Holding(r)
    BY <2>2 DEF Holding
  <2>4. guardQueue'[r] = Append(guardQueue[r], c) /\ guardQueue' \in [Runs -> Seq(Call)]
    BY <1>1, <2>1 DEF SlotTypes
  <2>5. InLine(at, guardQueue[r], "slot") /\ \A i \in DOMAIN guardQueue[r] : guardQueue[r][i].run = r
    BY DEF GuardOK
  <2>6. \A x \in Call : at[x] = "slot" => at'[x] = "slot"
    BY <2>2
  <2>7. InLine(at', Append(guardQueue[r], c), "slot")
    BY <1>1, <2>2, <2>5, <2>6, LineGrows
  <2>8. \A i \in DOMAIN Append(guardQueue[r], c) : Append(guardQueue[r], c)[i].run = r
    BY <1>1, <2>5, Appends
  <2>9. inFlight[r] = Concurrency
    BY <1>1, <1>3, DispatchAssumption DEF GuardOK
  <2>10. GuardOK(r)'
    BY <2>1, <2>3, <2>4, <2>7, <2>8, <2>9 DEF GuardOK
  <2>11. Joined(c, Concurrency, Holding(r), Holding(r)', guardQueue[r], guardQueue'[r])
    BY <2>3, <2>4, <2>9 DEF Joined, GuardOK
  <2> QED BY <2>1, <2>2, <2>4, <2>10, <2>11 DEF SlotTypes
<1> QED BY <1>2, <1>3 DEF AcquireSlot

\* Call c gives its slot back; but for c, the others are in places as they were.
LEMMA GuardRelease ==
    ASSUME SlotTypes, NEW r \in Runs, GuardOK(r), NEW c \in Holding(r),
           NEW places \in [Call -> Places], places[c] = "out",
           \A x \in Call : x # c => (at[x] \in Idle <=> places[x] \in Idle) /\ (at[x] = "slot" => places[x] = "slot"),
           ReleaseSlot(r, places)
    PROVE  /\ GuardOK(r)'
           /\ guardQueue' \in [Runs -> Seq(Call)] /\ inFlight' \in [Runs -> Nat] /\ at' \in [Call -> Places]
           /\ at'[c] = "out"
           /\ \A x \in Call : \/ at'[x] = places[x]
                              \/ x.run = r /\ x # c /\ at[x] = "slot" /\ at'[x] = "checking"
           /\ \A q \in Runs : q # r => inFlight'[q] = inFlight[q] /\ guardQueue'[q] = guardQueue[q]
           /\ Returned(c, Holding(r), Holding(r)', guardQueue[r], guardQueue'[r])
<1>1. guardQueue[r] \in Seq(Call) /\ inFlight[r] \in Nat /\ c \in Call /\ c.run = r /\ at[c] \notin Idle
  BY DEF SlotTypes, Holding, Idle
<1>2. IsFiniteSet(Holding(r)) /\ inFlight[r] = Cardinality(Holding(r)) /\ inFlight[r] <= Concurrency
  BY DEF GuardOK
<1>3. CASE guardQueue[r] = <<>>
  <2>1. /\ inFlight' = [inFlight EXCEPT ![r] = @ - 1] /\ at' = places /\ guardQueue' = guardQueue
    BY <1>3 DEF ReleaseSlot
  <2>2. Holding(r)' = Holding(r) \ {c}
    BY <1>1, <2>1 DEF Holding, Idle
  <2>3. /\ IsFiniteSet(Holding(r)') /\ Cardinality(Holding(r)') = inFlight[r] - 1 /\ inFlight[r] > 0
    BY <1>2, <2>2, OneLess
  <2>4. inFlight'[r] = inFlight[r] - 1 /\ inFlight' \in [Runs -> Nat]
    BY <1>1, <2>1, <2>3 DEF SlotTypes
  <2>5. inFlight'[r] <= Concurrency
    BY <1>1, <1>2, <2>4, DispatchAssumption
  <2>6. InLine(at', guardQueue'[r], "slot") /\ \A i \in DOMAIN guardQueue'[r] : guardQueue'[r][i].run = r
    BY <1>3, <2>1 DEF InLine
  <2>7. GuardOK(r)'
    BY <1>3, <2>1, <2>3, <2>4, <2>5, <2>6 DEF GuardOK
  <2>8. Returned(c, Holding(r), Holding(r)', guardQueue[r], guardQueue'[r])
    BY <1>3, <2>1, <2>2 DEF Returned
  <2> QED BY <2>1, <2>4, <2>7, <2>8 DEF SlotTypes
<1>4. CASE guardQueue[r] # <<>>
  <2> DEFINE h == Head(guardQueue[r])
  <2>1. /\ guardQueue' = [guardQueue EXCEPT ![r] = Tail(@)] /\ inFlight' = inFlight
        /\ at' = [places EXCEPT ![h] = "checking"]
    BY <1>4 DEF ReleaseSlot
  <2>2. h \in Call /\ at[h] = "slot" /\ h.run = r /\ h # c
    BY <1>1, <1>4, Tails DEF GuardOK, InLine, Idle
  <2>3. at'[h] = "checking" /\ \A x \in Call : x # h => at'[x] = places[x]
    BY <2>1, <2>2
  <2>4. at' \in [Call -> Places]
    BY <2>1, <2>2 DEF Places
  <2>5. Holding(r)' = (Holding(r) \ {c}) \cup {h} /\ h \notin Holding(r)
    BY <1>1, <2>2, <2>3 DEF Holding, Idle
  <2>6. IsFiniteSet(Holding(r)') /\ Cardinality(Holding(r)') = inFlight[r]
    BY <1>2, <2>5, Handed
  <2>7. guardQueue'[r] = Tail(guardQueue[r]) /\ guardQueue' \in [Runs -> Seq(Call)]
    BY <1>1, <1>4, <2>1, Tails DEF SlotTypes
  <2>8. \A x \in Call : x # h /\ at[x] = "slot" => at'[x] = "slot"
    BY <1>1, <2>3 DEF Idle
  <2>9. InLine(at', guardQueue'[r], "slot")
    BY <1>1, <1>4, <2>7, <2>8, LineShrinks DEF GuardOK
  <2>10. \A i \in DOMAIN guardQueue'[r] : guardQueue'[r][i].run = r
    BY <1>1, <1>4, <2>7, Tails DEF GuardOK
  <2>11. inFlight[r] = Concurrency
    BY <1>4 DEF GuardOK
  <2>12. GuardOK(r)'
    BY <1>2, <2>1, <2>6, <2>9, <2>10, <2>11 DEF GuardOK
  <2>13. at'[c] = "out"
    BY <1>1, <2>2, <2>3
  <2>14. \A x \in Call : at'[x] = places[x] \/ (x.run = r /\ x # c /\ at[x] = "slot" /\ at'[x] = "checking")
    BY <2>2, <2>3
  <2>15. \A q \in Runs : q # r => inFlight'[q] = inFlight[q] /\ guardQueue'[q] = guardQueue[q]
    BY <2>1
  <2>16. Returned(c, Holding(r), Holding(r)', guardQueue[r], guardQueue'[r])
    BY <1>4, <2>5, <2>7 DEF Returned
  <2> QED BY <2>1, <2>4, <2>7, <2>12, <2>13, <2>14, <2>15, <2>16 DEF SlotTypes
<1> QED BY <1>3, <1>4

-----------------------------------------------------------------------------
(* The slots of the host *)

LEMMA HostStays ==
    ASSUME SlotTypes, HostOK, UNCHANGED <<queue, inUse>>,
           \A x \in Call : (at[x] \in Admitted <=> at'[x] \in Admitted) /\ (at[x] = "queued" => at'[x] = "queued")
    PROVE  HostOK'
<1>1. Dispatched' = Dispatched
  BY DEF Dispatched, Admitted
<1>2. InLine(at', queue, "queued")
  BY LineStays DEF HostOK, SlotTypes
<1> QED BY <1>1, <1>2 DEF HostOK

LEMMA HostAcquire ==
    ASSUME SlotTypes, HostOK, NEW c \in Call, at[c] = "checking", AcquireSemaphore(c)
    PROVE  /\ HostOK' /\ queue' \in Seq(Call) /\ inUse' \in Nat
           /\ at'[c] \in {"starting", "queued"} /\ at' = [at EXCEPT ![c] = at'[c]]
           /\ Joined(c, Slots, Dispatched, Dispatched', queue, queue')
<1>1. inUse \in Nat /\ Slots \in Nat /\ queue \in Seq(Call)
  BY DispatchAssumption DEF SlotTypes
<1>2. CASE inUse < Slots
  <2>1. inUse' = inUse + 1 /\ at' = [at EXCEPT ![c] = "starting"] /\ queue' = queue
    BY <1>1, <1>2 DEF AcquireSemaphore
  <2>2. at'[c] = "starting" /\ \A x \in Call : x # c => at'[x] = at[x]
    BY <2>1 DEF SlotTypes
  <2>3. Dispatched' = Dispatched \cup {c} /\ c \notin Dispatched
    BY <2>2 DEF Dispatched
  <2>4. IsFiniteSet(Dispatched) /\ inUse = Cardinality(Dispatched) /\ queue = <<>>
    BY <1>1, <1>2 DEF HostOK
  <2>5. IsFiniteSet(Dispatched') /\ Cardinality(Dispatched') = inUse + 1
    BY <2>3, <2>4, OneMore
  <2>6. queue' = <<>> /\ DOMAIN queue' = {}
    BY <2>1, <2>4
  <2>7. inUse' <= Slots /\ inUse' \in Nat
    BY <1>1, <1>2, <2>1
  <2>8. HostOK'
    BY <2>1, <2>5, <2>6, <2>7 DEF HostOK, InLine
  <2>9. Joined(c, Slots, Dispatched, Dispatched', queue, queue')
    BY <1>2, <2>1, <2>3, <2>4 DEF Joined
  <2> QED BY <1>1, <2>1, <2>2, <2>7, <2>8, <2>9
<1>3. CASE inUse >= Slots
  <2>1. queue' = Append(queue, c) /\ at' = [at EXCEPT ![c] = "queued"] /\ inUse' = inUse
    BY <1>1, <1>3 DEF AcquireSemaphore
  <2>2. at'[c] = "queued" /\ \A x \in Call : x # c => at'[x] = at[x]
    BY <2>1 DEF SlotTypes
  <2>3. Dispatched' = Dispatched
    BY <2>2 DEF Dispatched
  <2>4. InLine(at', Append(queue, c), "queued")
    <3>1. InLine(at, queue, "queued")
      BY DEF HostOK
    <3>2. \A x \in Call : at[x] = "queued" => at'[x] = "queued"
      BY <2>2
    <3> QED BY <1>1, <2>2, <3>1, <3>2, LineGrows
  <2>5. inUse = Slots
    BY <1>1, <1>3 DEF HostOK
  <2>6. HostOK'
    BY <2>1, <2>3, <2>4, <2>5 DEF HostOK
  <2>7. Joined(c, Slots, Dispatched, Dispatched', queue, queue')
    BY <2>1, <2>3, <2>5 DEF Joined, HostOK
  <2> QED BY <1>1, <2>1, <2>2, <2>6, <2>7, Appends
<1> QED BY <1>2, <1>3 DEF AcquireSemaphore

\* Call c gives its slot back, and the first in line goes on with it.
LEMMA HostRelease ==
    ASSUME SlotTypes, HostOK, NEW c \in Dispatched, ReleaseSemaphore,
           at'[c] \in Idle,
           queue # <<>> => at'[Head(queue)] = "starting",
           \A x \in Call : x # c /\ (queue # <<>> => x # Head(queue)) =>
               (at[x] \in Admitted <=> at'[x] \in Admitted) /\ (at[x] = "queued" => at'[x] = "queued")
    PROVE  /\ HostOK' /\ queue' \in Seq(Call) /\ inUse' \in Nat
           /\ Returned(c, Dispatched, Dispatched', queue, queue')
<1>1. inUse \in Nat /\ Slots \in Nat /\ queue \in Seq(Call)
  BY DispatchAssumption DEF SlotTypes
<1>2. c \in Call /\ at[c] \in Admitted /\ at'[c] \notin Admitted
  BY DEF Dispatched, Admitted, Idle
<1>3. IsFiniteSet(Dispatched) /\ inUse = Cardinality(Dispatched) /\ inUse <= Slots
  BY DEF HostOK
<1>4. CASE queue = <<>>
  <2>1. inUse' = inUse - 1 /\ queue' = queue
    BY <1>4 DEF ReleaseSemaphore
  <2>2. Dispatched' = Dispatched \ {c}
    BY <1>2, <1>4 DEF Dispatched, Admitted
  <2>3. IsFiniteSet(Dispatched') /\ Cardinality(Dispatched') = inUse - 1 /\ inUse > 0
    BY <1>3, <2>2, OneLess
  <2>4. inUse' \in Nat /\ inUse' <= Slots
    BY <1>1, <1>3, <2>1, <2>3
  <2>5. queue' = <<>> /\ DOMAIN queue' = {}
    BY <1>4, <2>1
  <2>6. HostOK'
    BY <2>1, <2>3, <2>4, <2>5 DEF HostOK, InLine
  <2>7. Returned(c, Dispatched, Dispatched', queue, queue')
    BY <1>4, <2>1, <2>2 DEF Returned
  <2> QED BY <1>1, <2>1, <2>4, <2>6, <2>7
<1>5. CASE queue # <<>>
  <2> DEFINE h == Head(queue)
  <2>1. queue' = Tail(queue) /\ inUse' = inUse
    BY <1>5 DEF ReleaseSemaphore
  <2>2. h \in Call /\ at[h] = "queued" /\ h # c /\ at'[h] = "starting"
    BY <1>1, <1>2, <1>5, Tails DEF HostOK, InLine, Admitted
  <2>3. Dispatched' = (Dispatched \ {c}) \cup {h} /\ h \notin Dispatched
    BY <1>2, <2>2 DEF Dispatched, Admitted
  <2>4. IsFiniteSet(Dispatched') /\ Cardinality(Dispatched') = inUse
    BY <1>3, <2>3, Handed
  <2>5. \A x \in Call : x # h /\ at[x] = "queued" => at'[x] = "queued"
    BY <1>2 DEF Admitted
  <2>6. InLine(at', Tail(queue), "queued")
    BY <1>1, <1>5, <2>5, LineShrinks DEF HostOK
  <2>7. inUse = Slots
    BY <1>5 DEF HostOK
  <2>8. HostOK'
    BY <1>3, <2>1, <2>4, <2>6, <2>7 DEF HostOK
  <2>9. Returned(c, Dispatched, Dispatched', queue, queue')
    BY <1>5, <2>1, <2>3 DEF Returned
  <2> QED BY <1>1, <1>5, <2>1, <2>8, <2>9, Tails
<1> QED BY <1>4, <1>5

-----------------------------------------------------------------------------
(* The steps and the slots *)

SlotsOK == SlotTypes /\ HostOK /\ \A r \in Runs : GuardOK(r)

LEMMA CallTypes == \A c \in Call : c.run \in Runs /\ c.gen \in 1..MaxExecutions /\ c.seq \in Seqs
BY DEF Call

LEMMA SlotsStay ==
    ASSUME SlotsOK, UNCHANGED slots, at' \in [Call -> Places],
           \A x \in Call : /\ at[x] \in Idle \cup {"queued"} \/ at'[x] \in Idle \cup {"queued"} => at'[x] = at[x]
                           /\ at[x] \in Admitted <=> at'[x] \in Admitted
    PROVE  SlotsOK'
<1>1. UNCHANGED <<guardQueue, inFlight, queue, inUse>>
  BY DEF slots
<1>2. SlotTypes'
  BY <1>1 DEF SlotsOK, SlotTypes
<1>3. HostOK'
  BY <1>1, HostStays DEF SlotsOK
<1>4. ASSUME NEW r \in Runs PROVE GuardOK(r)'
  BY <1>1, GuardStays DEF SlotsOK, Idle
<1> QED BY <1>2, <1>3, <1>4 DEF SlotsOK

LEMMA ReceiveKeepsSlots ==
    ASSUME SlotsOK, SentOK, NEW c \in Call, Receive(c)
    PROVE  /\ SlotsOK'
           /\ at[c] = "out"
           /\ \A x \in Call : x # c => at'[x] = at[x]
           /\ at'[c] \in {"out", "checking", "slot"}
           /\ queue' = queue /\ \A q \in Runs : q # c.run => guardQueue'[q] = guardQueue[q]
           /\ \/ UNCHANGED <<guardQueue, at>>
              \/ Joined(c, Concurrency, Holding(c.run), Holding(c.run)', guardQueue[c.run], guardQueue'[c.run])
<1>1. at[c] = "out" /\ c.run \in Runs
  BY CallTypes DEF Receive, SentOK
<1>2. CASE UNCHANGED <<slots, at>>
  BY <1>1, <1>2, SlotsStay DEF SlotsOK, SlotTypes, slots
<1>3. CASE AcquireSlot(c) /\ UNCHANGED <<queue, inUse>>
  <2>1. /\ GuardOK(c.run)'
        /\ guardQueue' \in [Runs -> Seq(Call)] /\ inFlight' \in [Runs -> Nat]
        /\ at'[c] \in {"checking", "slot"} /\ at' = [at EXCEPT ![c] = at'[c]]
        /\ \A q \in Runs : q # c.run => inFlight'[q] = inFlight[q] /\ guardQueue'[q] = guardQueue[q]
        /\ Joined(c, Concurrency, Holding(c.run), Holding(c.run)', guardQueue[c.run], guardQueue'[c.run])
    BY <1>1, <1>3, GuardAcquire DEF SlotsOK
  <2>2. \A x \in Call : x # c => at'[x] = at[x]
    BY <2>1 DEF SlotsOK, SlotTypes
  <2>3. at' \in [Call -> Places]
    BY <2>1 DEF SlotsOK, SlotTypes, Places
  <2>4. SlotTypes'
    BY <1>3, <2>1, <2>3 DEF SlotsOK, SlotTypes
  <2>5. HostOK'
    <3>1. \A x \in Call : (at[x] \in Admitted <=> at'[x] \in Admitted) /\ (at[x] = "queued" => at'[x] = "queued")
      BY <1>1, <2>1, <2>2 DEF Admitted
    <3> QED BY <1>3, <3>1, HostStays DEF SlotsOK
  <2>6. ASSUME NEW q \in Runs, q # c.run PROVE GuardOK(q)'
    BY <2>1, <2>2, <2>6, GuardStays DEF SlotsOK
  <2> QED BY <1>1, <1>3, <2>1, <2>2, <2>4, <2>5, <2>6 DEF SlotsOK
<1> QED BY <1>1, <1>2, <1>3 DEF Receive, slots

LEMMA CheckKeepsSlots ==
    ASSUME SlotsOK, NEW c \in Call, Check(c)
    PROVE  /\ SlotsOK'
           /\ \/ /\ spent[c.run] < Budget /\ at'[c] \in {"starting", "queued"}
                 /\ \A x \in Call : x # c => at'[x] = at[x]
                 /\ guardQueue' = guardQueue /\ Joined(c, Slots, Dispatched, Dispatched', queue, queue')
              \/ /\ at'[c] = "out"
                 /\ \A x \in Call : x # c => \/ at'[x] = at[x]
                                             \/ x.run = c.run /\ at[x] = "slot" /\ at'[x] = "checking"
                 /\ queue' = queue /\ \A q \in Runs : q # c.run => guardQueue'[q] = guardQueue[q]
                 /\ Returned(c, Holding(c.run), Holding(c.run)', guardQueue[c.run], guardQueue'[c.run])
<1>1. at[c] = "checking" /\ c.run \in Runs /\ c \in Holding(c.run)
  BY CallTypes DEF Check, Holding
<1>2. CASE spent[c.run] < Budget /\ AcquireSemaphore(c) /\ UNCHANGED <<guardQueue, inFlight>>
  <2>1. /\ HostOK' /\ queue' \in Seq(Call) /\ inUse' \in Nat
        /\ at'[c] \in {"starting", "queued"} /\ at' = [at EXCEPT ![c] = at'[c]]
        /\ Joined(c, Slots, Dispatched, Dispatched', queue, queue')
    BY <1>1, <1>2, HostAcquire DEF SlotsOK
  <2>2. \A x \in Call : x # c => at'[x] = at[x]
    BY <2>1 DEF SlotsOK, SlotTypes
  <2>3. at' \in [Call -> Places]
    BY <2>1 DEF SlotsOK, SlotTypes, Places
  <2>4. SlotTypes'
    BY <1>2, <2>1, <2>3 DEF SlotsOK, SlotTypes
  <2>5. ASSUME NEW q \in Runs PROVE GuardOK(q)'
    <3>1. \A x \in Call : (at[x] \in Idle <=> at'[x] \in Idle) /\ (at[x] = "slot" => at'[x] = "slot")
      BY <1>1, <2>1, <2>2 DEF Idle
    <3> QED BY <1>2, <3>1, GuardStays DEF SlotsOK
  <2> QED BY <1>2, <2>1, <2>2, <2>4, <2>5 DEF SlotsOK
<1>3. CASE ReleaseSlot(c.run, [at EXCEPT ![c] = "out"]) /\ UNCHANGED <<queue, inUse>>
  <2> DEFINE r == c.run
             places == [at EXCEPT ![c] = "out"]
  <2>1. /\ places \in [Call -> Places] /\ places[c] = "out"
        /\ \A x \in Call : x # c => places[x] = at[x]
    BY DEF SlotsOK, SlotTypes, Places
  <2> HIDE DEF places
  <2>2. /\ GuardOK(r)'
        /\ guardQueue' \in [Runs -> Seq(Call)] /\ inFlight' \in [Runs -> Nat] /\ at' \in [Call -> Places]
        /\ at'[c] = "out"
        /\ \A x \in Call : \/ at'[x] = places[x]
                           \/ x.run = r /\ x # c /\ at[x] = "slot" /\ at'[x] = "checking"
        /\ \A q \in Runs : q # r => inFlight'[q] = inFlight[q] /\ guardQueue'[q] = guardQueue[q]
        /\ Returned(c, Holding(r), Holding(r)', guardQueue[r], guardQueue'[r])
    <3>1. ReleaseSlot(r, places)
      BY <1>3 DEF places
    <3> QED BY <1>1, <2>1, <3>1, GuardRelease DEF SlotsOK
  <2>3. \A x \in Call : x # c => at'[x] = at[x] \/ (x.run = r /\ at[x] = "slot" /\ at'[x] = "checking")
    BY <2>1, <2>2
  <2>4. HostOK'
    BY <1>1, <1>3, <2>2, <2>3, HostStays DEF SlotsOK, Admitted
  <2>5. ASSUME NEW q \in Runs, q # r PROVE GuardOK(q)'
    <3>1. \A x \in Call : x.run = q => at'[x] = at[x]
      BY <2>3, <2>5
    <3> QED BY <2>2, <2>5, <3>1, GuardStays DEF SlotsOK
  <2>6. SlotTypes'
    BY <1>3, <2>2 DEF SlotsOK, SlotTypes
  <2> QED BY <1>3, <2>2, <2>3, <2>4, <2>5, <2>6 DEF SlotsOK
<1> QED BY <1>2, <1>3 DEF Check

LEMMA LeaveKeepsSlots ==
    ASSUME SlotsOK, NEW c \in Call, NEW entry, at[c] \in {"cut", "answered"}, Leave(c, entry)
    PROVE  /\ SlotsOK'
           /\ at'[c] = "out"
           /\ \A x \in Call : x # c => \/ at'[x] = at[x]
                                       \/ x.run = c.run /\ at[x] = "slot" /\ at'[x] = "checking"
                                       \/ at[x] = "queued" /\ at'[x] = "starting"
           /\ Returned(c, Dispatched, Dispatched', queue, queue')
           /\ Returned(c, Holding(c.run), Holding(c.run)', guardQueue[c.run], guardQueue'[c.run])
           /\ \A q \in Runs : q # c.run => guardQueue'[q] = guardQueue[q]
<1> DEFINE r == c.run
           places == [Woken(at) EXCEPT ![c] = "out"]
<1>1. r \in Runs /\ c \in Holding(r) /\ c \in Dispatched
  BY CallTypes DEF Holding, Dispatched
<1>2. queue \in Seq(Call) /\ at \in [Call -> Places]
  BY DEF SlotsOK, SlotTypes
<1>3. queue # <<>> => Head(queue) \in Call /\ at[Head(queue)] = "queued" /\ Head(queue) # c
  BY <1>2, Tails DEF SlotsOK, HostOK, InLine
<1>4. Woken(at) \in [Call -> Places] /\ \A x \in Call :
          IF queue # <<>> /\ x = Head(queue) THEN Woken(at)[x] = "starting" ELSE Woken(at)[x] = at[x]
  BY <1>2, <1>3 DEF Woken, Places
<1>5. /\ places \in [Call -> Places] /\ places[c] = "out"
      /\ \A x \in Call : x # c => places[x] = Woken(at)[x]
  BY <1>4 DEF Places
<1>6. ReleaseSlot(r, places) /\ ReleaseSemaphore
  BY DEF Leave
<1> HIDE DEF places
<1>7. \A x \in Call : x # c => (at[x] \in Idle <=> places[x] \in Idle) /\ (at[x] = "slot" => places[x] = "slot")
  BY <1>3, <1>4, <1>5 DEF Idle
<1>8. /\ GuardOK(r)'
      /\ guardQueue' \in [Runs -> Seq(Call)] /\ inFlight' \in [Runs -> Nat] /\ at' \in [Call -> Places]
      /\ at'[c] = "out"
      /\ \A x \in Call : \/ at'[x] = places[x]
                         \/ x.run = r /\ x # c /\ at[x] = "slot" /\ at'[x] = "checking"
      /\ \A q \in Runs : q # r => inFlight'[q] = inFlight[q] /\ guardQueue'[q] = guardQueue[q]
      /\ Returned(c, Holding(r), Holding(r)', guardQueue[r], guardQueue'[r])
  BY <1>1, <1>5, <1>6, <1>7, GuardRelease DEF SlotsOK
<1>9. \A x \in Call : x # c => \/ at'[x] = at[x] /\ (queue # <<>> => x # Head(queue))
                               \/ x.run = r /\ at[x] = "slot" /\ at'[x] = "checking"
                               \/ queue # <<>> /\ x = Head(queue) /\ at[x] = "queued" /\ at'[x] = "starting"
  BY <1>3, <1>4, <1>5, <1>8
<1>10. HostOK' /\ queue' \in Seq(Call) /\ inUse' \in Nat /\ Returned(c, Dispatched, Dispatched', queue, queue')
  <2>1. queue # <<>> => at'[Head(queue)] = "starting"
    BY <1>3, <1>9
  <2>2. \A x \in Call : x # c /\ (queue # <<>> => x # Head(queue)) =>
            (at[x] \in Admitted <=> at'[x] \in Admitted) /\ (at[x] = "queued" => at'[x] = "queued")
    BY <1>9 DEF Admitted
  <2> QED BY <1>1, <1>6, <1>8, <2>1, <2>2, HostRelease DEF SlotsOK, Idle
<1>11. ASSUME NEW q \in Runs, q # r PROVE GuardOK(q)'
  <2>1. \A x \in Call : x.run = q =>
            (at[x] \in Idle <=> at'[x] \in Idle) /\ (at[x] = "slot" => at'[x] = "slot")
    BY <1>9, <1>11 DEF Idle
  <2> QED BY <1>8, <1>11, <2>1, GuardStays DEF SlotsOK
<1>12. SlotTypes'
  BY <1>8, <1>10 DEF SlotTypes
<1> QED BY <1>8, <1>9, <1>10, <1>11, <1>12 DEF SlotsOK

LEMMA CrashEmptiesSlots ==
    ASSUME Crash
    PROVE  SlotsOK' /\ \A c \in Call : at'[c] = "out"
<1>1. /\ guardQueue' = [r \in Runs |-> <<>>] /\ inFlight' = [r \in Runs |-> 0]
      /\ queue' = <<>> /\ inUse' = 0 /\ at' = [c \in Call |-> "out"]
  BY DEF Crash
<1>2. SlotTypes'
  BY <1>1 DEF SlotTypes, Places
<1>3. Dispatched' = {} /\ \A r \in Runs : Holding(r)' = {}
  BY <1>1 DEF Dispatched, Holding
<1>4. HostOK'
  BY <1>1, <1>3, FS_EmptySet, DispatchAssumption DEF HostOK, InLine
<1>5. ASSUME NEW r \in Runs PROVE GuardOK(r)'
  <2>1. guardQueue'[r] = <<>> /\ DOMAIN guardQueue'[r] = {} /\ inFlight'[r] = 0 /\ Holding(r)' = {}
    BY <1>1, <1>3
  <2> QED BY <2>1, FS_EmptySet, DispatchAssumption DEF GuardOK, InLine
<1> QED BY <1>1, <1>2, <1>4, <1>5 DEF SlotsOK

-----------------------------------------------------------------------------
(* What the steps do to the places of the calls *)

LEMMA CallTyped == \A c \in Call : at[c] \in Places => at[c] \in Idle \/ at[c] \in {"checking", "queued"} \/ at[c] \in Admitted
BY DEF Places, Idle, Admitted

\* A call is launched, answered or cut: it keeps both of its slots.
LEMMA FlightKeepsSlots ==
    ASSUME SlotsOK, NEW c \in Call, Launch(c) \/ Answer(c)
    PROVE  SlotsOK' /\ at[c] \in Admitted /\ at'[c] \in Admitted /\ \A x \in Call : x # c => at'[x] = at[x]
<1>1. UNCHANGED slots /\ at[c] \in Admitted
  BY DEF Launch, Answer, Admitted
<1>2. /\ at'[c] \in Admitted /\ at' \in [Call -> Places]
      /\ \A x \in Call : x # c => at'[x] = at[x]
  BY DEF Launch, Answer, Admitted, Places, SlotsOK, SlotTypes
<1>3. \A x \in Call : /\ at[x] \in Idle \cup {"queued"} \/ at'[x] \in Idle \cup {"queued"} => at'[x] = at[x]
                      /\ at[x] \in Admitted <=> at'[x] \in Admitted
  BY <1>1, <1>2 DEF Idle, Admitted
<1> QED BY <1>1, <1>2, <1>3, SlotsStay

LEMMA AbortKeepsSlots ==
    ASSUME SlotsOK, NEW r \in Runs, Abort(r), UNCHANGED slots
    PROVE  /\ SlotsOK'
           /\ \A x \in Call : at'[x] = IF x.run = r /\ at[x] = "flying" THEN "cut" ELSE at[x]
<1>1. \A x \in Call : at'[x] = IF x.run = r /\ at[x] = "flying" THEN "cut" ELSE at[x]
  BY DEF Abort
<1>2. at' \in [Call -> Places]
  BY DEF Abort, SlotsOK, SlotTypes, Places
<1>3. \A x \in Call : /\ at[x] \in Idle \cup {"queued"} \/ at'[x] \in Idle \cup {"queued"} => at'[x] = at[x]
                      /\ at[x] \in Admitted <=> at'[x] \in Admitted
  BY <1>1 DEF Idle, Admitted
<1> QED BY <1>1, <1>2, <1>3, SlotsStay

LEMMA SlotsAlone ==
    ASSUME SlotsOK, UNCHANGED <<slots, at>>
    PROVE  SlotsOK'
BY SlotsStay DEF SlotsOK, SlotTypes

LEMMA NextKeepsSlots ==
    ASSUME SlotsOK, SentOK, Next
    PROVE  SlotsOK'
<1>1. ASSUME NEW r \in Runs, Send(r) \/ Complete(r) \/ Resume(r) PROVE SlotsOK'
  BY <1>1, SlotsAlone DEF Send, Complete, Resume
<1>2. ASSUME NEW r \in Runs, Suspend(r) \/ Stop(r) PROVE SlotsOK'
  BY <1>2, AbortKeepsSlots DEF Suspend, Stop
<1>3. ASSUME NEW c \in Call, Finish(c) \/ FinishCut(c) PROVE SlotsOK'
  BY <1>3, LeaveKeepsSlots DEF Finish, FinishCut
<1> QED BY <1>1, <1>2, <1>3, ReceiveKeepsSlots, CheckKeepsSlots, FlightKeepsSlots, CrashEmptiesSlots DEF Next, CallStep

-----------------------------------------------------------------------------
(* The slots are handed out in order *)

LEMMA SameWidth ==
    /\ \A S : HostPool!Cardinality(S) = Cardinality(S)
    /\ \A r \in Runs : \A S : GuardPool(r)!Cardinality(S) = Cardinality(S)
BY DEF HostPool!Cardinality, GuardPool!Cardinality, Cardinality

LEMMA HostJoined ==
    ASSUME SlotsOK, NEW c \in Call, at[c] = "checking",
           Joined(c, Slots, Dispatched, Dispatched', queue, queue')
    PROVE  HostPool!PStep
<1>1. HostPool!Stranger(c)
  BY DEF HostPool!Stranger, Dispatched, SlotsOK, HostOK, InLine
<1>2. HostPool!Take(c) \/ HostPool!Wait(c)
  BY <1>1, SameWidth DEF Joined, HostPool!Take, HostPool!Wait
<1> QED BY <1>2 DEF HostPool!PStep, HostPool!PNext

LEMMA HostReturned ==
    ASSUME NEW c \in Dispatched, Returned(c, Dispatched, Dispatched', queue, queue')
    PROVE  HostPool!PStep
<1>1. HostPool!Give(c) \/ HostPool!Hand(c)
  BY DEF Returned, HostPool!Give, HostPool!Hand
<1>2. c \in Call
  BY DEF Dispatched
<1> QED BY <1>1, <1>2 DEF HostPool!PStep, HostPool!PNext

LEMMA HostUntouched ==
    ASSUME queue' = queue, \A x \in Call : at[x] \in Admitted <=> at'[x] \in Admitted
    PROVE  HostPool!PStep
<1>1. Dispatched' = Dispatched
  BY DEF Dispatched, Admitted
<1> QED BY <1>1 DEF HostPool!PStep, HostPool!pvars

LEMMA GuardJoined ==
    ASSUME SlotsOK, NEW r \in Runs, NEW c \in Call, c.run = r, at[c] = "out",
           Joined(c, Concurrency, Holding(r), Holding(r)', guardQueue[r], guardQueue'[r])
    PROVE  GuardPool(r)!PStep
<1>1. GuardPool(r)!Stranger(c)
  BY DEF GuardPool!Stranger, Holding, SlotsOK, GuardOK, InLine
<1>2. GuardPool(r)!Take(c) \/ GuardPool(r)!Wait(c)
  BY <1>1, SameWidth DEF Joined, GuardPool!Take, GuardPool!Wait
<1> QED BY <1>2 DEF GuardPool!PStep, GuardPool!PNext

LEMMA GuardReturned ==
    ASSUME NEW r \in Runs, NEW c \in Holding(r),
           Returned(c, Holding(r), Holding(r)', guardQueue[r], guardQueue'[r])
    PROVE  GuardPool(r)!PStep
<1>1. GuardPool(r)!Give(c) \/ GuardPool(r)!Hand(c)
  BY DEF Returned, GuardPool!Give, GuardPool!Hand
<1>2. c \in Call /\ c.run = r
  BY DEF Holding
<1> QED BY <1>1, <1>2 DEF GuardPool!PStep, GuardPool!PNext

LEMMA GuardUntouched ==
    ASSUME NEW r \in Runs, guardQueue'[r] = guardQueue[r],
           \A x \in Call : x.run = r => (at[x] \in Idle <=> at'[x] \in Idle)
    PROVE  GuardPool(r)!PStep
<1>1. Holding(r)' = Holding(r)
  BY DEF Holding, Idle
<1> QED BY <1>1 DEF GuardPool!PStep, GuardPool!pvars

LEMMA PoolsUntouched ==
    ASSUME UNCHANGED slots,
           \A x \in Call : (at[x] \in Admitted <=> at'[x] \in Admitted) /\ (at[x] \in Idle <=> at'[x] \in Idle)
    PROVE  HostPool!PStep /\ \A r \in Runs : GuardPool(r)!PStep
BY HostUntouched, GuardUntouched DEF slots

LEMMA NextServesInOrder ==
    ASSUME SlotsOK, SentOK, Next
    PROVE  HostPool!PStep /\ \A r \in Runs : GuardPool(r)!PStep
<1> DEFINE InOrder == HostPool!PStep /\ \A r \in Runs : GuardPool(r)!PStep
<1>1. ASSUME NEW r \in Runs, Send(r) \/ Complete(r) \/ Resume(r) PROVE InOrder
  BY <1>1, PoolsUntouched DEF Send, Complete, Resume
<1>2. ASSUME NEW r \in Runs, Suspend(r) \/ Stop(r) PROVE InOrder
  <2>1. \A x \in Call : (at[x] \in Admitted <=> at'[x] \in Admitted) /\ (at[x] \in Idle <=> at'[x] \in Idle)
    BY <1>2, AbortKeepsSlots DEF Suspend, Stop, Admitted, Idle
  <2> QED BY <1>2, <2>1, PoolsUntouched DEF Suspend, Stop
<1>3. ASSUME NEW c \in Call, Launch(c) \/ Answer(c) PROVE InOrder
  <2>1. at[c] \in Admitted /\ at'[c] \in Admitted /\ \A x \in Call : x # c => at'[x] = at[x]
    BY <1>3, FlightKeepsSlots
  <2>2. \A x \in Call : (at[x] \in Admitted <=> at'[x] \in Admitted) /\ (at[x] \in Idle <=> at'[x] \in Idle)
    BY <2>1 DEF Admitted, Idle
  <2> QED BY <1>3, <2>2, PoolsUntouched DEF Launch, Answer
<1>4. ASSUME NEW c \in Call, Receive(c) PROVE InOrder
  <2>1. /\ at[c] = "out" /\ at'[c] \in {"out", "checking", "slot"}
        /\ \A x \in Call : x # c => at'[x] = at[x]
        /\ queue' = queue /\ \A q \in Runs : q # c.run => guardQueue'[q] = guardQueue[q]
        /\ \/ UNCHANGED <<guardQueue, at>>
           \/ Joined(c, Concurrency, Holding(c.run), Holding(c.run)', guardQueue[c.run], guardQueue'[c.run])
    BY <1>4, ReceiveKeepsSlots
  <2>2. HostPool!PStep
    BY <2>1, HostUntouched DEF Admitted
  <2>3. ASSUME NEW r \in Runs PROVE GuardPool(r)!PStep
    <3>1. CASE /\ c.run = r
               /\ Joined(c, Concurrency, Holding(r), Holding(r)', guardQueue[r], guardQueue'[r])
      BY <1>4, <2>1, <3>1, GuardJoined
    <3>2. CASE c.run # r
      BY <2>1, <3>2, GuardUntouched
    <3>3. CASE UNCHANGED <<guardQueue, at>>
      BY <3>3, GuardUntouched
    <3> QED BY <2>1, <3>1, <3>2, <3>3
  <2> QED BY <2>2, <2>3
<1>5. ASSUME NEW c \in Call, Check(c) PROVE InOrder
  <2>0. at[c] = "checking" /\ c.run \in Runs /\ c \in Holding(c.run)
    BY <1>5, CallTypes DEF Check, Holding
  <2>1. CASE /\ at'[c] \in {"starting", "queued"} /\ \A x \in Call : x # c => at'[x] = at[x]
             /\ guardQueue' = guardQueue /\ Joined(c, Slots, Dispatched, Dispatched', queue, queue')
    BY <2>0, <2>1, HostJoined, GuardUntouched DEF Idle
  <2>2. CASE /\ at'[c] = "out"
             /\ \A x \in Call : x # c => \/ at'[x] = at[x]
                                         \/ x.run = c.run /\ at[x] = "slot" /\ at'[x] = "checking"
             /\ queue' = queue /\ \A q \in Runs : q # c.run => guardQueue'[q] = guardQueue[q]
             /\ Returned(c, Holding(c.run), Holding(c.run)', guardQueue[c.run], guardQueue'[c.run])
    <3>1. HostPool!PStep
      BY <2>0, <2>2, HostUntouched DEF Admitted
    <3>2. ASSUME NEW r \in Runs, r # c.run PROVE GuardPool(r)!PStep
      BY <2>2, <3>2, GuardUntouched
    <3> QED BY <2>0, <2>2, <3>1, <3>2, GuardReturned
  <2> QED BY <1>5, <2>1, <2>2, CheckKeepsSlots
<1>6. ASSUME NEW c \in Call, Finish(c) \/ FinishCut(c) PROVE InOrder
  <2>1. /\ at[c] \in {"cut", "answered"} /\ at'[c] = "out"
        /\ \A x \in Call : x # c => \/ at'[x] = at[x]
                                    \/ x.run = c.run /\ at[x] = "slot" /\ at'[x] = "checking"
                                    \/ at[x] = "queued" /\ at'[x] = "starting"
        /\ Returned(c, Dispatched, Dispatched', queue, queue')
        /\ Returned(c, Holding(c.run), Holding(c.run)', guardQueue[c.run], guardQueue'[c.run])
        /\ \A q \in Runs : q # c.run => guardQueue'[q] = guardQueue[q]
    BY <1>6, LeaveKeepsSlots DEF Finish, FinishCut
  <2>2. c \in Dispatched /\ c \in Holding(c.run) /\ c.run \in Runs
    BY <2>1, CallTypes DEF Dispatched, Holding
  <2>3. ASSUME NEW r \in Runs, r # c.run PROVE GuardPool(r)!PStep
    BY <2>1, <2>3, GuardUntouched DEF Idle
  <2> QED BY <2>1, <2>2, <2>3, HostReturned, GuardReturned
<1>7. CASE Crash
  <2>1. Dispatched' = {} /\ \A r \in Runs : Holding(r)' = {}
    BY <1>7, CrashEmptiesSlots DEF Dispatched, Holding
  <2>2. queue' = <<>> /\ \A r \in Runs : guardQueue'[r] = <<>>
    BY <1>7 DEF Crash
  <2> QED BY <2>1, <2>2 DEF HostPool!PStep, HostPool!PNext, HostPool!Reset,
                           GuardPool!PStep, GuardPool!PNext, GuardPool!Reset
<1> QED BY <1>1, <1>2, <1>3, <1>4, <1>5, <1>6, <1>7 DEF Next, CallStep

-----------------------------------------------------------------------------
(* A call is sent once *)

LEMMA SentStays ==
    ASSUME SentOK, UNCHANGED <<gen, sent>>, pipe' \subseteq pipe,
           \A x \in Call : at[x] = "out" => at'[x] = "out"
    PROVE  SentOK'
BY DEF SentOK, Sent

LEMMA NextKeepsSent ==
    ASSUME TypeOK, SlotsOK, SentOK, Next
    PROVE  SentOK'
<1>1. ASSUME NEW r \in Runs, Send(r) PROVE SentOK'
  <2>1. /\ sent[r] < Calls /\ pipe' = pipe \cup {Own(r, sent[r])} /\ sent' = [sent EXCEPT ![r] = @ + 1]
        /\ UNCHANGED <<gen, at>>
    BY <1>1 DEF Send, Own
  <2>2. gen[r] \in 1..MaxExecutions /\ sent[r] \in 0..Calls /\ Calls \in Nat
    BY DispatchAssumption DEF TypeOK
  <2>3. Own(r, sent[r]) \in Call
    BY <2>1, <2>2 DEF Call, Seqs, Own
  <2>4. PICK d \in Call : d.run = r /\ d.gen = gen[r] /\ d.seq = sent[r] /\ pipe' = pipe \cup {d}
    BY <2>1, <2>3 DEF Own
  <2>5. ~Sent(d)
    BY <2>2, <2>4 DEF Sent
  <2>6. at[d] = "out"
    BY <2>5 DEF SentOK
  <2>7. \A q \in Runs : sent'[q] = IF q = r THEN sent[r] + 1 ELSE sent[q]
    BY <2>1 DEF TypeOK
  <2>8. ASSUME NEW c \in Call, c # d PROVE (c \in pipe' => at'[c] = "out") /\ (c \in pipe' \/ at'[c] # "out" => Sent(c)')
    <3>1. c.run \in Runs /\ c.seq \in Nat /\ sent[c.run] \in Nat
      BY CallTypes DEF Seqs, TypeOK
    <3>2. Sent(c) => Sent(c)'
      BY <2>1, <2>7, <3>1 DEF Sent
    <3> QED BY <2>1, <2>4, <2>8, <3>2 DEF SentOK
  <2>9. at'[d] = "out" /\ Sent(d)'
    BY <2>1, <2>2, <2>4, <2>6, <2>7 DEF Sent
  <2> QED BY <2>8, <2>9 DEF SentOK
<1>2. ASSUME NEW c \in Call, Receive(c) PROVE SentOK'
  <2>1. c \in pipe /\ pipe' = pipe \ {c} /\ UNCHANGED <<gen, sent>>
    BY <1>2 DEF Receive
  <2>2. \A x \in Call : x # c => at'[x] = at[x]
    BY <1>2, ReceiveKeepsSlots
  <2> QED BY <2>1, <2>2 DEF SentOK, Sent
<1>3. ASSUME NEW c \in Call, CallStep(c) \/ Answer(c) PROVE SentOK'
  <2>1. UNCHANGED <<gen, sent, pipe>> /\ at[c] # "out"
    BY <1>3 DEF CallStep, Check, Launch, Answer, Finish, FinishCut, Leave
  <2>2. \A x \in Call : x # c /\ at[x] = "out" => at'[x] = "out"
    <3>1. CASE Check(c)
      BY <3>1, CheckKeepsSlots
    <3>2. CASE Launch(c) \/ Answer(c)
      BY <3>2, FlightKeepsSlots
    <3>3. CASE Finish(c) \/ FinishCut(c)
      BY <3>3, LeaveKeepsSlots DEF Finish, FinishCut
    <3> QED BY <1>3, <3>1, <3>2, <3>3 DEF CallStep
  <2> QED BY <2>1, <2>2, SentStays
<1>4. ASSUME NEW r \in Runs, Suspend(r) \/ Stop(r) PROVE SentOK'
  <2>1. UNCHANGED <<gen, sent>> /\ pipe' \subseteq pipe
    BY <1>4 DEF Suspend, Stop, ChildKilled
  <2>2. \A x \in Call : at[x] = "out" => at'[x] = "out"
    BY <1>4, AbortKeepsSlots DEF Suspend, Stop
  <2> QED BY <2>1, <2>2, SentStays
<1>5. ASSUME NEW r \in Runs, Complete(r) PROVE SentOK'
  BY <1>5, SentStays DEF Complete
<1>6. ASSUME NEW r \in Runs, Resume(r) PROVE SentOK'
  <2>1. /\ gen' = [gen EXCEPT ![r] = @ + 1] /\ sent' = [sent EXCEPT ![r] = 0] /\ UNCHANGED <<pipe, at>>
    BY <1>6 DEF Resume
  <2>2. \A q \in Runs : /\ gen[q] \in Nat
                        /\ gen'[q] = IF q = r THEN gen[r] + 1 ELSE gen[q]
                        /\ sent'[q] = IF q = r THEN 0 ELSE sent[q]
    BY <2>1 DEF TypeOK
  <2>3. ASSUME NEW c \in Call PROVE Sent(c) => Sent(c)'
    <3>1. c.run \in Runs /\ c.gen \in Nat
      BY CallTypes
    <3> QED BY <2>2, <3>1 DEF Sent
  <2> QED BY <2>1, <2>3 DEF SentOK
<1>7. CASE Crash
  BY <1>7, CrashEmptiesSlots DEF Crash, SentOK
<1> QED BY <1>1, <1>2, <1>3, <1>4, <1>5, <1>6, <1>7 DEF Next

-----------------------------------------------------------------------------
(* Nothing of an aborted run flies *)

LEMMA NextKeepsAborted ==
    ASSUME TypeOK, SlotsOK, SentOK, NoneFlies, Next
    PROVE  NoneFlies'
<1>1. ASSUME NEW r \in Runs, Send(r) \/ Complete(r) PROVE NoneFlies'
  BY <1>1 DEF Send, Complete, NoneFlies
<1>2. ASSUME NEW c \in Call, Receive(c) PROVE NoneFlies'
  <2>1. at'[c] # "flying" /\ \A x \in Call : x # c => at'[x] = at[x]
    BY <1>2, ReceiveKeepsSlots
  <2> QED BY <1>2, <2>1 DEF Receive, NoneFlies
<1>3. ASSUME NEW c \in Call, Check(c) PROVE NoneFlies'
  BY <1>3, CheckKeepsSlots DEF Check, NoneFlies
<1>4. ASSUME NEW c \in Call, Launch(c) PROVE NoneFlies'
  <2>1. aborted' = aborted /\ (aborted[c.run] => at'[c] = "cut") /\ \A x \in Call : x # c => at'[x] = at[x]
    BY <1>4 DEF Launch, TypeOK
  <2> QED BY <2>1 DEF NoneFlies
<1>5. ASSUME NEW c \in Call, Answer(c) PROVE NoneFlies'
  BY <1>5 DEF Answer, NoneFlies, TypeOK
<1>6. ASSUME NEW c \in Call, Finish(c) \/ FinishCut(c) PROVE NoneFlies'
  <2>1. at[c] \in {"cut", "answered"} /\ \E entry : Leave(c, entry)
    BY <1>6 DEF Finish, FinishCut
  <2>2. aborted' = aborted
    BY <2>1 DEF Leave
  <2>3. \A x \in Call : at'[x] = "flying" => at[x] = "flying"
    BY <2>1, LeaveKeepsSlots
  <2> QED BY <2>2, <2>3 DEF NoneFlies
<1>7. ASSUME NEW r \in Runs, Suspend(r) \/ Stop(r) PROVE NoneFlies'
  <2>1. \A x \in Call : at'[x] = IF x.run = r /\ at[x] = "flying" THEN "cut" ELSE at[x]
    BY <1>7, AbortKeepsSlots DEF Suspend, Stop
  <2>2. \A q \in Runs : q # r => aborted'[q] = aborted[q]
    BY <1>7 DEF Suspend, Stop, Abort, TypeOK
  <2> QED BY <2>1, <2>2, CallTypes DEF NoneFlies
<1>8. ASSUME NEW r \in Runs, Resume(r) PROVE NoneFlies'
  <2>1. at' = at /\ \A q \in Runs : aborted'[q] = IF q = r THEN FALSE ELSE aborted[q]
    BY <1>8 DEF Resume, TypeOK
  <2> QED BY <2>1, CallTypes DEF NoneFlies
<1>9. CASE Crash
  BY <1>9, CrashEmptiesSlots DEF NoneFlies
<1> QED BY <1>1, <1>2, <1>3, <1>4, <1>5, <1>6, <1>7, <1>8, <1>9 DEF Next, CallStep

-----------------------------------------------------------------------------
(* Spending *)

LEMMA SpendingStays ==
    ASSUME NEW r \in Runs, GuardOK(r), SpendingOK(r), spent \in [Runs -> Nat],
           Pending(r)' \subseteq Pending(r), spent'[r] = spent[r]
    PROVE  SpendingOK(r)'
<1>1. IsFiniteSet(Pending(r)) /\ spent[r] \in Nat /\ {Budget, Concurrency} \subseteq Nat
  BY PendingHolds, DispatchAssumption
<1>2. /\ Cardinality(Pending(r)') \in Nat /\ Cardinality(Pending(r)) \in Nat
      /\ Cardinality(Pending(r)') <= Cardinality(Pending(r))
  BY <1>1, Part
<1> QED BY <1>1, <1>2 DEF SpendingOK

\* A call is charged at most once, when it stops being pending.
LEMMA SpendingMoves ==
    ASSUME NEW r \in Runs, GuardOK(r), SpendingOK(r), spent \in [Runs -> Nat],
           NEW c \in Pending(r), Pending(r)' \subseteq Pending(r) \ {c}, spent'[r] \in {spent[r], spent[r] + 1}
    PROVE  SpendingOK(r)'
<1>1. IsFiniteSet(Pending(r)) /\ spent[r] \in Nat /\ {Budget, Concurrency} \subseteq Nat
  BY PendingHolds, DispatchAssumption
<1>2. /\ IsFiniteSet(Pending(r) \ {c}) /\ Cardinality(Pending(r) \ {c}) = Cardinality(Pending(r)) - 1
      /\ Cardinality(Pending(r)) \in Nat
  BY <1>1, OneLess
<1>3. Cardinality(Pending(r)') \in Nat /\ Cardinality(Pending(r)') <= Cardinality(Pending(r)) - 1
  <2>1. Pending(r)' \in SUBSET (Pending(r) \ {c})
    OBVIOUS
  <2> QED BY <1>2, <2>1, Part
<1> QED BY <1>1, <1>2, <1>3 DEF SpendingOK

LEMMA NextKeepsSpending ==
    ASSUME TypeOK, SlotsOK, SentOK, NEW r \in Runs, SpendingOK(r), Next
    PROVE  SpendingOK(r)'
<1>1. spent \in [Runs -> Nat] /\ GuardOK(r)
  BY DEF TypeOK, SlotsOK
<1>2. CASE UNCHANGED <<spent, at>>
  BY <1>1, <1>2, SpendingStays DEF Pending
<1>3. ASSUME NEW q \in Runs, Send(q) \/ Complete(q) \/ Resume(q) PROVE SpendingOK(r)'
  BY <1>2, <1>3 DEF Send, Complete, Resume
<1>4. ASSUME NEW c \in Call, Receive(c) PROVE SpendingOK(r)'
  <2>1. Pending(r)' \subseteq Pending(r) /\ spent' = spent
    BY <1>4, ReceiveKeepsSlots DEF Pending, Receive
  <2> QED BY <1>1, <2>1, SpendingStays
<1>5. ASSUME NEW c \in Call, Check(c) PROVE SpendingOK(r)'
  <2>1. spent' = spent /\ SlotsOK'
    BY <1>5, CheckKeepsSlots DEF Check
  <2>2. CASE Pending(r)' \subseteq Pending(r)
    BY <1>1, <2>1, <2>2, SpendingStays
  <2>3. CASE c.run = r /\ spent[r] < Budget
    <3>1. GuardOK(r)'
      BY <2>1 DEF SlotsOK
    <3>2. Cardinality(Pending(r)') \in Nat /\ Cardinality(Pending(r)') <= Concurrency
      <4>1. /\ Pending(r)' \in SUBSET (Holding(r)') /\ IsFiniteSet(Holding(r)')
            /\ Cardinality(Holding(r)') <= Concurrency
        BY <3>1 DEF Pending, Holding, GuardOK
      <4> QED BY <4>1, Part, DispatchAssumption
    <3>3. spent'[r] = spent[r] /\ spent[r] \in Nat /\ {Budget, Concurrency} \subseteq Nat
      BY <1>1, <2>1, DispatchAssumption
    <3> QED BY <2>3, <3>2, <3>3 DEF SpendingOK
  <2> QED BY <1>5, <2>2, <2>3, CheckKeepsSlots DEF Pending
<1>6. ASSUME NEW c \in Call, Launch(c) PROVE SpendingOK(r)'
  <2>1. Pending(r)' \subseteq Pending(r) /\ spent' = spent
    BY <1>6 DEF Pending, Launch, TypeOK
  <2> QED BY <1>1, <2>1, SpendingStays
<1>7. ASSUME NEW c \in Call, Answer(c) PROVE SpendingOK(r)'
  <2>1. /\ at[c] = "flying" /\ at'[c] = "answered" /\ \A x \in Call : x # c => at'[x] = at[x]
        /\ spent' = [spent EXCEPT ![c.run] = @ + 1]
    BY <1>7 DEF Answer, TypeOK
  <2>2. CASE c.run = r
    <3>1. c \in Pending(r) /\ Pending(r)' \subseteq Pending(r) \ {c} /\ spent'[r] = spent[r] + 1
      BY <1>1, <2>1, <2>2 DEF Pending
    <3> QED BY <1>1, <3>1, SpendingMoves
  <2>3. CASE c.run # r
    <3>1. Pending(r)' \subseteq Pending(r) /\ spent'[r] = spent[r]
      BY <1>1, <2>1, <2>3 DEF Pending
    <3> QED BY <1>1, <3>1, SpendingStays
  <2> QED BY <2>2, <2>3
<1>8. ASSUME NEW c \in Call, Finish(c) \/ FinishCut(c) PROVE SpendingOK(r)'
  <2>1. /\ at[c] \in {"cut", "answered"} /\ at'[c] = "out"
        /\ \A x \in Call : x # c => \/ at'[x] = at[x]
                                    \/ at[x] = "slot" /\ at'[x] = "checking"
                                    \/ at[x] = "queued" /\ at'[x] = "starting"
    BY <1>8, LeaveKeepsSlots DEF Finish, FinishCut
  <2>2. Pending(r)' \subseteq Pending(r) \ {c}
    BY <2>1 DEF Pending
  <2>3. CASE spent' = spent
    BY <1>1, <2>2, <2>3, SpendingStays
  <2>4. CASE at[c] = "cut" /\ spent' = [spent EXCEPT ![c.run] = @ + 1] /\ c.run = r
    <3>1. c \in Pending(r) /\ spent'[r] = spent[r] + 1
      BY <1>1, <2>4 DEF Pending
    <3> QED BY <1>1, <2>2, <3>1, SpendingMoves
  <2>5. CASE spent' = [spent EXCEPT ![c.run] = @ + 1] /\ c.run # r
    <3>1. spent'[r] = spent[r]
      BY <1>1, <2>5
    <3> QED BY <1>1, <2>2, <3>1, SpendingStays
  <2> QED BY <1>8, <2>3, <2>4, <2>5 DEF Finish, FinishCut
<1>9. ASSUME NEW q \in Runs, Suspend(q) \/ Stop(q) PROVE SpendingOK(r)'
  <2>1. Pending(r)' \subseteq Pending(r)
    BY <1>9, AbortKeepsSlots DEF Suspend, Stop, Pending
  <2> QED BY <1>1, <1>9, <2>1, SpendingStays DEF Suspend, Stop
<1>10. CASE Crash
  <2>1. Pending(r)' \subseteq Pending(r) /\ spent' = spent
    BY <1>10, CrashEmptiesSlots DEF Crash, Pending
  <2> QED BY <1>1, <2>1, SpendingStays
<1> QED BY <1>3, <1>4, <1>5, <1>6, <1>7, <1>8, <1>9, <1>10 DEF Next, CallStep

-----------------------------------------------------------------------------
(* Replay *)

LEMMA ReplayStays ==
    ASSUME NEW r \in Runs, ReplayOK(r), replayed'[r] = replayed[r], missed'[r] = missed[r], gen'[r] = gen[r],
           sent'[r] = sent[r], state'[r] = "running" => state[r] = "running", pipe' = pipe
    PROVE  ReplayOK(r)'
BY DEF ReplayOK, Own

\* A suspend or a stop may lose what the killed child had written.
LEMMA ReplayCut ==
    ASSUME NEW r \in Runs, ReplayOK(r), UNCHANGED <<replayed, missed, gen, sent>>,
           pipe' = pipe \/ \E q \in Runs : pipe' = {c \in pipe : c.run # q} /\ state'[q] # "running",
           state'[r] = "running" => state[r] = "running"
    PROVE  ReplayOK(r)'
<1>1. CASE pipe' = pipe
  BY <1>1, ReplayStays
<1>2. ASSUME NEW q \in Runs, pipe' = {c \in pipe : c.run # q}, state'[q] # "running" PROVE ReplayOK(r)'
  <2>1. CASE q = r
    BY <1>2, <2>1 DEF ReplayOK
  <2>2. CASE q # r
    <3>1. \A n \in Seqs : Own(r, n)' = Own(r, n) /\ (Own(r, n) \in pipe <=> Own(r, n) \in pipe')
      BY <1>2, <2>2 DEF Own
    <3> QED BY <1>2, <3>1 DEF ReplayOK
  <2> QED BY <2>1, <2>2
<1> QED BY <1>1, <1>2

LEMMA ReceiveKeepsReplay ==
    ASSUME TypeOK, SentOK, NEW r \in Runs, ReplayOK(r), NEW c \in Call, Receive(c)
    PROVE  ReplayOK(r)'
<1>1. /\ c \in pipe /\ pipe' = pipe \ {c} /\ UNCHANGED <<state, gen, sent, plan>>
      /\ \A d \in pipe : d.run = c.run /\ d.gen = c.gen => d.seq >= c.seq
  BY DEF Receive
<1>2. CASE c.run # r
  <2>1. missed'[r] = missed[r] /\ replayed'[r] = replayed[r]
    BY <1>2 DEF Receive, TypeOK
  <2>2. \A n \in Seqs : Own(r, n)' = Own(r, n) /\ (Own(r, n) \in pipe <=> Own(r, n) \in pipe')
    BY <1>1, <1>2 DEF Own
  <2>3. \A d \in pipe' : d \in pipe
    BY <1>1
  <2> QED BY <1>1, <2>1, <2>2, <2>3 DEF ReplayOK
<1>3. CASE c.run = r /\ missed'[r] = TRUE /\ replayed'[r] = replayed[r]
  BY <1>3 DEF ReplayOK
<1>4. CASE c.run = r /\ Replays(r, c.seq) /\ missed' = missed /\ c.gen # gen[r] /\ replayed'[r] = replayed[r]
  <2>1. \A n \in Seqs : Own(r, n)' = Own(r, n) /\ (Own(r, n) \in pipe <=> Own(r, n) \in pipe')
    BY <1>1, <1>4 DEF Own
  <2>2. \A d \in pipe' : d \in pipe
    BY <1>1
  <2> QED BY <1>1, <1>4, <2>1, <2>2 DEF ReplayOK
<1>5. CASE c.run = r /\ Replays(r, c.seq) /\ missed' = missed /\ c.gen = gen[r] /\ replayed'[r] = replayed[r] \cup {c.seq}
  <2>1. c = Own(r, c.seq) /\ c.seq \in Seqs /\ ~missed[r]
    BY <1>5 DEF Call, Own, Replays
  <2>2. \A q \in Seqs : q < c.seq => Own(r, q) \notin pipe
    <3>1. SUFFICES ASSUME NEW q \in Seqs, q < c.seq, Own(r, q) \in pipe PROVE FALSE
      OBVIOUS
    <3>2. Own(r, q).run = r /\ Own(r, q).gen = gen[r] /\ Own(r, q).seq = q
      BY DEF Own
    <3> QED BY <1>1, <1>5, <2>1, <3>1, <3>2 DEF Seqs
  <2>3. \A q \in Seqs : q < c.seq => q \in replayed[r]
    BY <1>1, <1>5, <2>1, <2>2 DEF ReplayOK
  <2>4. \A q \in Seqs : Own(r, q)' = Own(r, q) /\ (Own(r, q) \in pipe => Own(r, q) \in pipe' \/ q = c.seq)
    BY <1>1, <2>1 DEF Own
  <2>5. \A s \in replayed'[r] : \A q \in Seqs : q < s => q \in replayed'[r]
    BY <1>5, <2>3 DEF ReplayOK
  <2>6. \A d \in pipe' : d \in pipe
    BY <1>1
  <2> QED BY <1>1, <1>5, <2>1, <2>4, <2>5, <2>6 DEF ReplayOK
<1>6. c.run = r =>
         \/ missed'[r] = TRUE /\ replayed'[r] = replayed[r]
         \/ /\ Replays(r, c.seq) /\ missed' = missed
            /\ IF c.gen = gen[r] THEN replayed'[r] = replayed[r] \cup {c.seq} ELSE replayed'[r] = replayed[r]
  BY DEF Receive, TypeOK
<1> QED BY <1>2, <1>3, <1>4, <1>5, <1>6

LEMMA NextKeepsReplay ==
    ASSUME TypeOK, SentOK, NEW r \in Runs, ReplayOK(r), Next
    PROVE  ReplayOK(r)'
<1>1. ASSUME NEW q \in Runs, Send(q) PROVE ReplayOK(r)'
  <2>1. /\ state[q] = "running" /\ pipe' = pipe \cup {Own(q, sent[q])} /\ sent' = [sent EXCEPT ![q] = @ + 1]
        /\ UNCHANGED <<state, gen, missed, replayed>>
    BY <1>1 DEF Send, Own, plans
  <2>2. sent[q] \in Nat /\ sent[r] \in Nat
    BY DEF TypeOK
  <2>3. CASE q # r
    <3>1. sent'[r] = sent[r]
      BY <2>1, <2>3 DEF TypeOK
    <3>2. \A d \in pipe' : d \in pipe \/ d.run = q
      BY <2>1 DEF Own
    <3>3. \A n \in Seqs : Own(r, n)' = Own(r, n) /\ (Own(r, n) \in pipe => Own(r, n) \in pipe')
      BY <2>1 DEF Own
    <3> QED BY <2>1, <2>3, <3>1, <3>2, <3>3 DEF ReplayOK
  <2>4. CASE q = r
    <3>1. sent'[r] = sent[r] + 1
      BY <2>1, <2>4 DEF TypeOK
    <3>2. \A n \in Seqs : Own(r, n)' = Own(r, n) /\ (Own(r, n) \in pipe => Own(r, n) \in pipe')
      BY <2>1 DEF Own
    <3>3. ASSUME ~missed[r] PROVE \A n \in Seqs : n < sent[r] + 1 => n \in replayed[r] \/ Own(r, n) \in pipe'
      <4>1. SUFFICES ASSUME NEW n \in Seqs, n < sent[r] + 1 PROVE n \in replayed[r] \/ Own(r, n) \in pipe'
        OBVIOUS
      <4>2. n < sent[r] \/ n = sent[r]
        BY <2>2, <4>1 DEF Seqs
      <4> QED BY <2>1, <2>4, <3>2, <3>3, <4>2 DEF ReplayOK
    <3>4. \A d \in pipe' : d.run = r /\ d.gen = gen[r] => d.seq \in Nat /\ d.seq < sent[r] + 1
      <4>1. \A d \in pipe : d \in Call
        BY DEF TypeOK
      <4>2. \A d \in pipe : d.run = r /\ d.gen = gen[r] => d.seq \in Nat /\ d.seq < sent[r]
        <5>1. SUFFICES ASSUME NEW d \in pipe, d.run = r, d.gen = gen[r] PROVE d.seq \in Nat /\ d.seq < sent[r]
          OBVIOUS
        <5>2. d \in Call /\ gen[r] \in Nat /\ d.seq \in Nat
          BY <4>1, CallTypes DEF TypeOK, Seqs
        <5>3. Sent(d)
          BY <5>2 DEF SentOK
        <5> QED BY <5>1, <5>2, <5>3 DEF Sent
      <4>3. Own(r, sent[r]).seq = sent[r]
        BY DEF Own
      <4> QED BY <2>1, <2>2, <2>4, <4>2, <4>3
    <3>5. ASSUME ~missed[r], NEW d \in pipe', d.run = r, d.gen = gen[r], NEW n \in Seqs, n < d.seq
          PROVE  n \in replayed[r] \/ Own(r, n) \in pipe'
      <4>1. n < sent[r] + 1
        BY <2>2, <3>4, <3>5 DEF Seqs
      <4> QED BY <3>3, <3>5, <4>1
    <3> QED BY <2>1, <3>1, <3>2, <3>3, <3>5 DEF ReplayOK
  <2> QED BY <2>3, <2>4
<1>2. ASSUME NEW q \in Runs, Complete(q) PROVE ReplayOK(r)'
  <2>1. state'[r] = "running" => state[r] = "running"
    BY <1>2 DEF Complete, TypeOK
  <2> QED BY <1>2, <2>1, ReplayCut DEF Complete, plans
<1>3. ASSUME NEW c \in Call, CallStep(c) \/ Answer(c) PROVE ReplayOK(r)'
  <2>1. UNCHANGED <<state, gen, sent, pipe, plans>>
    BY <1>3 DEF CallStep, Check, Launch, Answer, Finish, FinishCut, Leave
  <2> QED BY <2>1, ReplayStays DEF plans
<1>4. ASSUME NEW q \in Runs, Suspend(q) \/ Stop(q) PROVE ReplayOK(r)'
  <2>1. UNCHANGED <<replayed, missed, gen, sent>> /\ (pipe' = pipe \/ pipe' = {c \in pipe : c.run # q})
    BY <1>4 DEF Suspend, Stop, ChildKilled, plans
  <2>2. state'[q] # "running" /\ (state'[r] = "running" => state[r] = "running")
    BY <1>4 DEF Suspend, Stop, TypeOK
  <2> QED BY <2>1, <2>2, ReplayCut
<1>5. ASSUME NEW q \in Runs, Resume(q) PROVE ReplayOK(r)'
  <2>1. CASE q # r
    <3>1. /\ replayed'[r] = replayed[r] /\ missed'[r] = missed[r] /\ gen'[r] = gen[r] /\ sent'[r] = sent[r]
          /\ state'[r] = state[r] /\ pipe' = pipe
      BY <1>5, <2>1 DEF Resume, TypeOK
    <3> QED BY <3>1, ReplayStays
  <2>2. CASE q = r
    <3>1. replayed'[r] = {} /\ sent'[r] = 0 /\ gen'[r] = gen[r] + 1 /\ pipe' = pipe /\ gen[r] \in Nat
      BY <1>5, <2>2 DEF Resume, TypeOK
    <3>2. \A d \in pipe : d.run = r => d.gen # gen[r] + 1
      <4>1. \A d \in pipe : d \in Call /\ d.gen \in Nat
        BY CallTypes DEF TypeOK
      <4> QED BY <3>1, <4>1 DEF SentOK, Sent
    <3>3. \A n \in Seqs : ~(n < 0)
      BY DEF Seqs
    <3> QED BY <3>1, <3>2, <3>3 DEF ReplayOK
  <2> QED BY <2>1, <2>2
<1>6. CASE Crash
  <2>1. replayed'[r] = {} /\ pipe' = {} /\ state'[r] # "running"
    BY <1>6 DEF Crash
  <2> QED BY <2>1 DEF ReplayOK
<1> QED BY <1>1, <1>2, <1>3, <1>4, <1>5, <1>6, ReceiveKeepsReplay DEF Next

-----------------------------------------------------------------------------
(* Types *)

RunTypes ==
    /\ state \in [Runs -> {"running", "suspended", "over"}]
    /\ gen \in [Runs -> 1..MaxExecutions] /\ aborted \in [Runs -> BOOLEAN]
    /\ sent \in [Runs -> 0..Calls] /\ pipe \subseteq Call
    /\ plan \in [Runs -> SUBSET Seqs] /\ missed \in [Runs -> BOOLEAN]
    /\ replayed \in [Runs -> SUBSET Seqs]
    /\ spent \in [Runs -> Nat]
    /\ journal \in [Runs -> [Seqs -> {"none", "settled", "aborted"}]]
    /\ crashes \in 0..MaxCrashes

LEMMA TypeParts == TypeOK <=> RunTypes /\ SlotTypes
BY DEF TypeOK, RunTypes, SlotTypes

LEMMA NextKeepsTypes ==
    ASSUME RunTypes, Next
    PROVE  RunTypes'
<1> USE DEF RunTypes
<1>1. {Calls, MaxExecutions} \subseteq Nat \ {0} /\ MaxCrashes \in Nat
  BY DispatchAssumption
<1>2. ASSUME NEW r \in Runs, Send(r) PROVE RunTypes'
  <2>1. [run |-> r, gen |-> gen[r], seq |-> sent[r]] \in Call
    BY <1>1, <1>2 DEF Send, Call, Seqs
  <2>2. sent' \in [Runs -> 0..Calls]
    BY <1>1, <1>2 DEF Send
  <2> QED BY <1>2, <2>1, <2>2 DEF Send, plans
<1>3. ASSUME NEW r \in Runs, Suspend(r) \/ Stop(r) PROVE RunTypes'
  <2>1. pipe' \subseteq Call
    BY <1>3 DEF Suspend, Stop, ChildKilled
  <2>2. aborted' \in [Runs -> BOOLEAN] /\ state' \in [Runs -> {"running", "suspended", "over"}]
    BY <1>3 DEF Suspend, Stop, Abort
  <2> QED BY <1>3, <2>1, <2>2 DEF Suspend, Stop, plans
<1>4. ASSUME NEW r \in Runs, Complete(r) PROVE RunTypes'
  BY <1>4 DEF Complete, plans
<1>5. ASSUME NEW r \in Runs, Resume(r) PROVE RunTypes'
  <2>1. gen' \in [Runs -> 1..MaxExecutions] /\ sent' \in [Runs -> 0..Calls]
    BY <1>1, <1>5 DEF Resume
  <2>2. {s \in Seqs : journal[r][s] = "settled"} \in SUBSET Seqs
    OBVIOUS
  <2> QED BY <1>5, <2>1, <2>2 DEF Resume
<1>6. ASSUME NEW c \in Call, Receive(c) PROVE RunTypes'
  <2>1. c.run \in Runs /\ c.seq \in Seqs
    BY CallTypes
  <2>2. missed' \in [Runs -> BOOLEAN]
    BY <1>6, <2>1 DEF Receive
  <2>3. \/ replayed' = replayed
        \/ replayed' = [replayed EXCEPT ![c.run] = IF c.gen = gen[c.run] THEN @ \cup {c.seq} ELSE @]
    BY <1>6 DEF Receive
  <2>4. replayed[c.run] \cup {c.seq} \in SUBSET Seqs /\ replayed[c.run] \in SUBSET Seqs
    BY <2>1
  <2>5. replayed' \in [Runs -> SUBSET Seqs]
    <3>1. CASE replayed' = replayed
      BY <3>1
    <3>2. CASE replayed' = [replayed EXCEPT ![c.run] = IF c.gen = gen[c.run] THEN @ \cup {c.seq} ELSE @]
      BY <2>4, <3>2
    <3> QED BY <2>3, <3>1, <3>2
  <2>6. pipe' \subseteq Call
    BY <1>6 DEF Receive
  <2> QED BY <1>6, <2>2, <2>5, <2>6 DEF Receive
<1>7. ASSUME NEW c \in Call, Check(c) \/ Launch(c) PROVE RunTypes'
  BY <1>7 DEF Check, Launch, plans
<1>8. ASSUME NEW c \in Call, Answer(c) PROVE RunTypes'
  <2>1. spent' \in [Runs -> Nat]
    BY <1>8, CallTypes DEF Answer
  <2> QED BY <1>8, <2>1 DEF Answer, plans
<1>9. ASSUME NEW c \in Call, NEW entry \in {"settled", "aborted"}, Leave(c, entry), spent' \in [Runs -> Nat]
      PROVE  RunTypes'
  <2>1. c.run \in Runs /\ c.seq \in Seqs
    BY CallTypes
  <2>2. journal' \in [Runs -> [Seqs -> {"none", "settled", "aborted"}]]
    BY <1>9, <2>1 DEF Leave
  <2> QED BY <1>9, <2>2 DEF Leave, plans
<1>10. ASSUME NEW c \in Call, Finish(c) \/ FinishCut(c) PROVE RunTypes'
  <2>1. spent' \in [Runs -> Nat]
    BY <1>10 DEF Finish, FinishCut
  <2> QED BY <1>9, <1>10, <2>1 DEF Finish, FinishCut
<1>11. CASE Crash
  BY <1>1, <1>11 DEF Crash
<1> QED BY <1>2, <1>3, <1>4, <1>5, <1>6, <1>7, <1>8, <1>10, <1>11 DEF Next, CallStep

-----------------------------------------------------------------------------
(* The theorems *)

LEMMA InitHolds == Init => IInv
<1> SUFFICES ASSUME Init PROVE IInv
  OBVIOUS
<1>1. {Calls, Slots, Concurrency, Budget, MaxExecutions} \subseteq Nat \ {0} /\ MaxCrashes \in Nat
  BY DispatchAssumption
<1>2. TypeOK
  BY <1>1 DEF Init, TypeOK, Places
<1>3. Dispatched = {} /\ \A r \in Runs : Holding(r) = {} /\ Pending(r) = {}
  BY DEF Init, Dispatched, Holding, Pending
<1>4. HostOK
  BY <1>1, <1>3, FS_EmptySet DEF Init, HostOK, InLine
<1>5. ASSUME NEW r \in Runs PROVE GuardOK(r) /\ SpendingOK(r) /\ ReplayOK(r)
  <2>1. /\ guardQueue[r] = <<>> /\ DOMAIN guardQueue[r] = {} /\ inFlight[r] = 0 /\ Holding(r) = {}
        /\ spent[r] = 0 /\ Pending(r) = {} /\ replayed[r] = {} /\ sent[r] = 0 /\ pipe = {}
    BY <1>3 DEF Init
  <2>2. GuardOK(r)
    BY <1>1, <2>1, FS_EmptySet DEF GuardOK, InLine
  <2>3. SpendingOK(r)
    BY <1>1, <2>1, FS_EmptySet DEF SpendingOK
  <2>4. ReplayOK(r)
    BY <2>1 DEF ReplayOK, Seqs
  <2> QED BY <2>2, <2>3, <2>4
<1>6. SentOK /\ NoneFlies
  BY DEF Init, SentOK, NoneFlies
<1> QED BY <1>2, <1>4, <1>5, <1>6 DEF IInv

LEMMA IInvKept == IInv /\ [Next]_vars => IInv'
<1> SUFFICES ASSUME IInv, [Next]_vars PROVE IInv'
  OBVIOUS
<1>1. /\ TypeOK /\ SlotsOK /\ SentOK /\ NoneFlies /\ RunTypes
      /\ \A r \in Runs : SpendingOK(r) /\ ReplayOK(r)
  BY TypeParts DEF IInv, SlotsOK
<1>2. CASE Next
  <2>1. SlotsOK' /\ RunTypes'
    BY <1>1, <1>2, NextKeepsSlots, NextKeepsTypes
  <2>2. TypeOK' /\ HostOK' /\ \A r \in Runs : GuardOK(r)'
    BY <2>1, TypeParts DEF SlotsOK, TypeOK, RunTypes, SlotTypes
  <2>3. SentOK' /\ NoneFlies'
    BY <1>1, <1>2, NextKeepsSent, NextKeepsAborted
  <2>4. \A r \in Runs : SpendingOK(r)' /\ ReplayOK(r)'
    BY <1>1, <1>2, NextKeepsSpending, NextKeepsReplay
  <2> QED BY <2>2, <2>3, <2>4 DEF IInv
<1>3. CASE UNCHANGED vars
  <2>0. UNCHANGED <<slots, at>>
    BY <1>3 DEF vars
  <2>1a. SlotsOK'
    BY <1>1, <2>0, SlotsAlone
  <2>1b. RunTypes'
    BY <1>1, <1>3 DEF vars, plans, RunTypes
  <2>1c. SentOK' /\ NoneFlies'
    BY <1>1, <1>3 DEF vars, SentOK, Sent, NoneFlies
  <2>1. SlotsOK' /\ RunTypes' /\ SentOK' /\ NoneFlies'
    BY <2>1a, <2>1b, <2>1c
  <2>2. \A r \in Runs : SpendingOK(r)' /\ ReplayOK(r)'
    BY <1>1, <1>3 DEF vars, plans, SpendingOK, Pending, ReplayOK, Own
  <2>3. TypeOK'
    BY <2>1, TypeParts DEF SlotsOK, TypeOK, RunTypes, SlotTypes
  <2> QED BY <2>1, <2>2, <2>3 DEF IInv, SlotsOK
<1> QED BY <1>2, <1>3

\* The state has its type: no counter of slots goes below zero.
THEOREM DispatchTypeCorrect == Spec => []TypeOK
<1>1. IInv => TypeOK
  BY DEF IInv
<1> QED BY <1>1, InitHolds, IInvKept, PTL DEF Spec

\* The counters of run-guard.ts and agent-semaphore.ts count exactly the calls that hold a slot,
\* and a call waits only while all slots are taken, across aborts, resumes and crashes.
THEOREM SlotsAlwaysAccounted == Spec => []SlotsAccounted
<1>1. IInv => SlotsAccounted
  BY DEF IInv, HostOK, GuardOK, SlotsAccounted
<1> QED BY <1>1, InitHolds, IInvKept, PTL DEF Spec

\* The check of the budget with the slot in hand (run-manager.ts) bounds the overshoot of a run by its
\* width, whatever its calls cost when they are cut.
THEOREM OvershootIsBounded == Spec => []BoundedOvershoot
<1>1. IInv => BoundedOvershoot
  <2> SUFFICES ASSUME IInv, NEW r \in Runs PROVE spent[r] < Budget + Concurrency
    BY DEF BoundedOvershoot
  <2>1. /\ GuardOK(r) /\ SpendingOK(r) /\ spent[r] \in Nat
        /\ {Budget, Concurrency} \subseteq Nat
    BY DispatchAssumption DEF IInv, TypeOK
  <2> QED BY <2>1, PendingHolds DEF SpendingOK
<1> QED BY <1>1, InitHolds, IInvKept, PTL DEF Spec

\* A call that gets its slot after its run was suspended or stopped does not reach the gateway
\* (agent-executor.ts), nor does one stay there.
THEOREM NothingAbortedFlies == Spec => []NothingFliesAborted
<1>1. IInv => NothingFliesAborted
  BY DEF IInv, NoneFlies, NothingFliesAborted
<1> QED BY <1>1, InitHolds, IInvKept, PTL DEF Spec

\* What a resumed script is answered from its journal is a prefix of its calls (resume-cache.ts),
\* also when requests of a killed child are read after the resume.
THEOREM OnlyPrefixReplayed == Spec => []PrefixReplayed
<1>1. IInv => PrefixReplayed
  BY DEF IInv, ReplayOK, PrefixReplayed
<1> QED BY <1>1, InitHolds, IInvKept, PTL DEF Spec

\* The guards of run-guard.ts and the semaphore of agent-semaphore.ts implement SlotPool: slots go to
\* those who wait in the order they came, and are lost or given up only with a call or the engine.
THEOREM PoolsImplemented == Spec => SlotsInOrder
<1>1. Init => HostPool!PInit /\ \A r \in Runs : GuardPool(r)!PInit
  <2> SUFFICES ASSUME Init PROVE HostPool!PInit /\ \A r \in Runs : GuardPool(r)!PInit
    OBVIOUS
  <2>1. Dispatched = {} /\ \A r \in Runs : Holding(r) = {}
    BY DEF Init, Dispatched, Holding
  <2> QED BY <2>1 DEF Init, HostPool!PInit, GuardPool!PInit
<1>2. IInv /\ [Next]_vars => [HostPool!PNext]_(HostPool!pvars) /\ [\A r \in Runs : GuardPool(r)!PStep]_vars
  <2> SUFFICES ASSUME IInv, [Next]_vars
               PROVE  [HostPool!PNext]_(HostPool!pvars) /\ [\A r \in Runs : GuardPool(r)!PStep]_vars
    OBVIOUS
  <2>1. SlotsOK /\ SentOK
    BY TypeParts DEF IInv, SlotsOK
  <2>2. CASE Next
    BY <2>1, <2>2, NextServesInOrder DEF HostPool!PStep
  <2>3. CASE UNCHANGED vars
    <3>1. UNCHANGED <<Dispatched, queue>>
      BY <2>3 DEF vars, slots, Dispatched
    <3> QED BY <2>3, <3>1 DEF HostPool!pvars
  <2> QED BY <2>2, <2>3
<1> QED BY <1>1, <1>2, InitHolds, IInvKept, PTL DEF Spec, SlotsInOrder, HostPool!PSpec

-----------------------------------------------------------------------------
(* When no call is made twice.                                             *)

\* A call that the engine has not done with.
InEngine(c) == c \in pipe \/ at[c] # "out"

\* A run is resumed only when no call of an earlier execution is still in the engine.
ResumesHome == \A r \in Runs : gen'[r] # gen[r] => \A c \in Call : c.run = r => ~InEngine(c)

\* All that is in the engine is of the present execution.
Present(c) == InEngine(c) => c.gen = gen[c.run]

\* A call that runs live comes after, or is, one that the plan has no answer for.
LiveOK(c) == at[c] # "out" => \E s \in Seqs : s <= c.seq /\ s \notin plan[c.run]
MissedOK(r) ==
    missed[r] => \E s \in Seqs : /\ s \notin plan[r] /\ s < sent[r]
                                 /\ \A c \in pipe : c.run = r => s < c.seq

\* What is in the journal is in the plan or was made by this execution, unless there is none.
Over(r) == state[r] # "running" /\ \A c \in Call : c.run = r => ~InEngine(c)
JournalOK(r) ==
    \A q \in Seqs : journal[r][q] = "settled" =>
        q \in plan[r] \/ (q < sent[r] /\ ~InEngine(Own(r, q))) \/ Over(r)

HomeInv ==
    /\ \A c \in Call : Present(c) /\ LiveOK(c)
    /\ \A r \in Runs : MissedOK(r) /\ JournalOK(r)

\* Calls that leave, and executions that end, change nothing of it.
LEMMA HomeStays ==
    ASSUME TypeOK, HomeInv, UNCHANGED <<gen, sent, plan, missed>>, pipe' \subseteq pipe,
           \A x \in Call : at[x] = "out" => at'[x] = "out",
           \A r \in Runs : state'[r] = "running" => state[r] = "running",
           \A r \in Runs : \A q \in Seqs :
              journal'[r][q] = "settled" =>
                 journal[r][q] = "settled" \/ (q < sent[r] /\ ~InEngine(Own(r, q))')
    PROVE  HomeInv'
<1>1. \A c \in Call : InEngine(c)' => InEngine(c)
  BY DEF InEngine
<1>2. \A c \in Call : Present(c)'
  BY <1>1 DEF HomeInv, Present
<1>3. \A c \in Call : LiveOK(c)'
  BY DEF HomeInv, LiveOK
<1>4. \A r \in Runs : MissedOK(r)'
  BY DEF HomeInv, MissedOK
<1>5. ASSUME NEW r \in Runs, NEW q \in Seqs, journal'[r][q] = "settled"
      PROVE  (q \in plan[r] \/ (q < sent[r] /\ ~InEngine(Own(r, q))) \/ Over(r))'
  <2>1. Own(r, q) \in Call /\ Own(r, q)' = Own(r, q)
    BY DEF Own, Call, TypeOK
  <2>2. Over(r) => Over(r)'
    BY <1>1 DEF Over
  <2>3. CASE journal[r][q] = "settled"
    BY <1>1, <2>1, <2>2, <2>3 DEF HomeInv, JournalOK
  <2>4. CASE q < sent[r] /\ ~InEngine(Own(r, q))'
    BY <2>4
  <2> QED BY <1>5, <2>3, <2>4
<1>6. \A r \in Runs : JournalOK(r)'
  BY <1>5 DEF JournalOK
<1> QED BY <1>2, <1>3, <1>4, <1>6 DEF HomeInv

LEMMA SendKeepsHome ==
    ASSUME TypeOK, SentOK, HomeInv, NEW r \in Runs, Send(r)
    PROVE  HomeInv'
<1>1. /\ state[r] = "running" /\ sent[r] < Calls /\ pipe' = pipe \cup {Own(r, sent[r])}
      /\ sent' = [sent EXCEPT ![r] = @ + 1]
      /\ UNCHANGED <<state, gen, plan, missed, at, journal>>
  BY DEF Send, Own, plans
<1>2. /\ gen[r] \in 1..MaxExecutions /\ sent[r] \in 0..Calls /\ Calls \in Nat
      /\ \A q \in Runs : sent[q] \in Nat /\ sent'[q] = IF q = r THEN sent[r] + 1 ELSE sent[q]
  BY <1>1, DispatchAssumption DEF TypeOK
<1>3. PICK d \in Call : d = Own(r, sent[r]) /\ d.run = r /\ d.gen = gen[r] /\ d.seq = sent[r]
  <2>1. sent[r] \in Seqs
    BY <1>1, <1>2 DEF Seqs
  <2>2. Own(r, sent[r]) \in Call
    BY <1>2, <2>1 DEF Call, Own
  <2> QED BY <2>2 DEF Own
<1>4. \A c \in Call : c # d => (InEngine(c)' <=> InEngine(c))
  BY <1>1, <1>3 DEF InEngine
<1>5. \A c \in Call : Present(c)' /\ LiveOK(c)'
  BY <1>1, <1>3, <1>4 DEF HomeInv, Present, LiveOK
<1>6. ASSUME NEW q \in Runs PROVE MissedOK(q)'
  <2>1. SUFFICES ASSUME missed[q] PROVE MissedOK(q)'
    BY <1>1 DEF MissedOK
  <2>2. PICK s \in Seqs : s \notin plan[q] /\ s < sent[q] /\ \A c \in pipe : c.run = q => s < c.seq
    BY <2>1 DEF HomeInv, MissedOK
  <2>3. s \in Nat /\ s < sent'[q]
    BY <1>2, <2>2 DEF Seqs
  <2>4. \A c \in pipe' : c.run = q => s < c.seq
    BY <1>1, <1>3, <2>2
  <2> QED BY <1>1, <2>2, <2>3, <2>4 DEF MissedOK
<1>7. ASSUME NEW p \in Runs, NEW q \in Seqs, journal'[p][q] = "settled"
      PROVE  (q \in plan[p] \/ (q < sent[p] /\ ~InEngine(Own(p, q))) \/ Over(p))'
  <2>1. Own(p, q) \in Call /\ Own(p, q)' = Own(p, q) /\ q \in Nat
    BY <1>1 DEF Own, Call, TypeOK, Seqs
  <2>2. q \in plan[p] \/ (q < sent[p] /\ ~InEngine(Own(p, q))) \/ Over(p)
    BY <1>1, <1>7 DEF HomeInv, JournalOK
  <2>3. CASE q \in plan[p]
    BY <1>1, <2>3
  <2>4. CASE q < sent[p] /\ ~InEngine(Own(p, q))
    <3>1. Own(p, q) # d
      <4>1. Own(p, q).run = p /\ Own(p, q).seq = q
        BY DEF Own
      <4> QED BY <1>2, <1>3, <2>1, <2>4, <4>1
    <3>2. ~InEngine(Own(p, q))'
      BY <1>4, <2>1, <2>4, <3>1
    <3>3. q < sent'[p]
      BY <1>2, <2>1, <2>4
    <3> QED BY <3>2, <3>3
  <2>5. CASE Over(p)
    <3>1. p # r
      BY <1>1, <2>5 DEF Over
    <3>2. \A c \in Call : c.run = p => ~InEngine(c)'
      BY <1>3, <1>4, <2>5, <3>1 DEF Over
    <3> QED BY <1>1, <2>5, <3>2 DEF Over
  <2> QED BY <2>2, <2>3, <2>4, <2>5
<1>8. \A p \in Runs : JournalOK(p)'
  BY <1>7 DEF JournalOK
<1> QED BY <1>5, <1>6, <1>8 DEF HomeInv

LEMMA ReceiveKeepsHome ==
    ASSUME TypeOK, SlotsOK, SentOK, HomeInv, NEW c \in Call, Receive(c)
    PROVE  HomeInv'
<1>1. /\ c \in pipe /\ pipe' = pipe \ {c} /\ UNCHANGED <<state, gen, sent, plan, journal>>
      /\ \A d \in pipe : d.run = c.run /\ d.gen = c.gen => d.seq >= c.seq
  BY DEF Receive
<1>2. \A x \in Call : x # c => at'[x] = at[x]
  BY ReceiveKeepsSlots
<1>3. \A x \in Call : InEngine(x)' => InEngine(x)
  BY <1>1, <1>2 DEF InEngine
<1>4. /\ c.run \in Runs /\ c.gen \in Nat /\ c.seq \in Seqs /\ c.seq \in Nat /\ c.gen = gen[c.run]
      /\ at[c] = "out" /\ Sent(c) /\ sent[c.run] \in Nat /\ gen[c.run] \in Nat
  BY <1>1, CallTypes DEF HomeInv, Present, InEngine, SentOK, TypeOK, Seqs
<1>5. c.seq < sent[c.run]
  BY <1>4 DEF Sent
<1>6. \A d \in pipe' : d.run = c.run => c.seq < d.seq
  <2> SUFFICES ASSUME NEW d \in pipe', d.run = c.run PROVE c.seq < d.seq
    OBVIOUS
  <2>1. d \in Call /\ d \in pipe /\ d # c
    BY <1>1 DEF TypeOK
  <2>2. d.gen = c.gen
    BY <1>4, <2>1 DEF HomeInv, Present, InEngine
  <2>3. d.seq \in Nat /\ d.seq >= c.seq
    BY <1>1, <2>1, <2>2, CallTypes DEF Seqs
  <2>4. d.seq # c.seq
    BY <2>1, <2>2 DEF Call
  <2> QED BY <1>4, <2>3, <2>4
<1>7. CASE Replays(c.run, c.seq)
  <2>1. UNCHANGED <<missed, at>>
    BY <1>7 DEF Receive, slots
  <2> QED BY <1>1, <2>1, HomeStays
<1>8. CASE ~Replays(c.run, c.seq)
  <2>1. missed' = [missed EXCEPT ![c.run] = TRUE]
    BY <1>8 DEF Receive
  <2>2. \A q \in Runs : missed'[q] = IF q = c.run THEN TRUE ELSE missed[q]
    BY <2>1 DEF TypeOK
  <2>3. \E s \in Seqs : /\ s \notin plan[c.run] /\ s < sent[c.run] /\ s <= c.seq
                        /\ \A d \in pipe' : d.run = c.run => s < d.seq
    <3>1. CASE missed[c.run]
      <4>1. PICK s \in Seqs : /\ s \notin plan[c.run] /\ s < sent[c.run]
                              /\ \A d \in pipe : d.run = c.run => s < d.seq
        BY <1>4, <3>1 DEF HomeInv, MissedOK
      <4>2. s < c.seq /\ s \in Nat
        BY <1>1, <4>1 DEF Seqs
      <4>3. s <= c.seq
        BY <1>4, <4>2
      <4> QED BY <1>1, <4>1, <4>3
    <3>2. CASE ~missed[c.run]
      <4>1. c.seq \notin plan[c.run] /\ c.seq <= c.seq
        BY <1>4, <1>8, <3>2 DEF Replays
      <4> QED BY <1>4, <1>5, <1>6, <4>1
    <3> QED BY <3>1, <3>2
  <2>4. \A x \in Call : Present(x)'
    BY <1>1, <1>3 DEF HomeInv, Present
  <2>5. ASSUME NEW x \in Call PROVE LiveOK(x)'
    <3>1. CASE x = c
      BY <1>1, <2>3, <3>1 DEF LiveOK
    <3>2. CASE x # c
      BY <1>1, <1>2, <3>2 DEF HomeInv, LiveOK
    <3> QED BY <3>1, <3>2
  <2>6. ASSUME NEW q \in Runs PROVE MissedOK(q)'
    <3>1. CASE q = c.run
      BY <1>1, <2>3, <3>1 DEF MissedOK
    <3>2. CASE q # c.run
      <4>1. missed'[q] = missed[q] /\ MissedOK(q)
        BY <2>2, <3>2 DEF HomeInv
      <4> QED BY <1>1, <4>1 DEF MissedOK
    <3> QED BY <3>1, <3>2
  <2>7. ASSUME NEW p \in Runs PROVE JournalOK(p)'
    <3>1. \A q \in Seqs : Own(p, q) \in Call /\ Own(p, q)' = Own(p, q)
      BY <1>1 DEF Own, Call, TypeOK
    <3>2. Over(p) => Over(p)'
      BY <1>1, <1>3 DEF Over
    <3>3. JournalOK(p)
      BY DEF HomeInv
    <3> QED BY <1>1, <1>3, <3>1, <3>2, <3>3 DEF JournalOK
  <2> QED BY <2>4, <2>5, <2>6, <2>7 DEF HomeInv
<1> QED BY <1>7, <1>8

LEMMA ResumeKeepsHome ==
    ASSUME TypeOK, HomeInv, NEW r \in Runs, Resume(r), ResumesHome
    PROVE  HomeInv'
<1>1. UNCHANGED <<pipe, at, journal>>
  BY DEF Resume, slots
<1>2. \A q \in Runs : q # r => /\ state'[q] = state[q] /\ gen'[q] = gen[q] /\ sent'[q] = sent[q]
                               /\ plan'[q] = plan[q] /\ missed'[q] = missed[q]
  BY DEF Resume, TypeOK
<1>3. /\ gen'[r] = gen[r] + 1 /\ gen[r] \in Nat /\ missed'[r] = FALSE
      /\ plan'[r] = {s \in Seqs : journal[r][s] = "settled"}
  BY DEF Resume, TypeOK
<1>4. \A c \in Call : c.run = r => ~InEngine(c)
  BY <1>3 DEF ResumesHome
<1>5. \A c \in Call : c.run \in Runs /\ InEngine(c)' = InEngine(c)
  BY <1>1, CallTypes DEF InEngine
<1>6. ASSUME NEW c \in Call PROVE Present(c)' /\ LiveOK(c)'
  <2>1. CASE c.run = r
    BY <1>4, <1>5, <2>1 DEF Present, LiveOK, InEngine
  <2>2. CASE c.run # r
    BY <1>1, <1>2, <1>5, <2>2 DEF HomeInv, Present, LiveOK
  <2> QED BY <2>1, <2>2
<1>7. MissedOK(r)' /\ JournalOK(r)'
  BY <1>1, <1>3 DEF MissedOK, JournalOK
<1>8. ASSUME NEW p \in Runs, p # r PROVE MissedOK(p)' /\ JournalOK(p)'
  <2>1. MissedOK(p) /\ JournalOK(p)
    BY DEF HomeInv
  <2>2. MissedOK(p)'
    BY <1>1, <1>2, <1>8, <2>1 DEF MissedOK
  <2>3. \A q \in Seqs : Own(p, q) \in Call /\ Own(p, q)' = Own(p, q)
    BY <1>2, <1>8 DEF Own, Call, TypeOK
  <2>4. Over(p) => Over(p)'
    BY <1>2, <1>5, <1>8 DEF Over
  <2>5. JournalOK(p)'
    BY <1>1, <1>2, <1>5, <1>8, <2>1, <2>3, <2>4 DEF JournalOK
  <2> QED BY <2>2, <2>5
<1> QED BY <1>6, <1>7, <1>8 DEF HomeInv

LEMMA CallKeepsHome ==
    ASSUME TypeOK, SlotsOK, SentOK, HomeInv, NEW c \in Call, CallStep(c) \/ Answer(c)
    PROVE  HomeInv'
<1>1. UNCHANGED <<state, gen, sent, plan, missed, pipe>> /\ at[c] # "out"
  BY DEF CallStep, Check, Launch, Answer, Finish, FinishCut, Leave, plans
<1>2. \A x \in Call : x # c /\ at[x] = "out" => at'[x] = "out"
  <2>1. CASE Check(c)
    BY <2>1, CheckKeepsSlots
  <2>2. CASE Launch(c) \/ Answer(c)
    BY <2>2, FlightKeepsSlots
  <2>3. CASE Finish(c) \/ FinishCut(c)
    BY <2>3, LeaveKeepsSlots DEF Finish, FinishCut
  <2> QED BY <2>1, <2>2, <2>3 DEF CallStep
<1>3. \A x \in Call : at[x] = "out" => at'[x] = "out"
  BY <1>1, <1>2
<1>4. CASE Check(c) \/ Launch(c) \/ Answer(c)
  <2>1. journal' = journal
    BY <1>4 DEF Check, Launch, Answer
  <2> QED BY <1>1, <1>3, <2>1, HomeStays
<1>5. CASE FinishCut(c)
  <2>1. \A r \in Runs : \A q \in Seqs : journal'[r][q] = "settled" => journal[r][q] = "settled"
    BY <1>5, CallTypes DEF FinishCut, Leave, TypeOK
  <2> QED BY <1>1, <1>3, <2>1, HomeStays
<1>6. CASE Finish(c)
  <2>1. at'[c] = "out" /\ c \notin pipe
    BY <1>1, <1>6, LeaveKeepsSlots DEF Finish, SentOK
  <2>2. c.gen = gen[c.run] /\ c.run \in Runs /\ c.seq \in Seqs /\ c = Own(c.run, c.seq)
    BY <1>1, CallTypes DEF HomeInv, Present, InEngine, Own, Call
  <2>3. c.seq < sent[c.run]
    <3>1. Sent(c) /\ gen[c.run] \in Nat
      BY <1>1, <2>2 DEF SentOK, TypeOK
    <3> QED BY <2>2, <3>1 DEF Sent
  <2>4. ~InEngine(Own(c.run, c.seq))'
    BY <1>1, <2>1, <2>2 DEF InEngine, Own
  <2>5. \A r \in Runs : \A q \in Seqs :
           journal'[r][q] = "settled" => journal[r][q] = "settled" \/ (r = c.run /\ q = c.seq)
    BY <1>6, <2>2 DEF Finish, Leave, TypeOK
  <2>6. \A r \in Runs : \A q \in Seqs :
           journal'[r][q] = "settled" =>
              journal[r][q] = "settled" \/ (q < sent[r] /\ ~InEngine(Own(r, q))')
    BY <2>3, <2>4, <2>5
  <2> QED BY <1>1, <1>3, <2>6, HomeStays
<1> QED BY <1>4, <1>5, <1>6 DEF CallStep

LEMMA NextKeepsHome ==
    ASSUME TypeOK, SlotsOK, SentOK, HomeInv, Next, ResumesHome
    PROVE  HomeInv'
<1>1. ASSUME NEW r \in Runs, Suspend(r) \/ Stop(r) PROVE HomeInv'
  <2>1. UNCHANGED <<gen, sent, plan, missed, journal>> /\ pipe' \subseteq pipe
    BY <1>1 DEF Suspend, Stop, ChildKilled, plans
  <2>2. \A x \in Call : at[x] = "out" => at'[x] = "out"
    BY <1>1, AbortKeepsSlots DEF Suspend, Stop
  <2>3. \A q \in Runs : state'[q] = "running" => state[q] = "running"
    BY <1>1 DEF Suspend, Stop, TypeOK
  <2> QED BY <2>1, <2>2, <2>3, HomeStays
<1>2. ASSUME NEW r \in Runs, Complete(r) PROVE HomeInv'
  <2>1. UNCHANGED <<gen, sent, plan, missed, journal, pipe, at>>
    BY <1>2 DEF Complete, plans
  <2>2. \A q \in Runs : state'[q] = "running" => state[q] = "running"
    BY <1>2 DEF Complete, TypeOK
  <2> QED BY <2>1, <2>2, HomeStays
<1>3. CASE Crash
  <2>1. \A c \in Call : ~InEngine(c)'
    BY <1>3, CrashEmptiesSlots DEF Crash, InEngine
  <2>2. \A r \in Runs : state'[r] # "running" /\ missed'[r] = FALSE
    BY <1>3 DEF Crash
  <2>3. \A c \in Call : Present(c)' /\ LiveOK(c)'
    BY <2>1 DEF Present, LiveOK, InEngine
  <2>4. \A r \in Runs : MissedOK(r)' /\ JournalOK(r)'
    BY <2>1, <2>2 DEF MissedOK, JournalOK, Over
  <2> QED BY <2>3, <2>4 DEF HomeInv
<1> QED BY <1>1, <1>2, <1>3, SendKeepsHome, ReceiveKeepsHome, ResumeKeepsHome, CallKeepsHome DEF Next

\* Only Launch sends a call to the gateway.
LEMMA OnlyLaunchFlies ==
    ASSUME TypeOK, SlotsOK, SentOK, Next, NEW c \in Call, at[c] # "flying", at'[c] = "flying"
    PROVE  Launch(c)
<1>1. ASSUME NEW r \in Runs, Send(r) \/ Complete(r) \/ Resume(r) PROVE FALSE
  BY <1>1 DEF Send, Complete, Resume, slots
<1>2. ASSUME NEW r \in Runs, Suspend(r) \/ Stop(r) PROVE FALSE
  BY <1>2, AbortKeepsSlots DEF Suspend, Stop
<1>3. ASSUME NEW d \in Call, Receive(d) PROVE FALSE
  BY <1>3, ReceiveKeepsSlots
<1>4. ASSUME NEW d \in Call, Check(d) PROVE FALSE
  BY <1>4, CheckKeepsSlots
<1>5. ASSUME NEW d \in Call, Launch(d) PROVE Launch(c)
  <2>1. \A x \in Call : x # d => at'[x] = at[x]
    BY <1>5 DEF Launch, TypeOK
  <2> QED BY <1>5, <2>1
<1>6. ASSUME NEW d \in Call, Answer(d) PROVE FALSE
  BY <1>6 DEF Answer, TypeOK
<1>7. ASSUME NEW d \in Call, Finish(d) \/ FinishCut(d) PROVE FALSE
  BY <1>7, LeaveKeepsSlots DEF Finish, FinishCut
<1>8. CASE Crash
  BY <1>8, CrashEmptiesSlots
<1> QED BY <1>1, <1>2, <1>3, <1>4, <1>5, <1>6, <1>7, <1>8 DEF Next, CallStep

\* When a run is resumed only after the last call of its old execution has left the engine, no call
\* goes to the gateway whose result is in the journal while the plan answers all the calls before it
\* (resume-cache.ts).  resume() does not wait for them: without the hypothesis it is false.
THEOREM HomeResumesReplay ==
    Spec /\ [][ResumesHome]_vars => NoSecondDispatch
<1>1. Init => HomeInv
  BY DEF Init, HomeInv, Present, LiveOK, MissedOK, JournalOK, InEngine
<1>2. IInv /\ HomeInv /\ [Next]_vars /\ [ResumesHome]_vars => HomeInv'
  <2> SUFFICES ASSUME IInv, HomeInv, [Next]_vars, [ResumesHome]_vars PROVE HomeInv'
    OBVIOUS
  <2>1. TypeOK /\ SlotsOK /\ SentOK
    BY TypeParts DEF IInv, SlotsOK
  <2>2. CASE UNCHANGED vars
    BY <2>1, <2>2, HomeStays DEF vars, plans
  <2>3. CASE Next /\ ResumesHome
    BY <2>1, <2>3, NextKeepsHome
  <2> QED BY <2>2, <2>3
<1>3. ASSUME IInv, HomeInv, [Next]_vars, NEW c \in Call, at[c] # "flying", at'[c] = "flying",
             \A s \in Seqs : s < c.seq => s \in plan[c.run], journal[c.run][c.seq] = "settled"
      PROVE  FALSE
  <2>1. Launch(c)
    <3>1. TypeOK /\ SlotsOK /\ SentOK
      BY <1>3, TypeParts DEF IInv, SlotsOK
    <3>2. Next
      BY <1>3 DEF vars
    <3> QED BY <1>3, <3>1, <3>2, OnlyLaunchFlies
  <2>2. InEngine(c) /\ c.gen = gen[c.run] /\ c.run \in Runs /\ c.seq \in Seqs /\ c = Own(c.run, c.seq)
    BY <1>3, <2>1, CallTypes DEF Launch, InEngine, HomeInv, Present, Own, Call
  <2>3. PICK s \in Seqs : s <= c.seq /\ s \notin plan[c.run]
    BY <1>3, <2>1 DEF Launch, HomeInv, LiveOK
  <2>4. c.seq \notin plan[c.run]
    BY <1>3, <2>2, <2>3 DEF Seqs
  <2>5. InEngine(Own(c.run, c.seq))
    BY <2>2
  <2> QED BY <1>3, <2>2, <2>4, <2>5 DEF HomeInv, JournalOK, Over
<1>4. IInv /\ HomeInv /\ [Next]_vars =>
         [\A c \in Call :
            /\ at[c] # "flying" /\ at'[c] = "flying"
            /\ \A s \in Seqs : s < c.seq => s \in plan[c.run]
            => journal[c.run][c.seq] # "settled"]_vars
  BY <1>3
<1> QED BY <1>1, <1>2, <1>4, InitHolds, IInvKept, PTL DEF Spec, NoSecondDispatch

-----------------------------------------------------------------------------
(* Nobody waits outside the lines *)

\* The calls among cs that wait at a place are in the line.
AllIn(cs, places, line, place) ==
    \A c \in cs : places[c] = place => \E i \in DOMAIN line : line[i] = c

OfRun(r) == {c \in Call : c.run = r}
HostLine == AllIn(Call, at, queue, "queued")
GuardLines == \A r \in Runs : AllIn(OfRun(r), at, guardQueue[r], "slot")

LEMMA AllInStays ==
    ASSUME NEW cs, NEW a, NEW b, NEW line, NEW place, AllIn(cs, a, line, place),
           \A c \in cs : b[c] = place => a[c] = place
    PROVE  AllIn(cs, b, line, place)
BY DEF AllIn

\* One more call in line.
LEMMA AllInGrows ==
    ASSUME NEW cs, NEW a, NEW b, NEW line \in Seq(Call), NEW place, AllIn(cs, a, line, place),
           NEW d \in Call, \A c \in cs : b[c] = place => a[c] = place \/ c = d
    PROVE  AllIn(cs, b, Append(line, d), place)
<1>1. /\ Len(line) + 1 \in DOMAIN Append(line, d) /\ Append(line, d)[Len(line) + 1] = d
      /\ \A i \in DOMAIN line : i \in DOMAIN Append(line, d) /\ Append(line, d)[i] = line[i]
  OBVIOUS
<1> QED BY <1>1 DEF AllIn

\* The first in line is served.
LEMMA AllInShrinks ==
    ASSUME NEW cs, NEW a, NEW b, NEW line \in Seq(Call), NEW place, AllIn(cs, a, line, place),
           line # <<>>, \A c \in cs : b[c] = place => a[c] = place /\ c # Head(line)
    PROVE  AllIn(cs, b, Tail(line), place)
<1> SUFFICES ASSUME NEW c \in cs, b[c] = place
             PROVE  \E i \in DOMAIN Tail(line) : Tail(line)[i] = c
  BY DEF AllIn
<1>1. PICK i \in DOMAIN line : line[i] = c
  BY DEF AllIn
<1>2. i # 1
  BY <1>1
<1>3. i - 1 \in DOMAIN Tail(line) /\ Tail(line)[i - 1] = line[i]
  BY <1>2
<1> QED BY <1>1, <1>3

\* A slot of a run given back takes nobody into a line, and out of the run's only its first.
LEMMA ReleaseSlotLines ==
    ASSUME SlotTypes, GuardLines, NEW r \in Runs, NEW places, DOMAIN places = Call, ReleaseSlot(r, places),
           \A c \in Call : places[c] = "slot" => at[c] = "slot"
    PROVE  /\ GuardLines'
           /\ \A c \in Call : at'[c] = "queued" => places[c] = "queued"
<1>1. \A c \in Call : /\ at'[c] = "slot" => at[c] = "slot"
                      /\ at'[c] = "queued" => places[c] = "queued"
  BY DEF ReleaseSlot
<1>2. ASSUME NEW s \in Runs PROVE AllIn(OfRun(s), at', guardQueue'[s], "slot")
  <2>1. AllIn(OfRun(s), at, guardQueue[s], "slot") /\ guardQueue[s] \in Seq(Call)
        /\ guardQueue \in [Runs -> Seq(Call)] /\ OfRun(s) \subseteq Call
    BY DEF GuardLines, SlotTypes, OfRun
  <2>2. CASE guardQueue'[s] = guardQueue[s]
    BY <1>1, <2>1, <2>2, AllInStays
  <2>3. CASE s = r /\ guardQueue[r] # <<>> /\ guardQueue' = [guardQueue EXCEPT ![r] = Tail(@)]
             /\ at' = [places EXCEPT ![Head(guardQueue[r])] = "checking"]
    <3>1. Head(guardQueue[r]) \in Call /\ at'[Head(guardQueue[r])] = "checking"
      BY <2>1, <2>3, Tails
    <3>2. \A c \in OfRun(s) : at'[c] = "slot" => at[c] = "slot" /\ c # Head(guardQueue[s])
      BY <1>1, <2>1, <2>3, <3>1
    <3>3. guardQueue'[s] = Tail(guardQueue[s])
      BY <2>1, <2>3
    <3> QED BY <2>1, <2>3, <3>2, <3>3, AllInShrinks
  <2> QED BY <2>1, <2>2, <2>3 DEF ReleaseSlot
<1> QED BY <1>1, <1>2 DEF GuardLines

LEMMA ReceiveKeepsLines ==
    ASSUME SlotTypes, HostLine, GuardLines, NEW c \in Call, Receive(c)
    PROVE  HostLine' /\ GuardLines'
<1>1. CASE UNCHANGED <<slots, at>>
  BY <1>1 DEF slots, HostLine, GuardLines
<1>2. CASE AcquireSlot(c) /\ UNCHANGED <<queue, inUse>>
  <2>1. /\ at \in [Call -> Places] /\ guardQueue \in [Runs -> Seq(Call)] /\ c.run \in Runs
        /\ queue' = queue
    BY <1>2, CallTypes DEF SlotTypes
  <2>2. \A d \in Call : at'[d] = at[d] \/ (d = c /\ at'[d] \in {"checking", "slot"})
    BY <1>2, <2>1 DEF AcquireSlot
  <2>3. HostLine'
    BY <2>1, <2>2, AllInStays DEF HostLine
  <2>4. ASSUME NEW r \in Runs PROVE AllIn(OfRun(r), at', guardQueue'[r], "slot")
    <3>1. AllIn(OfRun(r), at, guardQueue[r], "slot") /\ OfRun(r) \subseteq Call
      BY DEF GuardLines, OfRun
    <3>2. CASE r # c.run
      <4>1. guardQueue'[r] = guardQueue[r] /\ \A d \in OfRun(r) : at'[d] = at[d]
        BY <1>2, <2>1, <2>2, <3>2 DEF AcquireSlot, OfRun
      <4> QED BY <3>1, <4>1, AllInStays
    <3>3. CASE r = c.run /\ UNCHANGED guardQueue /\ at' = [at EXCEPT ![c] = "checking"]
      <4>1. \A d \in OfRun(r) : at'[d] = "slot" => at[d] = "slot"
        BY <2>1, <3>1, <3>3
      <4> QED BY <3>1, <3>3, <4>1, AllInStays
    <3>4. CASE r = c.run /\ guardQueue' = [guardQueue EXCEPT ![r] = Append(@, c)]
      <4>1. guardQueue'[r] = Append(guardQueue[r], c)
        BY <2>1, <3>4
      <4>2. \A d \in OfRun(r) : at'[d] = "slot" => at[d] = "slot" \/ d = c
        BY <2>2, <3>1
      <4> QED BY <2>1, <3>1, <4>1, <4>2, AllInGrows
    <3> QED BY <1>2, <3>2, <3>3, <3>4 DEF AcquireSlot
  <2> QED BY <2>3, <2>4 DEF GuardLines
<1> QED BY <1>1, <1>2 DEF Receive, slots

LEMMA CheckKeepsLines ==
    ASSUME SlotTypes, HostLine, GuardLines, NEW c \in Call, Check(c)
    PROVE  HostLine' /\ GuardLines'
<1>1. at \in [Call -> Places] /\ queue \in Seq(Call) /\ c.run \in Runs
  BY CallTypes DEF SlotTypes
<1>2. CASE AcquireSemaphore(c) /\ UNCHANGED <<guardQueue, inFlight>>
  <2>1. \A d \in Call : at'[d] = at[d] \/ (d = c /\ at'[d] \in {"starting", "queued"})
    BY <1>1, <1>2 DEF AcquireSemaphore
  <2>2. GuardLines'
    BY <1>2, <2>1, AllInStays DEF GuardLines, OfRun
  <2>3. CASE UNCHANGED queue /\ at' = [at EXCEPT ![c] = "starting"]
    <3>1. \A d \in Call : at'[d] = "queued" => at[d] = "queued"
      BY <1>1, <2>3
    <3> QED BY <2>2, <2>3, <3>1, AllInStays DEF HostLine
  <2>4. CASE queue' = Append(queue, c)
    BY <1>1, <2>1, <2>2, <2>4, AllInGrows DEF HostLine
  <2> QED BY <1>2, <2>3, <2>4 DEF AcquireSemaphore
<1>3. CASE ReleaseSlot(c.run, [at EXCEPT ![c] = "out"]) /\ UNCHANGED <<queue, inUse>>
  <2> DEFINE places == [at EXCEPT ![c] = "out"]
  <2>1. /\ DOMAIN places = Call /\ ReleaseSlot(c.run, places)
        /\ \A d \in Call : places[d] = at[d] \/ places[d] = "out"
    BY <1>1, <1>3
  <2>2. GuardLines' /\ \A d \in Call : at'[d] = "queued" => places[d] = "queued"
    <3> HIDE DEF places
    <3> QED BY <1>1, <2>1, ReleaseSlotLines
  <2>3. \A d \in Call : at'[d] = "queued" => at[d] = "queued"
    BY <2>1, <2>2
  <2>4. HostLine'
    BY <1>3, <2>3, AllInStays DEF HostLine
  <2> QED BY <2>2, <2>4
<1> QED BY <1>2, <1>3 DEF Check

LEMMA LeaveKeepsLines ==
    ASSUME SlotTypes, HostLine, GuardLines, NEW c \in Call, NEW entry, Leave(c, entry)
    PROVE  HostLine' /\ GuardLines'
<1> DEFINE places == [Woken(at) EXCEPT ![c] = "out"]
<1>1. at \in [Call -> Places] /\ queue \in Seq(Call) /\ c.run \in Runs
  BY CallTypes DEF SlotTypes
<1>2. /\ DOMAIN places = Call
      /\ \A d \in Call : /\ places[d] = "slot" => at[d] = "slot"
                         /\ places[d] = "queued" => at[d] = "queued"
                         /\ queue # <<>> /\ d = Head(queue) => places[d] # "queued"
  BY <1>1 DEF Woken
<1>3. ReleaseSlot(c.run, places) /\ ReleaseSemaphore
  BY DEF Leave
<1> HIDE DEF places
<1>4. GuardLines' /\ \A d \in Call : at'[d] = "queued" => places[d] = "queued"
  BY <1>1, <1>2, <1>3, ReleaseSlotLines
<1>5. CASE queue = <<>> /\ queue' = queue
  BY <1>2, <1>4, <1>5, AllInStays DEF HostLine
<1>6. CASE queue # <<>> /\ queue' = Tail(queue)
  <2>1. \A d \in Call : at'[d] = "queued" => at[d] = "queued" /\ d # Head(queue)
    BY <1>2, <1>4, <1>6
  <2> QED BY <1>1, <1>4, <1>6, <2>1, AllInShrinks DEF HostLine
<1> QED BY <1>3, <1>5, <1>6 DEF ReleaseSemaphore

\* A step that leaves the lines alone and takes nobody into one.
LEMMA LinesAlone ==
    ASSUME HostLine, GuardLines, UNCHANGED <<queue, guardQueue>>,
           \A c \in Call : at'[c] \in {"slot", "queued"} => at[c] = at'[c]
    PROVE  HostLine' /\ GuardLines'
<1>1. HostLine'
  BY AllInStays DEF HostLine
<1>2. GuardLines'
  BY AllInStays DEF GuardLines, OfRun
<1> QED BY <1>1, <1>2

LEMMA NextKeepsLines ==
    ASSUME SlotTypes, HostLine, GuardLines, [Next]_vars
    PROVE  HostLine' /\ GuardLines'
<1>1. CASE \E c \in Call : Receive(c)
  BY <1>1, ReceiveKeepsLines
<1>2. CASE \E c \in Call : Check(c)
  BY <1>2, CheckKeepsLines
<1>3. CASE \E c \in Call : Finish(c) \/ FinishCut(c)
  BY <1>3, LeaveKeepsLines DEF Finish, FinishCut
<1>4. CASE \E c \in Call : Launch(c) \/ Answer(c)
  <2>1. PICK c \in Call : Launch(c) \/ Answer(c)
    BY <1>4
  <2>2. \A d \in Call : at'[d] = at[d] \/ at'[d] \in {"cut", "flying", "answered"}
    BY <2>1 DEF Launch, Answer, SlotTypes
  <2>3. UNCHANGED <<queue, guardQueue>>
    BY <2>1 DEF Launch, Answer, slots
  <2> QED BY <2>2, <2>3, LinesAlone
<1>5. CASE \E r \in Runs : Suspend(r) \/ Stop(r)
  <2>1. \A c \in Call : at'[c] = at[c] \/ at'[c] = "cut"
    BY <1>5 DEF Suspend, Stop, Abort
  <2>2. UNCHANGED <<queue, guardQueue>>
    BY <1>5 DEF Suspend, Stop, slots
  <2> QED BY <2>1, <2>2, LinesAlone
<1>6. CASE \E r \in Runs : Send(r) \/ Complete(r) \/ Resume(r)
  BY <1>6, LinesAlone DEF Send, Complete, Resume, slots
<1>7. CASE Crash
  <2>1. \A c \in Call : at'[c] = "out"
    BY <1>7 DEF Crash
  <2> QED BY <2>1 DEF HostLine, GuardLines, AllIn, OfRun
<1>8. CASE UNCHANGED vars
  BY <1>8, LinesAlone DEF vars, slots
<1> QED BY <1>1, <1>2, <1>3, <1>4, <1>5, <1>6, <1>7, <1>8 DEF Next, CallStep

\* Who holds nothing but a place in a line is behind calls that hold a slot, and those in line for
\* the host behind calls that hold one of the host, which wait for no lock.
LEMMA SomebodyMoves ==
    ASSUME IInv, HostLine, GuardLines
    PROVE  NobodyStranded
<1> DEFINE moving == {"checking", "starting", "flying", "cut", "answered"}
<1>0. Slots \in Nat /\ Slots # 0 /\ Concurrency \in Nat /\ Concurrency # 0
  BY DispatchAssumption
<1>1. ASSUME NEW c \in Call, at[c] = "queued"
      PROVE  /\ \E i \in DOMAIN queue : queue[i] = c
             /\ \E d \in Call : at[d] \in moving
  <2>1. \E i \in DOMAIN queue : queue[i] = c
    BY <1>1 DEF HostLine, AllIn
  <2>2. queue # <<>>
    BY <2>1
  <2>3. Cardinality(Dispatched) = Slots
    BY <2>2 DEF IInv, HostOK
  <2>4. Dispatched # {}
    BY <1>0, <2>3, FS_EmptySet
  <2> QED BY <2>1, <2>4 DEF Dispatched
<1>2. ASSUME NEW c \in Call, at[c] = "slot"
      PROVE  /\ \E i \in DOMAIN guardQueue[c.run] : guardQueue[c.run][i] = c
             /\ \E d \in Call : at[d] \in moving
  <2>0. c.run \in Runs
    BY CallTypes
  <2>1. \E i \in DOMAIN guardQueue[c.run] : guardQueue[c.run][i] = c
    BY <1>2, <2>0 DEF GuardLines, AllIn, OfRun
  <2>2. guardQueue[c.run] # <<>>
    BY <2>1
  <2>3. Cardinality(Holding(c.run)) = Concurrency
    BY <2>0, <2>2 DEF IInv, GuardOK
  <2>4. PICK d \in Call : d.run = c.run /\ at[d] \notin {"out", "slot"}
    <3>1. Holding(c.run) # {}
      BY <1>0, <2>3, FS_EmptySet
    <3> QED BY <3>1 DEF Holding
  <2>5. at[d] = "queued" \/ at[d] \in moving
    BY <2>4 DEF IInv, TypeOK, Places
  <2> QED BY <1>1, <2>1, <2>5
<1> QED BY <1>1, <1>2 DEF NobodyStranded

\* Calls never come to wait for one another: who waits for a slot of the run or of the host is in its
\* line, and somebody is past both, through aborts, resumes and crashes. CallsLeave adds that these go.
THEOREM NobodyIsStranded == Spec => []NobodyStranded
<1>1. Init => HostLine /\ GuardLines
  BY DEF Init, HostLine, GuardLines, AllIn, OfRun
<1>2. IInv /\ HostLine /\ GuardLines /\ [Next]_vars => HostLine' /\ GuardLines'
  BY NextKeepsLines, TypeParts DEF IInv
<1>3. IInv /\ HostLine /\ GuardLines => NobodyStranded
  BY SomebodyMoves
<1> QED BY <1>1, <1>2, <1>3, InitHolds, IInvKept, PTL DEF Spec

=============================================================================
