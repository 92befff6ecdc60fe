------------------------ MODULE NestedWorkflowsProofs ------------------------
(***************************************************************************)
(* The frames of workflow() calls: no slot of the workflowGuard is lost or *)
(* handed out twice, an execution forks no more children than it may,      *)
(* nothing runs under a signal that has fired, two frames never share a    *)
(* number, and no child is left behind, for any tree of calls, widths,     *)
(* ceilings, executions and crashes.                                       *)
(*                                                                         *)
(* The guard's counter is tied to the set of frames it counts (GuardOK),   *)
(* the frames that got a child are counted with those that may still get   *)
(* one (CountedOK), and a frame that is under way listens to the present   *)
(* execution or to one that is aborted (SignalsOK).                        *)
(***************************************************************************)
EXTENDS NestedWorkflows, FiniteSetTheorems, TLAPS

\* The line holds the frames that wait in it, each once.
InLine(places, l) ==
    /\ \A i \in DOMAIN l : places[l[i]] = "queued"
    /\ \A i, j \in DOMAIN l : l[i] = l[j] => i = j
    /\ \A f \in Frame : places[f] = "queued" => \E i \in DOMAIN l : l[i] = f

GuardOK ==
    /\ IsFiniteSet(Holders) /\ inFlight = Cardinality(Holders) /\ inFlight <= Concurrency
    /\ line # <<>> => inFlight = Concurrency
    /\ InLine(at, line)

\* On the way to a child; under way at all.
Coming == {"admitting", "queued", "granted"}
Active == Coming \cup Started

\* The frames of the present execution that have got a child or may still get one.
Counted == forked \cup {f \in Frame : at[f] \in Coming /\ signal[f] = exec}
CountedOK ==
    /\ IsFiniteSet(Counted)
    /\ Cardinality(Counted) <= descendants /\ Cardinality(Counted) <= MaxDescendants

AllOut == \A s \in Script : at[s] = "out"

SignalsOK ==
    /\ \A f \in Frame : signal[f] <= exec
    /\ \A f \in Frame : at[f] \in Active => signal[f] = exec \/ signal[f] \in aborted
    /\ run = "suspended" /\ exec \notin aborted => AllOut

Taken == {p \in Sites : bases[p] # 0}
Numbered == {"queued", "granted"} \cup Started
NumbersOK ==
    /\ NumbersApart
    /\ \A p \in Sites : bases[p] <= Cardinality(Taken)
    /\ \A f \in Frame : at[f] \in Numbered /\ signal[f] = exec => bases[f.path] # 0

ProcessesOK ==
    /\ procs \subseteq records
    /\ IF up THEN procs = {s \in Script : at[s] = "alive"} ELSE AllOut

IInv ==
    /\ TypeOK /\ GuardOK /\ CountedOK /\ SignalsOK /\ NumbersOK /\ ProcessesOK
    /\ NothingRunsAborted

-----------------------------------------------------------------------------
(* Scripts and frames *)

LEMMA FrameTypes ==
    /\ \A f \in Frame : f \in Script /\ f.path \in Sites /\ f.exec \in Execs /\ f.path # <<>>
    /\ \A s \in Script : s.path = <<>> \/ s \in Frame
    /\ \A e \in Execs : Top(e) \in Script /\ Top(e) \notin Frame
<1>1. <<>> \notin Sites
  BY NestedAssumption
<1> QED BY <1>1 DEF Frame, Script, Scripts, Top

LEMMA Constants ==
    /\ IsFiniteSet(Sites) /\ Concurrency \in Nat /\ Concurrency > 0 /\ MaxExecutions \in Nat /\ MaxExecutions > 0
    /\ MaxDescendants \in Nat /\ MaxCrashes \in Nat /\ Cardinality(Sites) \in Nat
BY NestedAssumption, FS_CardinalityType

-----------------------------------------------------------------------------
(* Lines *)

LEMMA Tails ==
    ASSUME NEW s \in Seq(Frame), s # <<>>
    PROVE  /\ Tail(s) \in Seq(Frame) /\ Head(s) \in Frame /\ 1 \in DOMAIN s /\ Head(s) = s[1]
           /\ \A i \in DOMAIN Tail(s) : i \in Nat /\ i > 0 /\ i + 1 \in DOMAIN s /\ Tail(s)[i] = s[i + 1]
           /\ \A i \in DOMAIN s : i # 1 => i - 1 \in DOMAIN Tail(s) /\ Tail(s)[i - 1] = s[i]
OBVIOUS

LEMMA Appends ==
    ASSUME NEW s \in Seq(Frame), NEW c \in Frame
    PROVE  /\ Append(s, c) \in Seq(Frame) /\ Append(s, c) # <<>>
           /\ \A i \in DOMAIN s : i \in DOMAIN Append(s, c) /\ Append(s, c)[i] = s[i]
           /\ Len(s) + 1 \in DOMAIN Append(s, c) /\ Append(s, c)[Len(s) + 1] = c
           /\ \A i \in DOMAIN Append(s, c) :
                 (i \in DOMAIN s /\ Append(s, c)[i] = s[i]) \/ (i = Len(s) + 1 /\ Append(s, c)[i] = c)
OBVIOUS

LEMMA LineStays ==
    ASSUME NEW a, NEW b, NEW l \in Seq(Frame), InLine(a, l),
           \A x \in Frame : a[x] = "queued" <=> b[x] = "queued"
    PROVE  InLine(b, l)
BY DEF InLine

LEMMA LineGrows ==
    ASSUME NEW a, NEW b, NEW l \in Seq(Frame), InLine(a, l),
           NEW c \in Frame, a[c] # "queued", b[c] = "queued",
           \A x \in Frame : x # c => (a[x] = "queued" <=> b[x] = "queued")
    PROVE  InLine(b, Append(l, c))
<1>1. \A i \in DOMAIN l : l[i] \in Frame /\ l[i] # c /\ b[l[i]] = "queued"
  BY DEF InLine
<1>2. \A i, j \in DOMAIN l : l[i] = l[j] => i = j
  BY DEF InLine
<1>3. \A f \in Frame : b[f] = "queued" => f = c \/ \E i \in DOMAIN l : l[i] = f
  BY DEF InLine
<1>4. \A i \in DOMAIN Append(l, c) : b[Append(l, c)[i]] = "queued"
  BY <1>1, Appends
<1>5. \A i, j \in DOMAIN Append(l, c) : Append(l, c)[i] = Append(l, c)[j] => i = j
  BY <1>1, <1>2, Appends
<1>6. \A f \in Frame : b[f] = "queued" => \E i \in DOMAIN Append(l, c) : Append(l, c)[i] = f
  BY <1>3, Appends
<1> QED BY <1>4, <1>5, <1>6 DEF InLine

LEMMA LineShrinks ==
    ASSUME NEW a, NEW b, NEW l \in Seq(Frame), InLine(a, l), l # <<>>, b[Head(l)] # "queued",
           \A x \in Frame : x # Head(l) => (a[x] = "queued" <=> b[x] = "queued")
    PROVE  InLine(b, Tail(l))
<1>1. \A i \in DOMAIN l : l[i] \in Frame /\ a[l[i]] = "queued"
  BY DEF InLine
<1>2. \A i, j \in DOMAIN l : l[i] = l[j] => i = j
  BY DEF InLine
<1>3. \A i \in DOMAIN Tail(l) : Tail(l)[i] # Head(l)
  BY <1>2, Tails
<1>4. \A i \in DOMAIN Tail(l) : b[Tail(l)[i]] = "queued"
  BY <1>1, <1>3, Tails
<1>5. \A i, j \in DOMAIN Tail(l) : Tail(l)[i] = Tail(l)[j] => i = j
  BY <1>2, Tails
<1>6. ASSUME NEW f \in Frame, b[f] = "queued" PROVE \E i \in DOMAIN Tail(l) : Tail(l)[i] = f
  <2>1. f # Head(l) /\ a[f] = "queued"
    BY <1>6
  <2>2. PICK i \in DOMAIN l : l[i] = f
    BY <2>1 DEF InLine
  <2>3. i # 1
    BY <2>1, <2>2, Tails
  <2> QED BY <2>2, <2>3, Tails
<1> QED BY <1>4, <1>5, <1>6 DEF InLine

-----------------------------------------------------------------------------
(* Counting *)

LEMMA OneMore ==
    ASSUME NEW S, IsFiniteSet(S), NEW x, x \notin S
    PROVE  IsFiniteSet(S \cup {x}) /\ Cardinality(S \cup {x}) = Cardinality(S) + 1 /\ Cardinality(S) \in Nat
BY FS_AddElement, FS_CardinalityType

LEMMA AtMostOneMore ==
    ASSUME NEW S, IsFiniteSet(S), NEW x
    PROVE  /\ IsFiniteSet(S \cup {x}) /\ Cardinality(S) \in Nat /\ Cardinality(S \cup {x}) \in Nat
           /\ Cardinality(S \cup {x}) <= Cardinality(S) + 1
BY FS_AddElement, FS_CardinalityType

LEMMA OneLess ==
    ASSUME NEW S, IsFiniteSet(S), NEW x \in S
    PROVE  /\ IsFiniteSet(S \ {x}) /\ Cardinality(S \ {x}) = Cardinality(S) - 1
           /\ Cardinality(S) \in Nat /\ Cardinality(S) > 0
<1>1. IsFiniteSet(S \ {x}) /\ Cardinality(S \ {x}) = Cardinality(S) - 1
  BY FS_RemoveElement
<1>2. Cardinality(S) \in Nat /\ Cardinality(S \ {x}) \in Nat
  BY <1>1, FS_CardinalityType
<1> QED BY <1>1, <1>2

\* One goes and another comes.
LEMMA Handed ==
    ASSUME NEW S, IsFiniteSet(S), NEW x \in S, NEW y, y \notin S
    PROVE  IsFiniteSet((S \ {x}) \cup {y}) /\ Cardinality((S \ {x}) \cup {y}) = Cardinality(S)
<1>1. IsFiniteSet(S \ {x}) /\ Cardinality(S \ {x}) = Cardinality(S) - 1 /\ Cardinality(S) \in Nat
  BY OneLess
<1>2. y \notin S \ {x}
  OBVIOUS
<1>3. /\ IsFiniteSet((S \ {x}) \cup {y})
      /\ Cardinality((S \ {x}) \cup {y}) = Cardinality(S \ {x}) + 1
  BY <1>1, <1>2, OneMore
<1> QED BY <1>1, <1>3

LEMMA Part ==
    ASSUME NEW S, IsFiniteSet(S), NEW T \in SUBSET S
    PROVE  IsFiniteSet(T) /\ Cardinality(T) \in Nat /\ Cardinality(S) \in Nat /\ Cardinality(T) <= Cardinality(S)
BY FS_Subset, FS_CardinalityType

-----------------------------------------------------------------------------
(* The slots of the workflowGuard *)

\* What a request and a return do to the slots: who holds one before and after, and the line.
Joined(f, before, after, l, next) ==
    \/ l = <<>> /\ Cardinality(before) < Concurrency /\ after = before \cup {f} /\ next = l
    \/ Cardinality(before) = Concurrency /\ after = before /\ next = Append(l, f)
Returned(f, before, after, l, next) ==
    \/ l = <<>> /\ after = before \ {f} /\ next = l
    \/ l # <<>> /\ after = (before \ {f}) \cup {Head(l)} /\ next = Tail(l)

SlotTypes == at \in [Script -> Places] /\ line \in Seq(Frame) /\ inFlight \in Nat
Holding == Started \cup {"granted"}

LEMMA HoldersAre == Holders = {f \in Frame : at[f] \in Holding}
BY DEF Holders, Holding

LEMMA GuardStays ==
    ASSUME SlotTypes, GuardOK, UNCHANGED slots,
           \A x \in Frame : /\ at[x] \in Holding <=> at'[x] \in Holding
                            /\ at[x] = "queued" <=> at'[x] = "queued"
    PROVE  GuardOK'
<1>1. Holders' = Holders
  BY DEF Holders, Holding, Started
<1>2. InLine(at', line)
  BY LineStays DEF GuardOK, SlotTypes
<1> QED BY <1>1, <1>2 DEF GuardOK, slots

LEMMA GuardAcquire ==
    ASSUME SlotTypes, GuardOK, NEW f \in Frame, at[f] = "admitting", AcquireSlot(f)
    PROVE  /\ GuardOK' /\ SlotTypes'
           /\ at'[f] \in {"granted", "queued"} /\ at' = [at EXCEPT ![f] = at'[f]]
           /\ Joined(f, Holders, Holders', line, line')
<1>1. Concurrency \in Nat /\ inFlight \in Nat /\ line \in Seq(Frame) /\ f \in Script
  BY Constants, FrameTypes DEF SlotTypes
<1>2. CASE inFlight < Concurrency
  <2>1. inFlight' = inFlight + 1 /\ line' = line /\ at' = [at EXCEPT ![f] = "granted"]
    BY <1>1, <1>2 DEF AcquireSlot
  <2>2. at'[f] = "granted" /\ at' \in [Script -> Places] /\ \A x \in Frame : x # f => at'[x] = at[x]
    BY <1>1, <2>1, FrameTypes DEF SlotTypes, Places
  <2>3. Holders' = Holders \cup {f} /\ f \notin Holders
    BY <2>2 DEF Holders, Started
  <2>4. IsFiniteSet(Holders) /\ inFlight = Cardinality(Holders) /\ line = <<>>
    BY <1>1, <1>2 DEF GuardOK
  <2>5. IsFiniteSet(Holders') /\ Cardinality(Holders') = inFlight + 1
    BY <2>3, <2>4, OneMore
  <2>6. inFlight' <= Concurrency /\ inFlight' \in Nat
    BY <1>1, <1>2, <2>1
  <2>7. \A x \in Frame : at[x] = "queued" <=> at'[x] = "queued"
    BY <2>2
  <2>8. InLine(at', line)
    BY <1>1, <2>7, LineStays DEF GuardOK
  <2>9. Joined(f, Holders, Holders', line, line')
    BY <1>2, <2>1, <2>3, <2>4 DEF Joined
  <2> QED BY <1>1, <2>1, <2>2, <2>4, <2>5, <2>6, <2>8, <2>9 DEF GuardOK, SlotTypes
<1>3. CASE inFlight >= Concurrency
  <2>1. line' = Append(line, f) /\ inFlight' = inFlight /\ at' = [at EXCEPT ![f] = "queued"]
    BY <1>1, <1>3 DEF AcquireSlot
  <2>2. at'[f] = "queued" /\ at' \in [Script -> Places] /\ \A x \in Frame : x # f => at'[x] = at[x]
    BY <1>1, <2>1, FrameTypes DEF SlotTypes, Places
  <2>3. Holders' = Holders
    BY <2>2 DEF Holders, Started
  <2>4. InLine(at', Append(line, f))
    <3>1. \A x \in Frame : x # f => (at[x] = "queued" <=> at'[x] = "queued")
      BY <2>2
    <3>2. InLine(at, line)
      BY DEF GuardOK
    <3> QED BY <1>1, <2>2, <3>1, <3>2, LineGrows
  <2>5. inFlight = Concurrency
    BY <1>1, <1>3 DEF GuardOK
  <2>6. GuardOK'
    BY <2>1, <2>3, <2>4, <2>5 DEF GuardOK
  <2>7. Joined(f, Holders, Holders', line, line')
    BY <2>1, <2>3, <2>5 DEF Joined, GuardOK
  <2> QED BY <1>1, <2>1, <2>2, <2>6, <2>7, Appends DEF SlotTypes
<1> QED BY <1>2, <1>3 DEF AcquireSlot

\* Frame f gives its slot back; the others are in places as they were.
LEMMA GuardRelease ==
    ASSUME SlotTypes, GuardOK, NEW f \in Holders, NEW outcome \in {"ok", "failed"},
           ReleaseSlot([at EXCEPT ![f] = outcome])
    PROVE  /\ GuardOK' /\ SlotTypes'
           /\ at'[f] = outcome
           /\ \A x \in Script : x # f => \/ at'[x] = at[x]
                                         \/ x \in Frame /\ at[x] = "queued" /\ at'[x] = "granted"
           /\ Returned(f, Holders, Holders', line, line')
<1> DEFINE places == [at EXCEPT ![f] = outcome]
<1>1. /\ inFlight \in Nat /\ line \in Seq(Frame) /\ f \in Frame /\ f \in Script /\ at[f] \in Holding
      /\ Concurrency \in Nat
  BY Constants, FrameTypes, HoldersAre DEF SlotTypes
<1>2. IsFiniteSet(Holders) /\ inFlight = Cardinality(Holders) /\ inFlight <= Concurrency /\ InLine(at, line)
  BY DEF GuardOK
<1>3. /\ places \in [Script -> Places] /\ places[f] = outcome
      /\ \A x \in Script : x # f => places[x] = at[x]
  BY <1>1 DEF SlotTypes, Places
<1>4. at[f] # "queued" /\ outcome \notin Holding /\ outcome # "queued" /\ outcome # "granted"
  BY <1>1 DEF Holding, Started
<1>5. CASE line = <<>>
  <2>1. inFlight' = inFlight - 1 /\ at' = places /\ line' = line
    BY <1>5 DEF ReleaseSlot
  <2> HIDE DEF places
  <2>2. Holders' = Holders \ {f}
    BY <1>1, <1>3, <1>4, <2>1, FrameTypes DEF Holders, Holding
  <2>3. IsFiniteSet(Holders') /\ Cardinality(Holders') = inFlight - 1 /\ inFlight > 0
    BY <1>2, <2>2, OneLess
  <2>4. inFlight' \in Nat /\ inFlight' <= Concurrency
    BY <1>1, <1>2, <2>1, <2>3
  <2>5. \A x \in Frame : at[x] = "queued" <=> at'[x] = "queued"
    BY <1>3, <1>4, <2>1, FrameTypes
  <2>6. InLine(at', line)
    BY <1>1, <1>2, <2>5, LineStays
  <2>7. GuardOK'
    BY <1>5, <2>1, <2>3, <2>4, <2>6 DEF GuardOK
  <2>8. Returned(f, Holders, Holders', line, line')
    BY <1>5, <2>1, <2>2 DEF Returned
  <2> QED BY <1>1, <1>3, <2>1, <2>4, <2>7, <2>8 DEF SlotTypes
<1>6. CASE line # <<>>
  <2> DEFINE h == Head(line)
  <2>1. line' = Tail(line) /\ inFlight' = inFlight /\ at' = [places EXCEPT ![h] = "granted"]
    BY <1>6 DEF ReleaseSlot
  <2> HIDE DEF places
  <2>2. h \in Frame /\ h \in Script /\ at[h] = "queued" /\ h # f
    BY <1>1, <1>2, <1>4, <1>6, Tails, FrameTypes DEF InLine
  <2>3. /\ at'[h] = "granted" /\ at'[f] = outcome
        /\ \A x \in Script : x # h /\ x # f => at'[x] = at[x]
    BY <1>1, <1>3, <2>1, <2>2
  <2>4. at' \in [Script -> Places]
    BY <1>3, <2>1, <2>2 DEF Places
  <2>5. h \notin Holders
    BY <2>2 DEF Holders, Started
  <2>6. Holders' = (Holders \ {f}) \cup {h}
    BY <1>1, <1>4, <2>2, <2>3, FrameTypes DEF Holders, Holding
  <2>7. IsFiniteSet(Holders') /\ Cardinality(Holders') = inFlight
    BY <1>2, <2>5, <2>6, Handed
  <2>8. \A x \in Frame : x # h => (at[x] = "queued" <=> at'[x] = "queued")
    BY <1>4, <2>3, FrameTypes
  <2>9. InLine(at', Tail(line))
    BY <1>1, <1>2, <1>6, <2>3, <2>8, LineShrinks
  <2>10. inFlight = Concurrency
    BY <1>6 DEF GuardOK
  <2>11. GuardOK'
    BY <1>2, <2>1, <2>7, <2>9, <2>10 DEF GuardOK
  <2>12. Returned(f, Holders, Holders', line, line')
    BY <1>6, <2>1, <2>6 DEF Returned
  <2> QED BY <1>1, <1>6, <2>1, <2>2, <2>3, <2>4, <2>11, <2>12, Tails DEF SlotTypes
<1> QED BY <1>5, <1>6

-----------------------------------------------------------------------------
(* Steps that set one script to another place *)

\* A script settles; a frame gives its slot back.
LEMMA Settles ==
    ASSUME SlotTypes, GuardOK, NEW s \in Script, at[s] \in Started, NEW outcome \in {"ok", "failed"},
           Settle(s, outcome)
    PROVE  /\ GuardOK' /\ SlotTypes' /\ at'[s] = outcome
           /\ \A x \in Script : x # s => \/ at'[x] = at[x]
                                         \/ x \in Frame /\ at[x] = "queued" /\ at'[x] = "granted"
           /\ records' = records \ {s} /\ run' \in {run, "over"}
           /\ \/ UNCHANGED <<Holders, line>>
              \/ s \in Holders /\ Returned(s, Holders, Holders', line, line')
<1>1. records' = records \ {s} /\ run' \in {run, "over"}
  BY DEF Settle
<1>2. CASE s.path = <<>>
  <2>1. at' = [at EXCEPT ![s] = outcome] /\ UNCHANGED slots /\ s \notin Frame
    BY <1>2, FrameTypes DEF Settle
  <2>2. at' \in [Script -> Places] /\ at'[s] = outcome /\ \A x \in Script : x # s => at'[x] = at[x]
    BY <2>1 DEF SlotTypes, Places
  <2>3. \A x \in Frame : at'[x] = at[x]
    BY <2>1, <2>2, FrameTypes
  <2>4. UNCHANGED <<Holders, line>>
    BY <2>1, <2>3 DEF Holders, slots
  <2> QED BY <1>1, <2>1, <2>2, <2>3, <2>4, GuardStays DEF SlotTypes, slots
<1>3. CASE s.path # <<>>
  <2>1. s \in Holders
    BY <1>3, FrameTypes DEF Holders
  <2>2. ReleaseSlot([at EXCEPT ![s] = outcome])
    BY <1>3 DEF Settle
  <2> QED BY <1>1, <2>1, <2>2, GuardRelease
<1> QED BY <1>2, <1>3

\* What Deliver, Close and Deadline have in common.
Settling(s) ==
    /\ at[s] \in Started /\ (Settle(s, "ok") \/ Settle(s, "failed"))
    /\ UNCHANGED <<exec, aborted, descendants, up, crashes, signal, forked, bases, replay>>
    /\ procs' \in {procs, procs \ {s}} /\ (at[s] = "alive" => procs' = procs \ {s})

LEMMA EndsSettle ==
    \A s \in Script : Deliver(s) \/ Close(s) \/ Deadline(s) => Settling(s) /\ up
BY DEF Deliver, Close, Deadline, Settling, Started, Quiet

LEMMA OneMoves ==
    ASSUME SlotTypes, NEW s \in Script, NEW p \in Places, at' = [at EXCEPT ![s] = p]
    PROVE  /\ at' \in [Script -> Places] /\ at'[s] = p /\ \A x \in Script : x # s => at'[x] = at[x]
BY DEF SlotTypes

LEMMA MoveKeepsGuard ==
    ASSUME SlotTypes, GuardOK, UNCHANGED slots, NEW s \in Script, NEW p \in Places,
           at' = [at EXCEPT ![s] = p], at[s] # "queued", p # "queued",
           s \in Frame => (at[s] \in Holding <=> p \in Holding)
    PROVE  GuardOK' /\ SlotTypes'
<1>1. at' \in [Script -> Places] /\ at'[s] = p /\ \A x \in Script : x # s => at'[x] = at[x]
  BY OneMoves
<1>2. \A x \in Frame : /\ at[x] \in Holding <=> at'[x] \in Holding
                       /\ at[x] = "queued" <=> at'[x] = "queued"
  BY <1>1, FrameTypes
<1> QED BY <1>1, <1>2, GuardStays DEF SlotTypes, slots

LEMMA AbortPlaces ==
    ASSUME SlotTypes, NEW status, Abort(status)
    PROVE  /\ at' \in [Script -> Places]
           /\ \A s \in Script : at'[s] = IF s \in Listening THEN "dying" ELSE at[s]
           /\ \A s \in Listening : s \in Script /\ at[s] = "alive"
BY DEF Abort, SlotTypes, Places, Listening

LEMMA NextKeepsGuard ==
    ASSUME SlotTypes, GuardOK, Next
    PROVE  GuardOK' /\ SlotTypes'
<1>1. ASSUME NEW f \in Frame, Ask(f) PROVE GuardOK' /\ SlotTypes'
  BY <1>1, MoveKeepsGuard, FrameTypes DEF Ask, Holding, Started, Places
<1>2. ASSUME NEW f \in Frame, Receive(f) PROVE GuardOK' /\ SlotTypes'
  <2>1. \E p \in {"failed", "admitting"} : at' = [at EXCEPT ![f] = p]
    BY <1>2 DEF Receive
  <2> QED BY <1>2, <2>1, MoveKeepsGuard, FrameTypes DEF Receive, Holding, Started, Places
<1>3. ASSUME NEW f \in Frame, Admit(f) PROVE GuardOK' /\ SlotTypes'
  <2>1. CASE AcquireSlot(f)
    BY <1>3, <2>1, GuardAcquire DEF Admit
  <2>2. CASE at' = [at EXCEPT ![f] = "failed"] /\ UNCHANGED slots
    BY <1>3, <2>2, MoveKeepsGuard, FrameTypes DEF Admit, Holding, Started, Places
  <2> QED BY <1>3, <2>1, <2>2 DEF Admit
<1>4. ASSUME NEW f \in Frame, GrantSlot(f) PROVE GuardOK' /\ SlotTypes'
  <2>1. f \in Holders
    BY <1>4 DEF GrantSlot, Holders
  <2>2. CASE ReleaseSlot([at EXCEPT ![f] = "failed"])
    BY <2>1, <2>2, GuardRelease
  <2>3. CASE at' = [at EXCEPT ![f] = "alive"] /\ UNCHANGED slots
    BY <1>4, <2>3, MoveKeepsGuard, FrameTypes DEF GrantSlot, Holding, Started, Places
  <2> QED BY <1>4, <2>2, <2>3 DEF GrantSlot
<1>5. ASSUME NEW f \in Frame, AgentCall(f) PROVE GuardOK' /\ SlotTypes'
  BY <1>5, GuardStays DEF AgentCall, slots, SlotTypes
<1>6. ASSUME NEW s \in Script, Finish(s) \/ Die(s) PROVE GuardOK' /\ SlotTypes'
  <2>1. \E p \in {"ended", "dying"} : at' = [at EXCEPT ![s] = p]
    BY <1>6 DEF Finish, Die
  <2> QED BY <1>6, <2>1, MoveKeepsGuard DEF Finish, Die, Holding, Started, Places
<1>7. ASSUME NEW s \in Script, Deliver(s) \/ Close(s) \/ Deadline(s) PROVE GuardOK' /\ SlotTypes'
  BY <1>7, EndsSettle, Settles DEF Settling
<1>8. CASE Suspend \/ Stop
  <2>1. PICK status : Abort(status)
    BY <1>8 DEF Suspend, Stop
  <2>2. \A x \in Frame : /\ at[x] \in Holding <=> at'[x] \in Holding
                         /\ at[x] = "queued" <=> at'[x] = "queued"
    BY <2>1, AbortPlaces, FrameTypes DEF Holding, Started
  <2> QED BY <2>1, <2>2, AbortPlaces, GuardStays DEF Abort, SlotTypes, slots
<1>9. CASE Resume
  <2>2. \A x \in Frame : at'[x] = at[x]
    BY <1>9, FrameTypes DEF Resume, SlotTypes, Top, Frame
  <2>3. at' \in [Script -> Places]
    BY <1>9 DEF Resume, SlotTypes, Places
  <2> QED BY <1>9, <2>2, <2>3, GuardStays DEF Resume, SlotTypes, slots
<1>10. CASE Crash
  <2>1. at' = [s \in Script |-> "out"] /\ line' = <<>> /\ inFlight' = 0
    BY <1>10 DEF Crash
  <2>2. Holders' = {} /\ \A f \in Frame : at'[f] = "out"
    BY <2>1, FrameTypes DEF Holders, Started
  <2>3. DOMAIN line' = {} /\ line' \in Seq(Frame)
    BY <2>1
  <2>4. at' \in [Script -> Places]
    BY <2>1 DEF Places
  <2> QED BY <2>1, <2>2, <2>3, <2>4, FS_EmptySet, Constants DEF GuardOK, InLine, SlotTypes
<1>11. CASE Boot
  BY <1>11, GuardStays DEF Boot, slots, SlotTypes
<1> QED BY <1>1, <1>2, <1>3, <1>4, <1>5, <1>6, <1>7, <1>8, <1>9, <1>10, <1>11 DEF Next, EngineStep

-----------------------------------------------------------------------------
(* The slots are handed out in order *)

LEMMA SameWidth == \A S : FramePool!Cardinality(S) = Cardinality(S)
BY DEF FramePool!Cardinality, Cardinality

LEMMA PoolJoined ==
    ASSUME SlotTypes, GuardOK, NEW f \in Frame, at[f] = "admitting", Joined(f, Holders, Holders', line, line')
    PROVE  FramePool!PStep
<1>1. FramePool!Stranger(f)
  BY DEF FramePool!Stranger, Holders, Started, GuardOK, InLine
<1>2. FramePool!Take(f) \/ FramePool!Wait(f)
  BY <1>1, SameWidth DEF Joined, FramePool!Take, FramePool!Wait
<1> QED BY <1>2 DEF FramePool!PStep, FramePool!PNext

LEMMA PoolReturned ==
    ASSUME NEW f \in Holders, Returned(f, Holders, Holders', line, line')
    PROVE  FramePool!PStep
<1>1. FramePool!Give(f) \/ FramePool!Hand(f)
  BY DEF Returned, FramePool!Give, FramePool!Hand
<1>2. f \in Frame
  BY DEF Holders
<1> QED BY <1>1, <1>2 DEF FramePool!PStep, FramePool!PNext

LEMMA PoolUntouched ==
    ASSUME line' = line, \A x \in Frame : at[x] \in Holding <=> at'[x] \in Holding
    PROVE  FramePool!PStep
<1>1. Holders' = Holders
  BY DEF Holders, Holding, Started
<1> QED BY <1>1 DEF FramePool!PStep, FramePool!pvars

LEMMA PoolMoves ==
    ASSUME SlotTypes, UNCHANGED slots, NEW s \in Script, NEW p \in Places, at' = [at EXCEPT ![s] = p],
           s \in Frame => (at[s] \in Holding <=> p \in Holding)
    PROVE  FramePool!PStep
<1>1. at'[s] = p /\ \A x \in Script : x # s => at'[x] = at[x]
  BY OneMoves
<1>2. \A x \in Frame : at[x] \in Holding <=> at'[x] \in Holding
  BY <1>1, FrameTypes
<1> QED BY <1>2, PoolUntouched DEF slots

LEMMA NextServesInOrder ==
    ASSUME SlotTypes, GuardOK, Next
    PROVE  FramePool!PStep
<1>1. ASSUME NEW f \in Frame, Ask(f) PROVE FramePool!PStep
  BY <1>1, PoolMoves, FrameTypes DEF Ask, Holding, Started, Places
<1>2. ASSUME NEW f \in Frame, Receive(f) PROVE FramePool!PStep
  <2>1. \E p \in {"failed", "admitting"} : at' = [at EXCEPT ![f] = p]
    BY <1>2 DEF Receive
  <2> QED BY <1>2, <2>1, PoolMoves, FrameTypes DEF Receive, Holding, Started, Places
<1>3. ASSUME NEW f \in Frame, Admit(f) PROVE FramePool!PStep
  <2>1. CASE AcquireSlot(f)
    BY <1>3, <2>1, GuardAcquire, PoolJoined DEF Admit
  <2>2. CASE at' = [at EXCEPT ![f] = "failed"] /\ UNCHANGED slots
    BY <1>3, <2>2, PoolMoves, FrameTypes DEF Admit, Holding, Started, Places
  <2> QED BY <1>3, <2>1, <2>2 DEF Admit
<1>4. ASSUME NEW f \in Frame, GrantSlot(f) PROVE FramePool!PStep
  <2>1. f \in Holders
    BY <1>4 DEF GrantSlot, Holders
  <2>2. CASE ReleaseSlot([at EXCEPT ![f] = "failed"])
    BY <2>1, <2>2, GuardRelease, PoolReturned
  <2>3. CASE at' = [at EXCEPT ![f] = "alive"] /\ UNCHANGED slots
    BY <1>4, <2>3, PoolMoves, FrameTypes DEF GrantSlot, Holding, Started, Places
  <2> QED BY <1>4, <2>2, <2>3 DEF GrantSlot
<1>5. ASSUME NEW f \in Frame, AgentCall(f) PROVE FramePool!PStep
  BY <1>5, PoolUntouched DEF AgentCall, slots
<1>6. ASSUME NEW s \in Script, Finish(s) \/ Die(s) PROVE FramePool!PStep
  <2>1. \E p \in {"ended", "dying"} : at' = [at EXCEPT ![s] = p]
    BY <1>6 DEF Finish, Die
  <2> QED BY <1>6, <2>1, PoolMoves DEF Finish, Die, Holding, Started, Places
<1>7. ASSUME NEW s \in Script, Deliver(s) \/ Close(s) \/ Deadline(s) PROVE FramePool!PStep
  <2>1. UNCHANGED <<Holders, line>> \/ (s \in Holders /\ Returned(s, Holders, Holders', line, line'))
    BY <1>7, EndsSettle, Settles DEF Settling
  <2> QED BY <2>1, PoolReturned DEF FramePool!PStep, FramePool!pvars
<1>8. CASE Suspend \/ Stop
  <2>1. PICK status : Abort(status)
    BY <1>8 DEF Suspend, Stop
  <2>2. \A x \in Frame : at[x] \in Holding <=> at'[x] \in Holding
    BY <2>1, AbortPlaces, FrameTypes DEF Holding, Started
  <2> QED BY <2>1, <2>2, PoolUntouched DEF Abort, slots
<1>9. CASE Resume
  <2>1. \A x \in Frame : at'[x] = at[x]
    BY <1>9, FrameTypes DEF Resume, SlotTypes, Top, Frame
  <2> QED BY <1>9, <2>1, PoolUntouched DEF Resume, slots
<1>10. CASE Crash
  <2>1. line' = <<>> /\ \A f \in Frame : at'[f] = "out"
    BY <1>10, FrameTypes DEF Crash
  <2>2. Holders' = {}
    BY <2>1 DEF Holders, Started
  <2> QED BY <2>1, <2>2 DEF FramePool!PStep, FramePool!PNext, FramePool!Reset
<1>11. CASE Boot
  BY <1>11, PoolUntouched DEF Boot, slots
<1> QED BY <1>1, <1>2, <1>3, <1>4, <1>5, <1>6, <1>7, <1>8, <1>9, <1>10, <1>11 DEF Next, EngineStep

-----------------------------------------------------------------------------
(* Steps in which no frame sets out *)

\* Of a place before and after such a step.
Winds(p, q) ==
    \/ q = p
    \/ q \in {"sent", "ok", "failed"}
    \/ p = "queued" /\ q = "granted"
    \/ p \in Started /\ q \in {"ended", "dying"}

Unwinding ==
    /\ UNCHANGED <<exec, aborted, descendants, signal, forked, bases>>
    /\ \A f \in Frame : Winds(at[f], at'[f])
    /\ run' \in {run, "over"} /\ ~AllOut

RunTypes ==
    /\ run \in {"running", "suspended", "over"} /\ exec \in Execs
    /\ aborted \subseteq Execs
    /\ signal \in [Frame -> Execs]
    /\ descendants \in Nat /\ forked \subseteq Frame
    /\ bases \in [Sites -> 0..Cardinality(Sites)]
    /\ journal \in [Numbers -> Scripts] /\ plan \in [Numbers -> Scripts]
    /\ missed \in BOOLEAN /\ source \in [Script -> Scripts]
    /\ up \in BOOLEAN /\ procs \subseteq Script /\ records \subseteq Script
    /\ crashes \in 0..MaxCrashes

LEMMA TypeParts == TypeOK <=> RunTypes /\ SlotTypes
BY DEF TypeOK, RunTypes, SlotTypes

LEMMA Fewer ==
    ASSUME CountedOK, RunTypes, Counted' \subseteq Counted, descendants' = descendants
    PROVE  CountedOK'
<1>1. IsFiniteSet(Counted) /\ Counted' \in SUBSET Counted
  BY DEF CountedOK
<1>2. /\ IsFiniteSet(Counted') /\ Cardinality(Counted') \in Nat /\ Cardinality(Counted) \in Nat
      /\ Cardinality(Counted') <= Cardinality(Counted)
  BY <1>1, Part
<1> QED BY <1>2, Constants DEF CountedOK, RunTypes

LEMMA UnwindingKeeps ==
    ASSUME RunTypes, CountedOK, SignalsOK, NumbersOK, Unwinding
    PROVE  CountedOK' /\ SignalsOK' /\ NumbersOK'
<1>1. /\ UNCHANGED <<exec, aborted, descendants, signal, forked, bases>>
      /\ run' \in {run, "over"} /\ ~AllOut
      /\ \A f \in Frame : Winds(at[f], at'[f])
  BY DEF Unwinding
<1>2. \A f \in Frame : /\ at'[f] \in Coming => at[f] \in Coming
                       /\ at'[f] \in Active => at[f] \in Active
                       /\ at'[f] \in Numbered => at[f] \in Numbered
  BY <1>1 DEF Winds, Coming, Active, Numbered, Started
<1>3. Counted' \subseteq Counted
  BY <1>1, <1>2 DEF Counted
<1>4. CountedOK'
  BY <1>1, <1>3, Fewer
<1>5. SignalsOK'
  <2>1. run' = "suspended" => run = "suspended"
    BY <1>1
  <2>2. ~(run = "suspended" /\ exec \notin aborted)
    BY <1>1 DEF SignalsOK
  <2> QED BY <1>1, <1>2, <2>1, <2>2 DEF SignalsOK
<1>6. NumbersOK'
  <2>1. Taken' = Taken /\ NumbersApart'
    BY <1>1 DEF Taken, NumbersOK, NumbersApart
  <2> QED BY <1>1, <1>2, <2>1 DEF NumbersOK
<1> QED BY <1>4, <1>5, <1>6

LEMMA TheseUnwind ==
    ASSUME SlotTypes, GuardOK,
           \/ \E f \in Frame : Ask(f) \/ AgentCall(f)
           \/ \E f \in Frame : Admit(f) /\ signal[f] \in aborted
           \/ \E f \in Frame : GrantSlot(f) /\ signal[f] \in aborted
           \/ \E s \in Script : Finish(s) \/ Die(s) \/ Deliver(s) \/ Close(s) \/ Deadline(s)
    PROVE  Unwinding
<1>1. ASSUME NEW f \in Frame, Ask(f) PROVE Unwinding
  <2>1. at' = [at EXCEPT ![f] = "sent"] /\ Caller(f) \in Script
    <3>1. Caller(f) \in Script
      BY NestedAssumption DEF Caller, Frame, Script, Scripts
    <3> QED BY <1>1, <3>1 DEF Ask
  <2>2. \A x \in Frame : Winds(at[x], at'[x])
    BY <2>1, FrameTypes DEF Winds, SlotTypes
  <2> QED BY <1>1, <2>1, <2>2 DEF Ask, Unwinding, control, AllOut
<1>2. ASSUME NEW f \in Frame, AgentCall(f) PROVE Unwinding
  BY <1>2, FrameTypes DEF AgentCall, Unwinding, control, AllOut, Winds
<1>3. ASSUME NEW f \in Frame, Admit(f), signal[f] \in aborted PROVE Unwinding
  <2>1. at' = [at EXCEPT ![f] = "failed"] /\ UNCHANGED <<slots, bases>>
    BY <1>3 DEF Admit
  <2>2. \A x \in Frame : Winds(at[x], at'[x])
    BY <2>1, FrameTypes DEF Winds, SlotTypes
  <2> QED BY <1>3, <2>1, <2>2, FrameTypes DEF Admit, Unwinding, control, AllOut
<1>4. ASSUME NEW f \in Frame, GrantSlot(f), signal[f] \in aborted PROVE Unwinding
  <2>1. ReleaseSlot([at EXCEPT ![f] = "failed"]) /\ UNCHANGED forked /\ f \in Holders
    BY <1>4 DEF GrantSlot, Holders
  <2>2. /\ at'[f] = "failed"
        /\ \A x \in Script : x # f => at'[x] = at[x] \/ (at[x] = "queued" /\ at'[x] = "granted")
    BY <2>1, GuardRelease
  <2>3. \A x \in Frame : Winds(at[x], at'[x])
    BY <2>2, FrameTypes DEF Winds
  <2> QED BY <1>4, <2>1, <2>3, FrameTypes DEF GrantSlot, Unwinding, control, AllOut
<1>5. ASSUME NEW s \in Script, Finish(s) \/ Die(s) PROVE Unwinding
  <2>1. at[s] = "alive" /\ \E p \in {"ended", "dying"} : at' = [at EXCEPT ![s] = p]
    BY <1>5 DEF Finish, Die
  <2>2. \A x \in Frame : Winds(at[x], at'[x])
    BY <2>1, FrameTypes DEF Winds, SlotTypes, Started
  <2> QED BY <1>5, <2>1, <2>2 DEF Finish, Die, Unwinding, control, AllOut
<1>6. ASSUME NEW s \in Script, Deliver(s) \/ Close(s) \/ Deadline(s) PROVE Unwinding
  <2>1. Settling(s)
    BY <1>6, EndsSettle
  <2>2. /\ at'[s] \in {"ok", "failed"} /\ run' \in {run, "over"} /\ at[s] # "out"
        /\ \A x \in Script : x # s => at'[x] = at[x] \/ (at[x] = "queued" /\ at'[x] = "granted")
    BY <2>1, Settles DEF Settling, Started
  <2>3. \A x \in Frame : Winds(at[x], at'[x])
    BY <2>2, FrameTypes DEF Winds
  <2> QED BY <2>1, <2>2, <2>3 DEF Settling, Unwinding, AllOut
<1> QED BY <1>1, <1>2, <1>3, <1>4, <1>5, <1>6

-----------------------------------------------------------------------------
(* Steps in which one does, and those of the whole run *)

LEMMA ExecTypes ==
    ASSUME RunTypes
    PROVE  exec \in Nat /\ exec > 0 /\ \A f \in Frame : signal[f] \in Nat
BY Constants DEF RunTypes, Execs

LEMMA ReceiveKeeps ==
    ASSUME RunTypes, SlotTypes, CountedOK, SignalsOK, NumbersOK, NEW f \in Frame, Receive(f)
    PROVE  CountedOK' /\ SignalsOK' /\ NumbersOK'
<1>1. /\ at[f] = "sent" /\ f \in Script /\ exec \in Nat /\ descendants \in Nat
      /\ UNCHANGED <<run, exec, aborted, forked, bases>>
  BY ExecTypes, FrameTypes DEF Receive, RunTypes
<1>2. PICK p \in {"failed", "admitting"} :
         /\ at' = [at EXCEPT ![f] = p]
         /\ \/ p = "failed" /\ descendants' \in {descendants, descendants + 1}
            \/ p = "admitting" /\ descendants' = descendants + 1 /\ descendants + 1 <= MaxDescendants
  BY <1>1, Constants DEF Receive
<1>3. /\ at'[f] = p /\ \A x \in Frame : x # f => at'[x] = at[x]
      /\ signal'[f] = exec /\ \A x \in Frame : x # f => signal'[x] = signal[x]
  BY <1>1, <1>2, FrameTypes DEF Receive, SlotTypes, RunTypes
<1>4. CountedOK'
  <2>1. IsFiniteSet(Counted) /\ Cardinality(Counted) <= descendants /\ Cardinality(Counted) <= MaxDescendants
    BY DEF CountedOK
  <2>2. CASE p = "failed"
    <3>1. Counted' \in SUBSET Counted
      BY <1>1, <1>3, <2>2 DEF Counted, Coming
    <3>2. /\ IsFiniteSet(Counted') /\ Cardinality(Counted') \in Nat /\ Cardinality(Counted) \in Nat
          /\ Cardinality(Counted') <= Cardinality(Counted)
      BY <2>1, <3>1, Part
    <3> QED BY <1>1, <1>2, <2>1, <3>2, Constants DEF CountedOK
  <2>3. CASE p = "admitting"
    <3>1. Counted' = Counted \cup {f}
      BY <1>1, <1>3, <2>3 DEF Counted, Coming
    <3>2. /\ IsFiniteSet(Counted') /\ Cardinality(Counted') \in Nat /\ Cardinality(Counted) \in Nat
          /\ Cardinality(Counted') <= Cardinality(Counted) + 1
      BY <2>1, <3>1, AtMostOneMore
    <3>3. descendants' = descendants + 1 /\ descendants + 1 <= MaxDescendants
      BY <1>2, <2>3
    <3> QED BY <1>1, <2>1, <3>2, <3>3, Constants DEF CountedOK
  <2> QED BY <2>2, <2>3
<1>5. SignalsOK'
  <2>1. \A x \in Frame : signal'[x] <= exec
    BY <1>1, <1>3 DEF SignalsOK
  <2>2. \A x \in Frame : at'[x] \in Active => signal'[x] = exec \/ signal'[x] \in aborted
    BY <1>3 DEF SignalsOK
  <2>3. ~(run = "suspended" /\ exec \notin aborted)
    BY <1>1 DEF SignalsOK, AllOut
  <2> QED BY <1>1, <2>1, <2>2, <2>3 DEF SignalsOK
<1>6. NumbersOK'
  <2>1. Taken' = Taken /\ NumbersApart'
    BY <1>1 DEF Taken, NumbersOK, NumbersApart
  <2>2. \A x \in Frame : at'[x] \in Numbered /\ signal'[x] = exec => bases[x.path] # 0
    BY <1>3 DEF NumbersOK, Numbered, Started
  <2> QED BY <1>1, <2>1, <2>2 DEF NumbersOK
<1> QED BY <1>4, <1>5, <1>6

\* A path gets a number that no other has.
LEMMA NumberGiven ==
    ASSUME RunTypes, NumbersOK, NEW f \in Frame, FrameBaseFor(f)
    PROVE  /\ bases' \in [Sites -> 0..Cardinality(Sites)] /\ NumbersApart'
           /\ \A p \in Sites : bases'[p] <= Cardinality(Taken')
           /\ bases'[f.path] # 0 /\ \A p \in Sites : bases[p] # 0 => bases'[p] # 0
<1>1. /\ f.path \in Sites /\ bases \in [Sites -> 0..Cardinality(Sites)] /\ NumbersApart
      /\ \A p \in Sites : bases[p] <= Cardinality(Taken) /\ bases[p] \in Nat
  BY FrameTypes, Constants DEF RunTypes, NumbersOK
<1>2. CASE bases[f.path] # 0
  <2>1. bases' = bases
    BY <1>2 DEF FrameBaseFor
  <2>2. Taken' = Taken /\ NumbersApart'
    BY <1>1, <2>1 DEF Taken, NumbersApart
  <2> QED BY <1>1, <1>2, <2>1, <2>2
<1>3. CASE bases[f.path] = 0
  <2> DEFINE number == Cardinality(Taken) + 1
  <2>1. bases' = [bases EXCEPT ![f.path] = number]
    BY <1>3 DEF FrameBaseFor, Taken
  <2>2. IsFiniteSet(Sites) /\ Taken \in SUBSET Sites /\ f.path \notin Taken
    BY <1>1, <1>3, Constants DEF Taken
  <2>3. IsFiniteSet(Taken) /\ Cardinality(Taken) \in Nat
    BY <2>2, Part
  <2>4. /\ IsFiniteSet(Taken \cup {f.path}) /\ Cardinality(Taken \cup {f.path}) = number
    BY <2>2, <2>3, OneMore
  <2>5. Taken \cup {f.path} \in SUBSET Sites
    BY <1>1, <2>2
  <2>6. Cardinality(Taken \cup {f.path}) <= Cardinality(Sites)
    BY <2>2, <2>5, Part
  <2>7. number \in 0..Cardinality(Sites) /\ number # 0
    BY <2>3, <2>4, <2>6, Constants
  <2> HIDE DEF number
  <2>8. bases'[f.path] = number /\ \A p \in Sites : p # f.path => bases'[p] = bases[p]
    BY <1>1, <2>1
  <2>9. bases' \in [Sites -> 0..Cardinality(Sites)]
    BY <1>1, <2>1, <2>7
  <2>10. Taken' = Taken \cup {f.path}
    BY <1>1, <2>7, <2>8 DEF Taken
  <2>11. \A p \in Sites : bases[p] < number
    BY <1>1, <2>3 DEF number
  <2>12. NumbersApart'
    BY <1>1, <2>7, <2>8, <2>11 DEF NumbersApart
  <2>13. \A p \in Sites : bases'[p] <= number
    BY <1>1, <2>7, <2>8, <2>11, Constants
  <2>14. Cardinality(Taken') = number
    BY <2>4, <2>10
  <2> QED BY <2>7, <2>8, <2>9, <2>12, <2>13, <2>14
<1> QED BY <1>2, <1>3

LEMMA AdmitKeeps ==
    ASSUME RunTypes, SlotTypes, GuardOK, CountedOK, SignalsOK, NumbersOK,
           NEW f \in Frame, Admit(f), signal[f] \notin aborted
    PROVE  CountedOK' /\ SignalsOK' /\ NumbersOK'
<1>1. /\ at[f] = "admitting" /\ f \in Script /\ FrameBaseFor(f) /\ AcquireSlot(f)
      /\ UNCHANGED <<run, exec, aborted, descendants, signal, forked>>
  BY FrameTypes DEF Admit, control
<1>2. at'[f] \in {"granted", "queued"} /\ at' = [at EXCEPT ![f] = at'[f]]
  BY <1>1, GuardAcquire
<1>3. \A x \in Frame : x # f => at'[x] = at[x]
  BY <1>2, FrameTypes DEF SlotTypes
<1>4. CountedOK'
  <2>1. Counted' \subseteq Counted
    BY <1>1, <1>2, <1>3 DEF Counted, Coming
  <2> QED BY <1>1, <2>1, Fewer
<1>5. SignalsOK'
  <2>1. \A x \in Frame : at'[x] \in Active => signal[x] = exec \/ signal[x] \in aborted
    BY <1>1, <1>2, <1>3 DEF SignalsOK, Active, Coming
  <2>2. ~(run = "suspended" /\ exec \notin aborted)
    BY <1>1 DEF SignalsOK, AllOut
  <2> QED BY <1>1, <2>1, <2>2 DEF SignalsOK
<1>6. NumbersOK'
  <2>1. /\ NumbersApart' /\ \A p \in Sites : bases'[p] <= Cardinality(Taken')
        /\ bases'[f.path] # 0 /\ \A p \in Sites : bases[p] # 0 => bases'[p] # 0
    BY <1>1, NumberGiven
  <2>2. \A x \in Frame : at'[x] \in Numbered /\ signal[x] = exec => bases'[x.path] # 0
    BY <1>3, <2>1, FrameTypes DEF NumbersOK
  <2> QED BY <1>1, <2>1, <2>2 DEF NumbersOK
<1> QED BY <1>4, <1>5, <1>6

LEMMA GrantKeeps ==
    ASSUME RunTypes, SlotTypes, CountedOK, SignalsOK, NumbersOK,
           NEW f \in Frame, GrantSlot(f), signal[f] \notin aborted
    PROVE  CountedOK' /\ SignalsOK' /\ NumbersOK'
<1>1. /\ at[f] = "granted" /\ f \in Script /\ forked' = forked \cup {f} /\ at' = [at EXCEPT ![f] = "alive"]
      /\ UNCHANGED <<run, exec, aborted, descendants, signal, bases>>
  BY FrameTypes DEF GrantSlot, control
<1>2. at'[f] = "alive" /\ \A x \in Frame : x # f => at'[x] = at[x]
  BY <1>1, FrameTypes DEF SlotTypes
<1>3. signal[f] = exec
  BY <1>1 DEF SignalsOK, Active, Coming
<1>4. CountedOK'
  <2>1. Counted' \subseteq Counted
    BY <1>1, <1>2, <1>3 DEF Counted, Coming
  <2> QED BY <1>1, <2>1, Fewer
<1>5. SignalsOK'
  <2>1. ~(run = "suspended" /\ exec \notin aborted)
    BY <1>1 DEF SignalsOK, AllOut
  <2> QED BY <1>1, <1>2, <1>3, <2>1 DEF SignalsOK
<1>6. NumbersOK'
  <2>1. Taken' = Taken /\ NumbersApart'
    BY <1>1 DEF Taken, NumbersOK, NumbersApart
  <2>2. \A x \in Frame : at'[x] \in Numbered /\ signal[x] = exec => bases[x.path] # 0
    BY <1>1, <1>2 DEF NumbersOK, Numbered
  <2> QED BY <1>1, <2>1, <2>2 DEF NumbersOK
<1> QED BY <1>4, <1>5, <1>6

LEMMA AbortKeeps ==
    ASSUME RunTypes, SlotTypes, CountedOK, SignalsOK, NumbersOK, NEW status, Abort(status)
    PROVE  CountedOK' /\ SignalsOK' /\ NumbersOK'
<1>1. /\ UNCHANGED <<exec, descendants, signal, forked, bases>> /\ aborted' = aborted \cup {exec}
      /\ \A x \in Frame : at'[x] = at[x] \/ (at[x] = "alive" /\ at'[x] = "dying")
  BY AbortPlaces, FrameTypes DEF Abort
<1>2. \A x \in Frame : /\ at'[x] \in Coming => at[x] \in Coming
                       /\ at'[x] \in Active => at[x] \in Active
                       /\ at'[x] \in Numbered => at[x] \in Numbered
  BY <1>1 DEF Coming, Active, Numbered, Started
<1>3. Counted' \subseteq Counted
  BY <1>1, <1>2 DEF Counted
<1>4. CountedOK'
  BY <1>1, <1>3, Fewer
<1>5. SignalsOK'
  BY <1>1, <1>2 DEF SignalsOK
<1>6. NumbersOK'
  <2>1. Taken' = Taken /\ NumbersApart'
    BY <1>1 DEF Taken, NumbersOK, NumbersApart
  <2> QED BY <1>1, <1>2, <2>1 DEF NumbersOK
<1> QED BY <1>4, <1>5, <1>6

LEMMA ResumeKeeps ==
    ASSUME RunTypes, SlotTypes, SignalsOK, Resume
    PROVE  CountedOK' /\ SignalsOK' /\ NumbersOK'
<1>1. /\ exec' = exec + 1 /\ descendants' = 0 /\ forked' = {} /\ bases' = [p \in Sites |-> 0]
      /\ run' = "running" /\ run = "suspended" /\ UNCHANGED <<aborted, signal>>
  BY DEF Resume
<1>2. \A x \in Frame : at'[x] = at[x]
  BY FrameTypes DEF Resume, SlotTypes, Top, Frame
<1>3. \A x \in Frame : signal[x] \in Nat /\ signal[x] <= exec /\ exec \in Nat
  BY ExecTypes DEF SignalsOK
<1>4. Counted' = {}
  BY <1>1, <1>3 DEF Counted
<1>5. CountedOK'
  BY <1>1, <1>4, FS_EmptySet, Constants DEF CountedOK
<1>6. \A x \in Frame : at[x] \in Active => signal[x] \in aborted
  <2>1. CASE exec \in aborted
    BY <2>1 DEF SignalsOK
  <2>2. CASE AllOut
    BY <2>2, FrameTypes DEF AllOut, Active, Coming, Started
  <2> QED BY <1>1, <2>1, <2>2 DEF SignalsOK
<1>7. SignalsOK'
  BY <1>1, <1>2, <1>3, <1>6 DEF SignalsOK
<1>8. NumbersOK'
  <2>1. Taken' = {} /\ NumbersApart'
    BY <1>1 DEF Taken, NumbersApart
  <2>2. \A p \in Sites : bases'[p] = 0
    BY <1>1
  <2> QED BY <1>1, <1>3, <2>1, <2>2, FS_EmptySet DEF NumbersOK
<1> QED BY <1>5, <1>7, <1>8

LEMMA CrashKeeps ==
    ASSUME RunTypes, CountedOK, SignalsOK, NumbersOK, Crash
    PROVE  CountedOK' /\ SignalsOK' /\ NumbersOK'
<1>1. /\ \A s \in Script : at'[s] = "out"
      /\ UNCHANGED <<run, exec, aborted, descendants, signal, forked, bases>>
  BY DEF Crash
<1>2. AllOut' /\ \A x \in Frame : at'[x] = "out"
  BY <1>1, FrameTypes DEF AllOut
<1>3. Counted' \subseteq Counted
  BY <1>1, <1>2 DEF Counted, Coming
<1>4. CountedOK'
  BY <1>1, <1>3, Fewer
<1>5. SignalsOK'
  BY <1>1, <1>2 DEF SignalsOK, Active, Coming, Started
<1>6. NumbersOK'
  <2>1. Taken' = Taken /\ NumbersApart'
    BY <1>1 DEF Taken, NumbersOK, NumbersApart
  <2> QED BY <1>1, <1>2, <2>1 DEF NumbersOK, Numbered, Started
<1> QED BY <1>4, <1>5, <1>6

LEMMA BootKeeps ==
    ASSUME RunTypes, CountedOK, SignalsOK, NumbersOK, ProcessesOK, Boot
    PROVE  CountedOK' /\ SignalsOK' /\ NumbersOK'
<1>1. UNCHANGED <<exec, aborted, descendants, at, signal, forked, bases>> /\ ~up
  BY DEF Boot
<1>2. AllOut' /\ \A x \in Frame : at[x] = "out"
  BY <1>1, FrameTypes DEF ProcessesOK, AllOut
<1>3. Counted' \subseteq Counted
  BY <1>1 DEF Counted
<1>4. CountedOK'
  BY <1>1, <1>3, Fewer
<1>5. SignalsOK'
  BY <1>1, <1>2 DEF SignalsOK
<1>6. NumbersOK'
  <2>1. Taken' = Taken /\ NumbersApart'
    BY <1>1 DEF Taken, NumbersOK, NumbersApart
  <2> QED BY <1>1, <1>2, <2>1 DEF NumbersOK
<1> QED BY <1>4, <1>5, <1>6

LEMMA NextKeepsFrames ==
    ASSUME RunTypes, SlotTypes, GuardOK, CountedOK, SignalsOK, NumbersOK, ProcessesOK, Next
    PROVE  CountedOK' /\ SignalsOK' /\ NumbersOK'
<1>1. CASE Unwinding
  BY <1>1, UnwindingKeeps
<1>2. ASSUME NEW f \in Frame, Admit(f) \/ GrantSlot(f) PROVE CountedOK' /\ SignalsOK' /\ NumbersOK'
  <2>1. CASE signal[f] \in aborted
    BY <1>1, <1>2, <2>1, TheseUnwind
  <2>2. CASE signal[f] \notin aborted
    BY <1>2, <2>2, AdmitKeeps, GrantKeeps
  <2> QED BY <2>1, <2>2
<1>3. CASE Suspend \/ Stop
  BY <1>3, AbortKeeps DEF Suspend, Stop
<1> QED BY <1>1, <1>2, <1>3, TheseUnwind, ReceiveKeeps, ResumeKeeps, CrashKeeps, BootKeeps DEF Next, EngineStep

-----------------------------------------------------------------------------
(* Children *)

LEMMA NextKeepsAborted ==
    ASSUME RunTypes, SlotTypes, GuardOK, SignalsOK, ProcessesOK, NothingRunsAborted, Next
    PROVE  NothingRunsAborted'
<1>1. CASE Unwinding
  BY <1>1 DEF Unwinding, NothingRunsAborted, Winds
<1>2. ASSUME NEW f \in Frame, Receive(f) PROVE NothingRunsAborted'
  <2>1. \E p \in {"failed", "admitting"} : at' = [at EXCEPT ![f] = p]
    BY <1>2 DEF Receive
  <2>2. \A x \in Frame : at'[x] = "alive" => at[x] = "alive" /\ signal'[x] = signal[x]
    BY <1>2, <2>1, FrameTypes DEF Receive, SlotTypes, RunTypes
  <2> QED BY <1>2, <2>2 DEF Receive, NothingRunsAborted
<1>3. ASSUME NEW f \in Frame, Admit(f) PROVE NothingRunsAborted'
  <2>1. CASE signal[f] \in aborted
    BY <1>1, <1>3, <2>1, TheseUnwind
  <2>2. CASE signal[f] \notin aborted
    <3>1. at'[f] \in {"granted", "queued"} /\ at' = [at EXCEPT ![f] = at'[f]]
      BY <1>3, <2>2, GuardAcquire DEF Admit
    <3>2. \A x \in Frame : at'[x] = "alive" => at[x] = "alive"
      BY <3>1, FrameTypes DEF SlotTypes
    <3> QED BY <1>3, <3>2 DEF Admit, control, NothingRunsAborted
  <2> QED BY <2>1, <2>2
<1>4. ASSUME NEW f \in Frame, GrantSlot(f) PROVE NothingRunsAborted'
  <2>1. CASE signal[f] \in aborted
    BY <1>1, <1>4, <2>1, TheseUnwind
  <2>2. CASE signal[f] \notin aborted
    <3>1. \A x \in Frame : x # f => at'[x] = at[x]
      BY <1>4, <2>2, FrameTypes DEF GrantSlot, SlotTypes
    <3> QED BY <1>4, <2>2, <3>1 DEF GrantSlot, control, NothingRunsAborted
  <2> QED BY <2>1, <2>2
<1>5. ASSUME NEW status, Abort(status) PROVE NothingRunsAborted'
  <2>1. \A x \in Frame : at'[x] = "alive" => at[x] = "alive" /\ x \notin Listening
    BY <1>5, AbortPlaces, FrameTypes
  <2>2. \A x \in Frame : at[x] = "alive" /\ x \notin Listening => signal[x] # exec
    BY FrameTypes DEF Listening
  <2> QED BY <1>5, <2>1, <2>2 DEF Abort, NothingRunsAborted
<1>6. CASE Resume
  <2>1. \A x \in Frame : at'[x] = at[x]
    BY <1>6, FrameTypes DEF Resume, SlotTypes, Top, Frame
  <2> QED BY <1>6, <2>1 DEF Resume, NothingRunsAborted
<1>7. CASE Crash \/ Boot
  BY <1>7, FrameTypes DEF Crash, Boot, NothingRunsAborted
<1> QED BY <1>1, <1>2, <1>3, <1>4, <1>5, <1>6, <1>7, TheseUnwind DEF Next, EngineStep, Suspend, Stop

Alive == {s \in Script : at[s] = "alive"}

LEMMA NextKeepsProcesses ==
    ASSUME RunTypes, SlotTypes, GuardOK, ProcessesOK, Next
    PROVE  ProcessesOK'
<1>1. procs \subseteq records /\ (up => procs = Alive) /\ (~up => AllOut)
  BY DEF ProcessesOK, Alive
<1>2. ASSUME UNCHANGED <<up, procs, records>>, up, Alive' = Alive PROVE ProcessesOK'
  BY <1>1, <1>2 DEF ProcessesOK, Alive
<1>3. ASSUME NEW f \in Frame, Ask(f) \/ AgentCall(f) \/ Receive(f) PROVE ProcessesOK'
  <2>1. at' = at \/ (at[f] # "alive" /\ \E p \in {"sent", "failed", "admitting"} : at' = [at EXCEPT ![f] = p])
    BY <1>3 DEF Ask, AgentCall, Receive
  <2>2. Alive' = Alive
    BY <2>1, FrameTypes DEF Alive, SlotTypes
  <2> QED BY <1>2, <1>3, <2>2 DEF Ask, AgentCall, Receive, Quiet, control, children
<1>4. ASSUME NEW f \in Frame, Admit(f) PROVE ProcessesOK'
  <2>1. at[f] = "admitting" /\ \E p \in {"failed", "granted", "queued"} : at' = [at EXCEPT ![f] = p]
    BY <1>4, GuardAcquire DEF Admit
  <2>2. Alive' = Alive
    BY <2>1, FrameTypes DEF Alive, SlotTypes
  <2> QED BY <1>2, <1>4, <2>2 DEF Admit, Quiet, control, children
<1>5. ASSUME NEW f \in Frame, GrantSlot(f) PROVE ProcessesOK'
  <2>1. up /\ up' = up /\ f \in Script /\ at[f] = "granted" /\ f \in Holders
    BY <1>1, <1>5, FrameTypes DEF GrantSlot, control, AllOut, Holders
  <2>2. CASE ReleaseSlot([at EXCEPT ![f] = "failed"]) /\ UNCHANGED children
    <3>1. /\ at'[f] = "failed"
          /\ \A x \in Script : x # f => at'[x] = at[x] \/ (at[x] = "queued" /\ at'[x] = "granted")
      BY <2>1, <2>2, GuardRelease
    <3>2. Alive' = Alive
      BY <2>1, <3>1 DEF Alive
    <3> QED BY <1>2, <2>1, <2>2, <3>2 DEF children
  <2>3. CASE Fork(f) /\ at' = [at EXCEPT ![f] = "alive"]
    <3>1. Alive' = Alive \cup {f}
      BY <2>1, <2>3 DEF Alive, SlotTypes
    <3> QED BY <1>1, <2>1, <2>3, <3>1 DEF Fork, ProcessesOK, Alive
  <2> QED BY <1>5, <2>2, <2>3 DEF GrantSlot
<1>6. ASSUME NEW s \in Script, Finish(s) \/ Die(s) PROVE ProcessesOK'
  <2>1. /\ up /\ up' = up /\ procs' = procs \ {s} /\ records' = records
        /\ \E p \in {"ended", "dying"} : at' = [at EXCEPT ![s] = p]
    BY <1>6 DEF Finish, Die, Quiet, control
  <2>2. Alive' = Alive \ {s}
    BY <2>1 DEF Alive, SlotTypes
  <2> QED BY <1>1, <2>1, <2>2 DEF ProcessesOK, Alive
<1>7. ASSUME NEW s \in Script, Deliver(s) \/ Close(s) \/ Deadline(s) PROVE ProcessesOK'
  <2>1. Settling(s) /\ up
    BY <1>7, EndsSettle
  <2>2. /\ at'[s] \in {"ok", "failed"} /\ records' = records \ {s} /\ up' = up
        /\ \A x \in Script : x # s => at'[x] = at[x] \/ (at[x] = "queued" /\ at'[x] = "granted")
    BY <2>1, Settles DEF Settling
  <2>3. Alive' = Alive \ {s}
    BY <2>2 DEF Alive
  <2>4. procs' = procs \ {s}
    <3>1. CASE at[s] = "alive"
      BY <2>1, <3>1 DEF Settling
    <3>2. CASE at[s] # "alive"
      BY <1>1, <2>1, <3>2 DEF Settling, Alive
    <3> QED BY <3>1, <3>2
  <2> QED BY <1>1, <2>1, <2>2, <2>3, <2>4 DEF ProcessesOK, Alive
<1>8. ASSUME NEW status, Abort(status) PROVE ProcessesOK'
  <2>1. Alive' = Alive \ Listening
    BY <1>8, AbortPlaces DEF Alive
  <2> QED BY <1>1, <1>8, <2>1 DEF Abort, Quiet, ProcessesOK, Alive
<1>9. CASE Resume
  <2>1. Top(exec + 1) \in Script
    BY <1>9, Constants, FrameTypes DEF Resume, Execs, RunTypes
  <2>2. Alive' = Alive \cup {Top(exec + 1)}
    BY <1>9, <2>1 DEF Resume, Alive, SlotTypes
  <2> QED BY <1>1, <1>9, <2>2 DEF Resume, Quiet, Fork, ProcessesOK, Alive
<1>10. CASE Crash
  BY <1>1, <1>10 DEF Crash, ProcessesOK, AllOut, children
<1>11. CASE Boot
  <2>1. procs' = {} /\ records' = {} /\ Alive' = {} /\ up'
    BY <1>1, <1>11 DEF Boot, AllOut, Alive
  <2> QED BY <2>1 DEF ProcessesOK, Alive
<1> QED BY <1>3, <1>4, <1>5, <1>6, <1>7, <1>8, <1>9, <1>10, <1>11 DEF Next, EngineStep, Suspend, Stop

-----------------------------------------------------------------------------
(* Types *)

LEMMA NextKeepsTypes ==
    ASSUME RunTypes, SlotTypes, GuardOK, SignalsOK, NumbersOK, NothingRunsAborted, Next
    PROVE  RunTypes'
<1>1. ASSUME NEW f \in Frame, Ask(f) PROVE RunTypes'
  BY <1>1 DEF Ask, control, replay, children, RunTypes
<1>2. ASSUME NEW f \in Frame, Receive(f) PROVE RunTypes'
  <2>1. signal' \in [Frame -> Execs] /\ descendants' \in Nat
    BY <1>2 DEF Receive, RunTypes
  <2> QED BY <1>2, <2>1 DEF Receive, replay, children, RunTypes
<1>3. ASSUME NEW f \in Frame, Admit(f) PROVE RunTypes'
  <2>1. bases' \in [Sites -> 0..Cardinality(Sites)]
    BY <1>3, NumberGiven DEF Admit, RunTypes
  <2> QED BY <1>3, <2>1 DEF Admit, control, replay, children, RunTypes
<1>4. ASSUME NEW f \in Frame, GrantSlot(f) PROVE RunTypes'
  <2>1. procs' \subseteq Script /\ records' \subseteq Script /\ forked' \subseteq Frame
    BY <1>4, FrameTypes DEF GrantSlot, Fork, children, RunTypes
  <2> QED BY <1>4, <2>1 DEF GrantSlot, control, replay, RunTypes
<1>5. ASSUME NEW f \in Frame, AgentCall(f) PROVE RunTypes'
  <2>1. bases[f.path] \in Numbers /\ f.path \in Scripts /\ f \in Script
    <3>1. signal[f] = exec /\ f.path \in Sites
      BY <1>5, FrameTypes DEF AgentCall, SignalsOK, Active, Started
    <3>2. bases[f.path] # 0
      BY <1>5, <3>1 DEF AgentCall, NumbersOK, Numbered, Started
    <3> QED BY <3>1, <3>2, FrameTypes, Constants DEF RunTypes, Numbers, Scripts
  <2>2. source' \in [Script -> Scripts] /\ journal' \in [Numbers -> Scripts] /\ missed' \in BOOLEAN
    <3>1. plan[bases[f.path]] \in Scripts
      BY <2>1 DEF RunTypes
    <3> QED BY <1>5, <2>1, <3>1 DEF AgentCall, RunTypes
  <2> QED BY <1>5, <2>2 DEF AgentCall, control, children, RunTypes
<1>6. ASSUME NEW s \in Script, Finish(s) \/ Die(s) PROVE RunTypes'
  <2>1. procs' \subseteq Script
    BY <1>6 DEF Finish, Die, RunTypes
  <2> QED BY <1>6, <2>1 DEF Finish, Die, control, replay, RunTypes
<1>7. ASSUME NEW s \in Script, Deliver(s) \/ Close(s) \/ Deadline(s) PROVE RunTypes'
  <2>1. Settling(s) /\ records' = records \ {s} /\ run' \in {run, "over"}
    BY <1>7, EndsSettle, Settles DEF Settling
  <2>2. procs' \subseteq Script /\ records' \subseteq Script /\ run' \in {"running", "suspended", "over"}
    BY <2>1 DEF Settling, RunTypes
  <2> QED BY <2>1, <2>2 DEF Settling, replay, RunTypes
<1>8. CASE Suspend \/ Stop
  <2>1. PICK status \in {"suspended", "over"} : Abort(status)
    BY <1>8 DEF Suspend, Stop
  <2>2. aborted' \subseteq Execs /\ procs' \subseteq Script /\ run' \in {"running", "suspended", "over"}
    BY <2>1 DEF Abort, RunTypes
  <2> QED BY <2>1, <2>2 DEF Abort, replay, RunTypes
<1>9. CASE Resume
  <2>1. exec + 1 \in Execs
    BY <1>9, Constants DEF Resume, Execs, RunTypes
  <2>2. Top(exec + 1) \in Script
    BY <2>1, FrameTypes
  <2>3. bases' \in [Sites -> 0..Cardinality(Sites)] /\ procs' \subseteq Script /\ records' \subseteq Script
    BY <1>9, <2>2, Constants DEF Resume, Fork, RunTypes
  <2> QED BY <1>9, <2>1, <2>3 DEF Resume, RunTypes
<1>10. CASE Crash
  <2>1. crashes' \in 0..MaxCrashes
    <3>1. crashes \in Nat /\ crashes < MaxCrashes /\ crashes' = crashes + 1 /\ MaxCrashes \in Nat
      BY <1>10, Constants DEF Crash, RunTypes
    <3> QED BY <3>1
  <2> QED BY <1>10, <2>1 DEF Crash, replay, children, RunTypes
<1>11. CASE Boot
  BY <1>11 DEF Boot, replay, RunTypes
<1> QED BY <1>1, <1>2, <1>3, <1>4, <1>5, <1>6, <1>7, <1>8, <1>9, <1>10, <1>11 DEF Next, EngineStep

-----------------------------------------------------------------------------
(* The theorems *)

LEMMA InitHolds == Init => IInv
<1> SUFFICES ASSUME Init PROVE IInv
  OBVIOUS
<1>1. 1 \in Execs /\ Top(1) \in Script /\ Top(1) \notin Frame /\ <<>> \in Scripts
  BY Constants, FrameTypes DEF Execs, Scripts
<1>2. /\ run = "running" /\ exec = 1 /\ aborted = {} /\ line = <<>> /\ inFlight = 0
      /\ at = [s \in Script |-> IF s = Top(1) THEN "alive" ELSE "out"]
      /\ signal = [f \in Frame |-> 1] /\ descendants = 0 /\ forked = {} /\ bases = [p \in Sites |-> 0]
      /\ up = TRUE /\ procs = {Top(1)} /\ records = {Top(1)}
  BY DEF Init
<1>3. \A f \in Frame : at[f] = "out" /\ signal[f] = 1
  BY <1>1, <1>2, FrameTypes
<1>4. SlotTypes
  BY <1>2 DEF SlotTypes, Places
<1>5. RunTypes
  <2>1. /\ run \in {"running", "suspended", "over"} /\ exec \in Execs /\ aborted \subseteq Execs
        /\ signal \in [Frame -> Execs] /\ descendants \in Nat /\ forked \subseteq Frame
        /\ procs \subseteq Script /\ records \subseteq Script
    BY <1>1, <1>2
  <2>2. bases \in [Sites -> 0..Cardinality(Sites)] /\ crashes \in 0..MaxCrashes
    BY <1>2, Constants DEF Init
  <2>3. journal \in [Numbers -> Scripts] /\ plan \in [Numbers -> Scripts]
    BY <1>1 DEF Init
  <2>4. missed \in BOOLEAN /\ source \in [Script -> Scripts] /\ up \in BOOLEAN
    BY <1>1 DEF Init
  <2> QED BY <2>1, <2>2, <2>3, <2>4 DEF RunTypes
<1>6. GuardOK
  <2>1. Holders = {}
    BY <1>3 DEF Holders, Started
  <2>2. DOMAIN line = {} /\ line = <<>> /\ inFlight = 0
    BY <1>2
  <2> QED BY <1>3, <2>1, <2>2, FS_EmptySet, Constants DEF GuardOK, InLine
<1>7. CountedOK
  <2>1. Counted = {}
    BY <1>2, <1>3 DEF Counted, Coming
  <2> QED BY <1>2, <2>1, FS_EmptySet, Constants DEF CountedOK
<1>8. SignalsOK
  BY <1>2, <1>3 DEF SignalsOK
<1>9. NumbersOK
  <2>1. Taken = {} /\ \A p \in Sites : bases[p] = 0
    BY <1>2 DEF Taken
  <2> QED BY <1>3, <2>1, FS_EmptySet DEF NumbersOK, NumbersApart, Numbered, Started
<1>10. ProcessesOK
  BY <1>1, <1>2 DEF ProcessesOK
<1>11. NothingRunsAborted
  BY <1>2 DEF NothingRunsAborted
<1> QED BY <1>4, <1>5, <1>6, <1>7, <1>8, <1>9, <1>10, <1>11, TypeParts DEF IInv

LEMMA IInvKept == IInv /\ [Next]_vars => IInv'
<1> SUFFICES ASSUME IInv, [Next]_vars PROVE IInv'
  OBVIOUS
<1>1. /\ RunTypes /\ SlotTypes /\ GuardOK /\ CountedOK /\ SignalsOK /\ NumbersOK /\ ProcessesOK
      /\ NothingRunsAborted
  BY TypeParts DEF IInv
<1>2. CASE Next
  <2>1. RunTypes' /\ SlotTypes' /\ GuardOK'
    BY <1>1, <1>2, NextKeepsTypes, NextKeepsGuard
  <2>2. CountedOK' /\ SignalsOK' /\ NumbersOK'
    BY <1>1, <1>2, NextKeepsFrames
  <2>3. ProcessesOK' /\ NothingRunsAborted'
    BY <1>1, <1>2, NextKeepsProcesses, NextKeepsAborted
  <2>4. TypeOK'
    BY <2>1, TypeParts DEF TypeOK, RunTypes, SlotTypes
  <2> QED BY <2>1, <2>2, <2>3, <2>4 DEF IInv
<1>3. CASE UNCHANGED vars
  <2>1. RunTypes' /\ SlotTypes'
    BY <1>1, <1>3 DEF vars, control, slots, replay, children, RunTypes, SlotTypes
  <2>2. GuardOK'
    BY <1>1, <1>3, GuardStays DEF vars
  <2>3. CountedOK'
    BY <1>1, <1>3 DEF vars, control, CountedOK, Counted
  <2>4. SignalsOK' /\ NothingRunsAborted'
    BY <1>1, <1>3 DEF vars, control, SignalsOK, AllOut, NothingRunsAborted
  <2>5. NumbersOK'
    BY <1>1, <1>3 DEF vars, control, NumbersOK, NumbersApart, Taken
  <2>6. ProcessesOK'
    BY <1>1, <1>3 DEF vars, control, children, ProcessesOK, AllOut
  <2>7. TypeOK'
    BY <2>1 DEF TypeOK, RunTypes, SlotTypes
  <2> QED BY <2>2, <2>3, <2>4, <2>5, <2>6, <2>7 DEF IInv
<1> QED BY <1>2, <1>3

\* The state has its type: among others, a call of a frame never looks up the journal before the
\* frame has its number (run-manager.ts, _frameBaseFor).
THEOREM FramesTypeCorrect == Spec => []TypeOK
<1>1. IInv => TypeOK
  BY DEF IInv
<1> QED BY <1>1, InitHolds, IInvKept, PTL DEF Spec

\* The workflowGuard of a run (run-guard.ts) counts exactly the frames that hold a slot, and its line
\* holds exactly those that wait, through aborts, deadlines, resumes and crashes.
THEOREM GuardAccounted == Spec => []SlotsAccounted
<1>1. IInv => SlotsAccounted
  <2> SUFFICES ASSUME IInv PROVE SlotsAccounted
    OBVIOUS
  <2>1. GuardOK /\ line \in Seq(Frame)
    BY DEF IInv, TypeOK
  <2>2. {line[n] : n \in DOMAIN line} = {f \in Frame : at[f] = "queued"}
    BY <2>1 DEF GuardOK, InLine
  <2> QED BY <2>1, <2>2 DEF GuardOK, InLine, SlotsAccounted
<1> QED BY <1>1, InitHolds, IInvKept, PTL DEF Spec

\* No execution forks more children than maxWorkflowDescendants (run-manager.ts,
\* _handleWorkflowRequest), however many of its frames are on their way at once.
THEOREM DescendantsStayCapped == Spec => []DescendantsCapped
<1>1. IInv => DescendantsCapped
  <2> SUFFICES ASSUME IInv PROVE DescendantsCapped
    OBVIOUS
  <2>1. IsFiniteSet(Counted) /\ Cardinality(Counted) <= MaxDescendants /\ forked \in SUBSET Counted
    BY DEF IInv, CountedOK, Counted
  <2>2. Cardinality(forked) \in Nat /\ Cardinality(Counted) \in Nat /\ Cardinality(forked) <= Cardinality(Counted)
    BY <2>1, Part
  <2> QED BY <2>1, <2>2, Constants DEF DescendantsCapped
<1> QED BY <1>1, InitHolds, IInvKept, PTL DEF Spec

\* A frame's child never runs under a signal that has fired (the check after acquireSlot in
\* _handleWorkflowRequest, and onAbort in sandbox/host.ts).
THEOREM AbortedFramesStop == Spec => []NothingRunsAborted
<1>1. IInv => NothingRunsAborted
  BY DEF IInv
<1> QED BY <1>1, InitHolds, IInvKept, PTL DEF Spec

\* Two frames of one execution never share a number (run-manager.ts, _frameBaseFor).
THEOREM FrameNumbersApart == Spec => []NumbersApart
<1>1. IInv => NumbersApart
  BY DEF IInv, NumbersOK
<1> QED BY <1>1, InitHolds, IInvKept, PTL DEF Spec

\* While the engine runs, a process that runs a script is one that it waits for: the registry of
\* children and the sweep at boot (sandbox/host.ts) leave none behind.
THEOREM NoChildLeftBehind == Spec => []NoOrphans
<1>1. IInv => NoOrphans
  BY DEF IInv, ProcessesOK, NoOrphans
<1> QED BY <1>1, InitHolds, IInvKept, PTL DEF Spec

\* The workflowGuard implements SlotPool: slots go to the frames that wait in the order they came
\* (run-guard.ts), through aborts, deadlines, resumes and crashes.
THEOREM FramePoolImplemented == Spec => SlotsInOrder
<1>1. Init => FramePool!PInit
  <2> SUFFICES ASSUME Init PROVE FramePool!PInit
    OBVIOUS
  <2>1. \A f \in Frame : at[f] = "out"
    BY Constants, FrameTypes DEF Init, Execs
  <2> QED BY <2>1 DEF Init, Holders, Started, FramePool!PInit
<1>2. IInv /\ [Next]_vars => [FramePool!PNext]_(FramePool!pvars)
  <2> SUFFICES ASSUME IInv, [Next]_vars PROVE [FramePool!PNext]_(FramePool!pvars)
    OBVIOUS
  <2>1. CASE Next
    BY <2>1, NextServesInOrder, TypeParts DEF IInv, FramePool!PStep
  <2>2. CASE UNCHANGED vars
    BY <2>2 DEF vars, slots, Holders, FramePool!pvars
  <2> QED BY <2>1, <2>2
<1> QED BY <1>1, <1>2, InitHolds, IInvKept, PTL DEF Spec, SlotsInOrder, FramePool!PSpec

-----------------------------------------------------------------------------
(* Replay *)

\* What is journaled is the answer of a call some frame makes, and what a call got is its own.
JournalOK ==
    /\ \A n \in Numbers : journal[n] \in Callers \cup {<<>>} /\ plan[n] \in Callers \cup {<<>>}
    /\ ReplayIsOwn

\* No two frames make calls with the same key: the prompt, the schema and the options of their agent()
\* calls tell them apart.
DistinctKeys == \A p, q \in Callers : Prompt[p] = Prompt[q] => p = q

LEMMA JournalKept == ASSUME DistinctKeys PROVE IInv /\ JournalOK /\ [Next]_vars => JournalOK'
<1> SUFFICES ASSUME IInv, JournalOK, [Next]_vars PROVE JournalOK'
  OBVIOUS
<1>1. /\ \A n \in Numbers : journal[n] \in Callers \cup {<<>>} /\ plan[n] \in Callers \cup {<<>>}
      /\ \A f \in Frame : source[f] \in {<<>>, f.path}
  BY DEF JournalOK, ReplayIsOwn
<1>2. CASE UNCHANGED <<journal, plan, source>>
  BY <1>1, <1>2 DEF JournalOK, ReplayIsOwn
<1>3. ASSUME NEW f \in Frame, AgentCall(f) PROVE JournalOK'
  <2>1. f \in Script /\ f.path \in Callers /\ f.path # <<>> /\ plan' = plan /\ source \in [Script -> Scripts]
        /\ journal \in [Numbers -> Scripts]
    BY <1>3, FrameTypes DEF AgentCall, IInv, TypeOK
  <2>2. bases[f.path] \in Numbers
    <3>1. RunTypes /\ SignalsOK /\ NumbersOK
      BY TypeParts DEF IInv
    <3>2. signal[f] = exec
      BY <1>3, <3>1 DEF AgentCall, SignalsOK, Active, Started
    <3>3. bases[f.path] # 0
      BY <1>3, <3>1, <3>2 DEF AgentCall, NumbersOK, Numbered, Started
    <3> QED BY <3>1, <3>3, FrameTypes, Constants DEF RunTypes, Numbers
  <2>3. CASE /\ plan[bases[f.path]] # <<>> /\ Prompt[plan[bases[f.path]]] = Prompt[f.path]
             /\ source' = [source EXCEPT ![f] = plan[bases[f.path]]] /\ journal' = journal
    <3>1. plan[bases[f.path]] = f.path
      BY <1>1, <2>1, <2>2, <2>3 DEF DistinctKeys
    <3>2. \A g \in Frame : source'[g] \in {<<>>, g.path}
      BY <1>1, <2>1, <2>3, <3>1, FrameTypes
    <3> QED BY <1>1, <2>1, <2>3, <3>2 DEF JournalOK, ReplayIsOwn
  <2>4. CASE /\ source' = [source EXCEPT ![f] = f.path]
             /\ journal' = [journal EXCEPT ![bases[f.path]] = f.path]
    <3>1. \A g \in Frame : source'[g] \in {<<>>, g.path}
      BY <1>1, <2>1, <2>4, FrameTypes
    <3>2. \A n \in Numbers : journal'[n] \in Callers \cup {<<>>}
      BY <1>1, <2>1, <2>4
    <3> QED BY <1>1, <2>1, <3>1, <3>2 DEF JournalOK, ReplayIsOwn
  <2> QED BY <1>3, <2>3, <2>4 DEF AgentCall
<1>4. CASE Resume
  BY <1>1, <1>4 DEF Resume, JournalOK, ReplayIsOwn
<1>5. CASE UNCHANGED vars
  BY <1>2, <1>5 DEF vars, replay
<1>6. ASSUME NEW f \in Frame, Ask(f) \/ Receive(f) \/ Admit(f) \/ GrantSlot(f) PROVE JournalOK'
  BY <1>2, <1>6 DEF Ask, Receive, Admit, GrantSlot, replay
<1>7. ASSUME NEW s \in Script, Finish(s) \/ Die(s) \/ Deliver(s) \/ Close(s) \/ Deadline(s) PROVE JournalOK'
  BY <1>2, <1>7 DEF Finish, Die, Deliver, Close, Deadline, replay
<1>8. CASE Suspend \/ Stop \/ Crash \/ Boot
  BY <1>2, <1>8 DEF Suspend, Stop, Abort, Crash, Boot, replay
<1> QED BY <1>3, <1>4, <1>5, <1>6, <1>7, <1>8 DEF Next, EngineStep

\* When no two frames make agent() calls with the same key, a resumed frame is answered from the journal
\* only with its own earlier answers, although the numbers of frames are dealt out anew in every execution
\* (run-manager.ts, _frameBaseFor; resume-cache.ts).  Without the hypothesis it is false (SlotsFlow and
\* ReplayIsOwn are the two properties of this module that TLC refutes).
THEOREM DistinctKeysReplayOwn == ASSUME DistinctKeys PROVE Spec => []ReplayIsOwn
<1>1. Init => JournalOK
  BY DEF Init, JournalOK, ReplayIsOwn, Frame, Script, Scripts
<1>2. JournalOK => ReplayIsOwn
  BY DEF JournalOK
<1> QED BY <1>1, <1>2, InitHolds, IInvKept, JournalKept, PTL DEF Spec

-----------------------------------------------------------------------------
(* When slots flow *)

\* The frames whose scripts call workflow() themselves.
InnerFrames == {f \in Frame : Subframes(f) # {}}

LEMMA FramesFinite == IsFiniteSet(InnerFrames)
<1> DEFINE pairs == Sites \X Execs
           frame == [x \in pairs |-> [path |-> x[1], exec |-> x[2]]]
<1>1. IsFiniteSet(Execs)
  BY Constants, FS_Interval DEF Execs
<1>2. IsFiniteSet(pairs)
  BY <1>1, Constants, FS_Product
<1>3. frame \in [pairs -> Frame]
  BY DEF Frame
<1>4. ASSUME NEW f \in Frame PROVE \E x \in pairs : frame[x] = f
  <2>1. <<f.path, f.exec>> \in pairs /\ f = [path |-> f.path, exec |-> f.exec]
    BY DEF Frame
  <2>2. frame[<<f.path, f.exec>>] = f
    BY <2>1
  <2> QED BY <2>1, <2>2
<1>5. frame \in Surjection(pairs, Frame)
  BY <1>3, <1>4 DEF Surjection
<1>6. IsFiniteSet(Frame)
  BY <1>2, <1>5, FS_Surjection
<1> QED BY <1>6, FS_Subset DEF InnerFrames

\* The frames that hold the slots cannot all wait for frames of their own when there are more slots
\* than frames that have any: then the fan-out of workflow() calls is only queued, as the guide for
\* authors says.  Without the hypothesis it is false (run-manager.ts _handleWorkflowRequest holds the
\* slot of a frame until its child has settled).
THEOREM FewInnerFramesFlow ==
    ASSUME Cardinality(InnerFrames) < Concurrency
    PROVE  Spec => []SlotsFlow
<1>1. IInv => SlotsFlow
  <2> SUFFICES ASSUME IInv, line # <<>>, \A f \in Holders : Waiting(f)
               PROVE  FALSE
    BY DEF SlotsFlow
  <2>1. Cardinality(Holders) = Concurrency
    BY DEF IInv, GuardOK
  <2>2. Holders \subseteq InnerFrames
    BY DEF Holders, Waiting, Asked, InnerFrames
  <2>3. /\ Cardinality(Holders) <= Cardinality(InnerFrames)
        /\ Cardinality(Holders) \in Nat /\ Cardinality(InnerFrames) \in Nat
    BY <2>2, FramesFinite, Part
  <2> QED BY <2>1, <2>3, Constants
<1> QED BY <1>1, InitHolds, IInvKept, PTL DEF Spec

\* Whoever is on the way to a slot, or has one and a child that runs, belongs to the present
\* execution when no message of a killed child is read late.
PresentOK ==
    /\ \A s \in Script : at[s] = "alive" => s.exec = exec
    /\ \A f \in Frame : at[f] = "sent" => f.exec = exec
    /\ \A f \in Frame : at[f] \in Coming => f.exec = signal[f]
    /\ run = "suspended" => \A s \in Script : at[s] # "alive"

LEMMA PresentKept == ASSUME ~LateMessages PROVE IInv /\ PresentOK /\ [Next]_vars => PresentOK'
<1> SUFFICES ASSUME IInv, PresentOK, [Next]_vars PROVE PresentOK'
  OBVIOUS
<1>1. RunTypes /\ SlotTypes /\ GuardOK /\ SignalsOK /\ ProcessesOK /\ NothingRunsAborted
  BY TypeParts DEF IInv
<1>2. /\ \A s \in Script : at[s] = "alive" => s.exec = exec
      /\ \A f \in Frame : at[f] = "sent" => f.exec = exec
      /\ \A f \in Frame : at[f] \in Coming => f.exec = signal[f]
      /\ run = "suspended" => \A s \in Script : at[s] # "alive"
  BY DEF PresentOK
<1> DEFINE Ends(s) == at'[s] \notin Coming \cup {"alive", "sent"}
           Comes(s) == s \in Frame /\ at[s] \in Coming /\ at'[s] \in Coming
\* The steps that start no child and read no message.
<1>3. ASSUME UNCHANGED <<exec, signal>>, run' \in {run, "over"},
             \A s \in Script : at'[s] = at[s] \/ Ends(s) \/ Comes(s)
      PROVE  PresentOK'
  <2>1. \A s \in Script : at'[s] = "alive" => at[s] = "alive"
    BY <1>3 DEF Coming
  <2>2. \A f \in Frame : at'[f] = "sent" => at[f] = "sent"
    BY <1>3, FrameTypes DEF Coming
  <2>3. \A f \in Frame : at'[f] \in Coming => at[f] \in Coming
    BY <1>3, FrameTypes
  <2> QED BY <1>2, <1>3, <2>1, <2>2, <2>3 DEF PresentOK
<1>4. ASSUME NEW f \in Frame, Ask(f) PROVE PresentOK'
  <2>1. Caller(f) \in Script /\ Caller(f).exec = f.exec /\ at[Caller(f)] = "alive"
    <3>1. Caller(f) \in Script /\ Caller(f).exec = f.exec
      BY NestedAssumption DEF Caller, Frame, Script, Scripts
    <3> QED BY <1>4, <3>1 DEF Ask
  <2>2. \A s \in Script : s # f => at'[s] = at[s]
    BY <1>1, <1>4, OneMoves DEF Ask, Places
  <2>3. at'[f] = "sent" /\ UNCHANGED <<exec, signal, run>>
    BY <1>1, <1>4, FrameTypes, OneMoves DEF Ask, Places, control
  <2> QED BY <1>2, <2>1, <2>2, <2>3, FrameTypes DEF PresentOK, Coming
<1>5. ASSUME NEW f \in Frame, AgentCall(f) PROVE PresentOK'
  BY <1>3, <1>5 DEF AgentCall, control
<1>6. ASSUME NEW s \in Script, Finish(s) \/ Die(s) PROVE PresentOK'
  <2>1. \E p \in {"ended", "dying"} : at' = [at EXCEPT ![s] = p]
    BY <1>6 DEF Finish, Die
  <2>2. \A x \in Script : at'[x] = at[x] \/ Ends(x)
    BY <1>1, <2>1, OneMoves DEF Places, Coming
  <2> QED BY <1>3, <1>6, <2>2 DEF Finish, Die, control
<1>7. ASSUME NEW s \in Script, Deliver(s) \/ Close(s) \/ Deadline(s) PROVE PresentOK'
  <2>1. Settling(s)
    BY <1>7, EndsSettle
  <2>2. /\ at'[s] \in {"ok", "failed"} /\ run' \in {run, "over"}
        /\ \A x \in Script : x # s => \/ at'[x] = at[x]
                                      \/ x \in Frame /\ at[x] = "queued" /\ at'[x] = "granted"
    BY <1>1, <2>1, Settles DEF Settling
  <2>3. \A x \in Script : at'[x] = at[x] \/ Ends(x) \/ Comes(x)
    BY <2>2 DEF Coming
  <2> QED BY <1>3, <2>1, <2>2, <2>3 DEF Settling
<1>8. ASSUME NEW f \in Frame, Receive(f) PROVE PresentOK'
  <2>1. at[f] = "sent" /\ \E p \in {"failed", "admitting"} : at' = [at EXCEPT ![f] = p]
    BY <1>8 DEF Receive
  <2>2. \A x \in Script : x # f => at'[x] = at[x]
    BY <1>1, <2>1, FrameTypes, OneMoves DEF Places
  <2>3. at'[f] \in {"failed", "admitting"}
    BY <1>1, <2>1, FrameTypes, OneMoves DEF Places
  <2>4. UNCHANGED <<exec, run>> /\ signal' = [signal EXCEPT ![f] = exec]
    BY <1>8 DEF Receive
  <2>5. \A x \in Frame : at'[x] \in Coming => x.exec = signal'[x]
    BY <1>1, <1>2, <2>1, <2>2, <2>4, FrameTypes DEF RunTypes
  <2> QED BY <1>2, <2>2, <2>3, <2>4, <2>5, FrameTypes DEF PresentOK
<1>9. ASSUME NEW f \in Frame, Admit(f) PROVE PresentOK'
  <2>1. at[f] = "admitting" /\ \E p \in {"failed", "granted", "queued"} : at' = [at EXCEPT ![f] = p]
    BY <1>1, <1>9, GuardAcquire DEF Admit
  <2>2. \A x \in Script : x # f => at'[x] = at[x]
    BY <1>1, <2>1, FrameTypes, OneMoves DEF Places
  <2>3. at'[f] \in {"failed", "granted", "queued"}
    BY <1>1, <2>1, FrameTypes, OneMoves DEF Places
  <2>4. \A x \in Script : at'[x] = at[x] \/ Ends(x) \/ Comes(x)
    BY <2>1, <2>2, <2>3 DEF Coming
  <2> QED BY <1>3, <1>9, <2>4 DEF Admit, control
<1>10. ASSUME NEW f \in Frame, GrantSlot(f) PROVE PresentOK'
  <2>1. CASE signal[f] \in aborted
    <3>1. ReleaseSlot([at EXCEPT ![f] = "failed"]) /\ f \in Holders
      BY <1>10, <2>1 DEF GrantSlot, Holders
    <3>2. /\ at'[f] = "failed"
          /\ \A x \in Script : x # f => \/ at'[x] = at[x]
                                        \/ x \in Frame /\ at[x] = "queued" /\ at'[x] = "granted"
      BY <1>1, <3>1, GuardRelease
    <3>3. \A x \in Script : at'[x] = at[x] \/ Ends(x) \/ Comes(x)
      BY <3>2 DEF Coming
    <3> QED BY <1>3, <1>10, <3>3 DEF GrantSlot, control
  <2>2. CASE signal[f] \notin aborted
    <3>1. at[f] = "granted" /\ at' = [at EXCEPT ![f] = "alive"] /\ UNCHANGED <<exec, run, signal>>
      BY <1>10, <2>2 DEF GrantSlot, control
    <3>2. signal[f] = exec
      BY <1>1, <2>2, <3>1 DEF SignalsOK, Active, Coming
    <3>3. ~(run = "suspended")
      BY <1>1, <2>2, <3>1, <3>2, FrameTypes DEF SignalsOK, AllOut
    <3>4. at'[f] = "alive" /\ \A x \in Script : x # f => at'[x] = at[x]
      BY <1>1, <3>1, FrameTypes, OneMoves DEF Places
    <3> QED BY <1>2, <3>1, <3>2, <3>3, <3>4, FrameTypes DEF PresentOK, Coming
  <2> QED BY <2>1, <2>2
<1>11. ASSUME NEW status, Abort(status) PROVE PresentOK'
  <2>1. \A s \in Script : at'[s] = IF s \in Listening THEN "dying" ELSE at[s]
    BY <1>1, <1>11, AbortPlaces
  <2>2. UNCHANGED <<exec, signal>>
    BY <1>11 DEF Abort
  <2>3. ASSUME NEW s \in Script, at[s] = "alive" PROVE s \in Listening
    <3>1. CASE s.path = <<>>
      BY <1>2, <2>3, <3>1 DEF Listening
    <3>2. CASE s \in Frame
      <4>1. signal[s] = exec
        BY <1>1, <2>3, <3>2 DEF SignalsOK, NothingRunsAborted, Active, Started
      <4> QED BY <2>3, <3>2, <4>1, FrameTypes DEF Listening
    <3> QED BY <3>1, <3>2, FrameTypes
  <2>4. \A s \in Script : at'[s] # "alive"
    BY <2>1, <2>3
  <2>5. \A f \in Frame : at'[f] # "dying" => at'[f] = at[f]
    BY <2>1, FrameTypes
  <2> QED BY <1>2, <2>2, <2>4, <2>5 DEF PresentOK, Coming
<1>12. CASE Resume
  <2>1. run = "suspended" /\ exec' = exec + 1 /\ run' = "running" /\ UNCHANGED signal
        /\ at' = [at EXCEPT ![Top(exec + 1)] = "alive"] /\ \A f \in Frame : at[f] # "sent"
    BY <1>12 DEF Resume
  <2>2. Top(exec + 1) \in Script /\ Top(exec + 1) \notin Frame /\ Top(exec + 1).exec = exec + 1
    BY <1>1, <1>12, FrameTypes, Constants DEF Resume, RunTypes, Execs, Top
  <2>3. \A s \in Script : at'[s] = "alive" => s = Top(exec + 1)
    BY <1>1, <1>2, <2>1 DEF SlotTypes
  <2>4. \A f \in Frame : at'[f] = at[f]
    BY <1>1, <2>1, <2>2, FrameTypes DEF SlotTypes
  <2> QED BY <1>2, <2>1, <2>2, <2>3, <2>4 DEF PresentOK
<1>13. CASE Crash
  BY <1>13, FrameTypes DEF Crash, PresentOK, Coming
<1>14. CASE Boot
  <2>1. AllOut /\ UNCHANGED <<at, exec, signal>>
    BY <1>1, <1>14 DEF Boot, ProcessesOK
  <2> QED BY <1>2, <2>1 DEF PresentOK, AllOut
<1>15. CASE UNCHANGED vars
  BY <1>2, <1>15 DEF vars, control, PresentOK
<1> QED BY <1>4, <1>5, <1>6, <1>7, <1>8, <1>9, <1>10, <1>11, <1>12, <1>13, <1>14, <1>15
        DEF Next, EngineStep, Suspend, Stop

\* The calls of workflow() whose frames call workflow() themselves.
InnerSites == {p \in Sites : \E q \in Sites : SubSeq(q, 1, Len(q) - 1) = p}

\* When no message of a killed child is read after the resume, the frames that wait belong to one
\* execution, and it is enough that a script has fewer such calls than there are slots.  With late
\* messages it is not: frames of two executions then share the workflowGuard.
THEOREM FewInnerSitesFlow ==
    ASSUME ~LateMessages, Cardinality(InnerSites) < Concurrency
    PROVE  Spec => []SlotsFlow
<1>1. Init => PresentOK
  <2> SUFFICES ASSUME Init PROVE PresentOK
    OBVIOUS
  <2>1. /\ at = [s \in Script |-> IF s = Top(1) THEN "alive" ELSE "out"]
        /\ run = "running" /\ exec = 1 /\ 1 \in Execs /\ Top(1).exec = 1
    BY Constants DEF Init, Execs, Top
  <2> QED BY <2>1, FrameTypes DEF PresentOK, Coming
<1>2. IInv /\ PresentOK => SlotsFlow
  <2> SUFFICES ASSUME IInv, PresentOK, line # <<>>, \A f \in Holders : Waiting(f)
               PROVE  FALSE
    BY DEF SlotsFlow
  <2> DEFINE paths == {p \in InnerSites : [path |-> p, exec |-> exec] \in Holders}
             frame == [p \in paths |-> [path |-> p, exec |-> exec]]
  <2>1. Cardinality(Holders) = Concurrency
    BY DEF IInv, GuardOK
  <2>2. ASSUME NEW f \in Holders PROVE f.path \in paths /\ f = frame[f.path]
    <3>1. f \in Frame /\ f.exec = exec
      BY FrameTypes DEF Waiting, PresentOK, Holders
    <3>2. PICK g \in Frame : Caller(g) = f
      BY DEF Waiting, Asked, Subframes
    <3>3. f.path = SubSeq(g.path, 1, Len(g.path) - 1) /\ g.path \in Sites
      BY <3>2 DEF Caller, Frame
    <3>4. f = [path |-> f.path, exec |-> exec] /\ f.path \in InnerSites
      BY <3>1, <3>3 DEF Frame, InnerSites
    <3> QED BY <3>4
  <2>3. frame \in Surjection(paths, Holders)
    BY <2>2 DEF Surjection
  <2>4. paths \in SUBSET InnerSites /\ InnerSites \in SUBSET Sites
    BY DEF InnerSites
  <2>5. /\ IsFiniteSet(paths) /\ Cardinality(paths) <= Cardinality(InnerSites)
        /\ Cardinality(paths) \in Nat /\ Cardinality(InnerSites) \in Nat
    BY <2>4, Constants, Part
  <2>6. Cardinality(Holders) <= Cardinality(paths)
    BY <2>3, <2>5, FS_Surjection
  <2> QED BY <2>1, <2>5, <2>6, Constants
<1> QED BY <1>1, <1>2, InitHolds, IInvKept, PresentKept, PTL DEF Spec

=============================================================================
