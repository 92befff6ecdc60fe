------------------------ MODULE WorkflowCatalogProofs ------------------------
(***************************************************************************)
(* A run resumes the script it was started with, a trigger serves one      *)
(* workflow, the claims follow the declarations and no channel dangles,    *)
(* for any workflows, triggers, registrations and runs.  What carries the  *)
(* first is that a number once handed out is below the high-water mark for *)
(* ever (Marked); what carries the second is that a declared trigger is    *)
(* claimed by the workflow that declares it or is deleted (ClaimsHold).    *)
(***************************************************************************)
EXTENDS WorkflowCatalog, FiniteSetTheorems, TLAPS

\* No version has a number beyond the mark, nor has a run, and numbers name versions.
Marked ==
    /\ \A n \in Names : \A v, w \in versions[n] :
          /\ v.number <= hwm[n]
          /\ v.number = w.number => v = w
    /\ \A r \in Runs : run[r] # NoRun => run[r].version <= hwm[run[r].name]

\* What a version declares is claimed by its workflow, unless the trigger was deleted.
ClaimsHold ==
    \A n \in Names : \A t \in declaredTriggers(versions[n]) : claimedBy[t] \in {n, Gone}

IInv ==
    /\ TypeOK /\ Marked /\ ClaimsHold
    /\ ResumesOwnCode /\ OneWorkflowPerTrigger /\ ClaimsDeclared /\ ChannelsResolve

-----------------------------------------------------------------------------
(* Operators *)

LEMMA Largest ==
    ASSUME NEW S \in SUBSET Nat, NEW m \in S, \A k \in S : k <= m
    PROVE  Max(S) = m
<1>1. \A k \in S : m >= k
  OBVIOUS
<1>2. \A x \in S : (\A k \in S : x >= k) => x = m
  OBVIOUS
<1> QED BY <1>1, <1>2 DEF Max

\* The next number is the one after the mark, which no version and no run has.
LEMMA NextIsNew ==
    ASSUME TypeOK, Marked, NEW n \in Names
    PROVE  NextNumber(n) = hwm[n] + 1 /\ NextNumber(n) \in Numbers
<1>1. hwm[n] \in Nat
  BY DEF TypeOK, Numbers
<1>2. \A k \in _listVersions(n) : k \in Nat /\ k <= hwm[n]
  BY DEF TypeOK, Marked, _listVersions, Version, Numbers
<1>3. Max({0, hwm[n]} \cup _listVersions(n)) = hwm[n]
  BY <1>1, <1>2, Largest
<1> QED BY <1>1, <1>3 DEF NextNumber, Numbers

\* Runs and registrations have their fields.
LEMMA Fields ==
    ASSUME TypeOK
    PROVE  /\ \A r \in Runs : run[r] # NoRun => run[r] \in Run
           /\ \A q \in Requests : request[q].is = "register" => request[q] \in Registration
           /\ \A n \in Names : versions[n] \subseteq Version
BY DEF TypeOK, NoRequest

\* What releases leave of a claim.
LEMMA FreedFrom ==
    ASSUME NEW n, NEW ts, NEW t \in Triggers
    PROVE  Freed(n, ts)[t] = IF t \in ts /\ claimedBy[t] = n THEN Nobody ELSE claimedBy[t]
BY DEF Freed

LEMMA ClaimedOf ==
    ASSUME NEW n, NEW ts, NEW t \in Triggers
    PROVE  Claimed(n, ts)[t] = IF t \in ts THEN n ELSE claimedBy[t]
BY DEF Claimed

-----------------------------------------------------------------------------
(* Steps, by what they change *)

\* A step that leaves catalog and claims alone, and does with runs what does not start one.
LEMMA RunsKeep ==
    ASSUME IInv, TypeOK', UNCHANGED <<versions, hwm, channels, claimedBy>>, crashes' = 0 => crashes = 0,
           \A r \in Runs : \/ run'[r] = NoRun
                           \/ /\ run[r] # NoRun
                              /\ run'[r].name = run[r].name /\ run'[r].version = run[r].version
                              /\ run'[r].script = run[r].script
    PROVE  IInv'
<1>1. Marked' /\ ClaimsHold'
  BY DEF IInv, Marked, ClaimsHold, declaredTriggers
<1>2. ResumesOwnCode'
  BY DEF IInv, ResumesOwnCode, Resolved
<1>3. OneWorkflowPerTrigger' /\ ClaimsDeclared' /\ ChannelsResolve'
  BY DEF IInv, OneWorkflowPerTrigger, ClaimsDeclared, ChannelsResolve, declaredTriggers, _listVersions
<1> QED BY <1>1, <1>2, <1>3 DEF IInv

\* A step that takes versions and claims away, and the claims no further than the versions.
LEMMA RemovalKeeps ==
    ASSUME IInv, TypeOK', hwm' = hwm,
           \A n \in Names : versions'[n] \subseteq versions[n],
           \A t \in Triggers : claimedBy'[t] = claimedBy[t]
                 \/ claimedBy'[t] = Gone
                 \/ /\ claimedBy'[t] = Nobody /\ claimedBy[t] # Gone
                    /\ \A n \in Names : claimedBy[t] = n => t \notin declaredTriggers(versions'[n]),
           \A n \in Names, c \in Channels :
                 channels'[n][c] \in {v.number : v \in versions'[n]} \cup {0},
           crashes' = 0 => /\ crashes = 0
                           /\ \A t \in Triggers, n \in Names :
                                 claimedBy'[t] = n => t \in declaredTriggers(versions'[n]),
           \A r \in Runs : \/ run'[r] = NoRun
                           \/ /\ run[r] # NoRun
                              /\ run'[r].name = run[r].name /\ run'[r].version = run[r].version
                              /\ run'[r].script = run[r].script
    PROVE  IInv'
<1>1. \A n \in Names : declaredTriggers(versions'[n]) \subseteq declaredTriggers(versions[n])
  BY DEF declaredTriggers
<1>2. \A n \in Names : declaredTriggers(versions[n]) \subseteq Triggers
  BY Fields DEF IInv, declaredTriggers, Version
<1>3. \A r \in Runs : run'[r] # NoRun => run[r] # NoRun /\ run[r].name \in Names
  BY Fields DEF IInv, Run
<1>4. Marked'
  BY <1>3 DEF IInv, Marked
<1>5. ClaimsHold'
  <2>1. SUFFICES ASSUME NEW n \in Names, NEW t \in declaredTriggers(versions'[n])
                 PROVE  claimedBy'[t] \in {n, Gone}
    BY DEF ClaimsHold, declaredTriggers
  <2>2. t \in Triggers /\ claimedBy[t] \in {n, Gone}
    BY <2>1, <1>1, <1>2 DEF IInv, ClaimsHold
  <2> QED BY <2>1, <2>2
<1>6. ResumesOwnCode'
  BY <1>3 DEF IInv, ResumesOwnCode, Resolved
<1>7. OneWorkflowPerTrigger'
  BY <1>1 DEF IInv, OneWorkflowPerTrigger, declaredTriggers
<1>8. ClaimsDeclared'
  BY <1>5, <1>2, <1>1 DEF ClaimsDeclared, ClaimsHold, declaredTriggers
<1>9. ChannelsResolve'
  BY DEF ChannelsResolve, _listVersions
<1> QED BY <1>4, <1>5, <1>6, <1>7, <1>8, <1>9 DEF IInv

\* A run begins with a version that is registered.
LEMMA BeginKeeps ==
    ASSUME IInv, NEW r \in Runs, NEW n \in Names, NEW v \in versions[n], Begin(r, n, v)
    PROVE  IInv'
<1> DEFINE new == [is |-> "starting", name |-> n, version |-> v.number, script |-> v.script]
<1>1. v \in Version /\ run' = [run EXCEPT ![r] = new]
  BY Fields DEF IInv, Begin
<1>2. new \in Run /\ new # NoRun
  BY <1>1 DEF Version, Run, NoRun
<1>3. run'[r] = new /\ \A o \in Runs : o # r => run'[o] = run[o]
  BY <1>1 DEF IInv, TypeOK
<1>4. TypeOK'
  BY <1>1, <1>2 DEF Begin, IInv, TypeOK
<1>5. Marked'
  BY <1>3 DEF Begin, IInv, Marked
<1>6. ResumesOwnCode'
  <2>1. SUFFICES ASSUME NEW o \in Runs, run'[o] # NoRun,
                        NEW w \in versions[run'[o].name], w.number = run'[o].version
                 PROVE  w.script = run'[o].script
    BY DEF Begin, ResumesOwnCode, Resolved
  <2>2. CASE o = r
    <3>1. run'[o].name = n /\ run'[o].version = v.number /\ run'[o].script = v.script
      BY <1>3, <2>2
    <3> QED BY <2>1, <3>1 DEF IInv, Marked
  <2>3. CASE o # r
    BY <2>1, <2>3, <1>3 DEF IInv, ResumesOwnCode, Resolved
  <2> QED BY <2>2, <2>3
<1>7. ClaimsHold' /\ OneWorkflowPerTrigger' /\ ClaimsDeclared' /\ ChannelsResolve'
  BY DEF Begin, IInv, ClaimsHold, OneWorkflowPerTrigger, ClaimsDeclared, ChannelsResolve,
         declaredTriggers, _listVersions
<1> QED BY <1>4, <1>5, <1>6, <1>7 DEF IInv

\* The claims of a registration are taken from nobody, and from no declaration.
LEMMA ClaimedKeeps ==
    ASSUME IInv, NEW n \in Names, NEW ts \in SUBSET Triggers, Claimable(n, ts),
           NEW m \in Names, NEW t \in declaredTriggers(versions[m])
    PROVE  /\ Claimed(n, ts)[t] \in {m, Gone}
           /\ t \in ts => m = n
<1>1. t \in Triggers
  BY Fields DEF IInv, declaredTriggers, Version
<1>2. claimedBy[t] \in {m, Gone}
  BY DEF IInv, ClaimsHold
<1>3. t \in ts => claimedBy[t] \in {Nobody, n}
  BY DEF Claimable
<1>4. t \in ts => m = n
  BY <1>2, <1>3, CatalogAssumption
<1> QED BY <1>1, <1>2, <1>4, ClaimedOf

LEMMA RegisterEndKeeps ==
    ASSUME IInv, NEW q \in Requests, RegisterEnd(q)
    PROVE  IInv'
<1> DEFINE n == request[q].name
           ts == request[q].triggers
<1>1. n \in Names /\ ts \in SUBSET Triggers
  BY Fields DEF RegisterEnd, IInv, Registration
<1>2. PICK s \in Scripts : Insert(n, s, ts)
  BY DEF RegisterEnd
<1> DEFINE new == [number |-> NextNumber(n), script |-> s, triggers |-> ts]
<1>3. NextNumber(n) = hwm[n] + 1 /\ NextNumber(n) \in Numbers /\ \A m \in Names : hwm[m] \in Nat
  BY <1>1, NextIsNew DEF IInv, TypeOK, Numbers
<1>4. new \in Version
  BY <1>1, <1>3 DEF Version
<1>5. /\ versions'[n] = versions[n] \cup {new} /\ hwm'[n] = hwm[n] + 1
      /\ \A m \in Names : m # n => versions'[m] = versions[m] /\ hwm'[m] = hwm[m]
  BY <1>1, <1>2, <1>3 DEF Insert, IInv, TypeOK
<1>6. claimedBy' = Claimed(n, ts) /\ Claimable(n, ts)
  BY DEF RegisterEnd
<1>7. TypeOK'
  <2>1. versions' \in [Names -> SUBSET Version] /\ hwm' \in [Names -> Numbers \cup {0}]
    BY <1>1, <1>2, <1>3, <1>4 DEF Insert, IInv, TypeOK
  <2>2. claimedBy' \in [Triggers -> Names \cup {Nobody, Gone}]
    BY <1>1, <1>6 DEF Claimed, IInv, TypeOK
  <2>3. request' \in [Requests -> Registration \cup {NoRequest}]
    BY DEF RegisterEnd, IInv, TypeOK
  <2> QED BY <2>1, <2>2, <2>3 DEF RegisterEnd, IInv, TypeOK
<1>8. \A m \in Names : \A v \in versions[m] : v.number \in Nat /\ v.number <= hwm[m]
  BY Fields DEF IInv, Marked, Version, Numbers
<1>9. \A r \in Runs : run[r] # NoRun =>
         run[r].name \in Names /\ run[r].version \in Nat /\ run[r].version <= hwm[run[r].name]
  BY Fields DEF IInv, Marked, Run, Numbers
<1>10. run' = run /\ channels' = channels /\ crashes' = crashes
  BY DEF RegisterEnd
<1>11. Marked'
  <2>1. ASSUME NEW m \in Names, NEW v \in versions'[m], NEW w \in versions'[m]
        PROVE  v.number <= hwm'[m] /\ (v.number = w.number => v = w)
    <3>1. CASE m = n
      <4>1. new.number = hwm[n] + 1
        BY <1>3
      <4>2. \A x \in versions[n] : x.number \in Nat /\ x.number <= hwm[n] /\ x.number # new.number
        BY <1>1, <1>3, <1>8, <4>1
      <4>3. v.number <= hwm'[m]
        BY <1>1, <1>3, <1>5, <2>1, <3>1, <4>1, <4>2
      <4>4. v.number = w.number => v = w
        BY <1>1, <1>5, <2>1, <3>1, <4>2 DEF IInv, Marked
      <4> QED BY <4>3, <4>4
    <3>2. CASE m # n
      BY <1>5, <2>1, <3>2 DEF IInv, Marked
    <3> QED BY <3>1, <3>2
  <2>2. ASSUME NEW r \in Runs, run'[r] # NoRun
        PROVE  run'[r].version <= hwm'[run'[r].name]
    BY <1>1, <1>3, <1>5, <1>9, <1>10, <2>2
  <2> QED BY <2>1, <2>2 DEF Marked
<1>12. \A m \in Names : declaredTriggers(versions'[m]) =
          declaredTriggers(versions[m]) \cup (IF m = n THEN ts ELSE {})
  <2>1. \A m \in Names : \A t : t \in declaredTriggers(versions'[m]) <=> \E v \in versions'[m] : t \in v.triggers
    BY DEF declaredTriggers
  <2>2. \A m \in Names : \A t : t \in declaredTriggers(versions[m]) <=> \E v \in versions[m] : t \in v.triggers
    BY DEF declaredTriggers
  <2>3. new.triggers = ts
    OBVIOUS
  <2> HIDE DEF new, n, ts
  <2>4. ASSUME NEW m \in Names, NEW t
        PROVE  t \in declaredTriggers(versions'[m]) <=>
                  t \in declaredTriggers(versions[m]) \/ (m = n /\ t \in ts)
    <3>1. CASE m = n
      <4>1. \A v : v \in versions'[n] <=> v \in versions[n] \/ v = new
        BY <1>1, <1>5
      <4> QED BY <1>1, <3>1, <4>1, <2>1, <2>2, <2>3
    <3>2. CASE m # n
      BY <1>5, <3>2, <2>1, <2>2
    <3> QED BY <3>1, <3>2
  <2> QED BY <2>4
<1>13. ClaimsHold'
  <2>1. SUFFICES ASSUME NEW m \in Names, NEW t \in declaredTriggers(versions'[m])
                 PROVE  claimedBy'[t] \in {m, Gone}
    BY DEF ClaimsHold, declaredTriggers
  <2>2. CASE t \in declaredTriggers(versions[m])
    BY <1>1, <1>6, <2>2, ClaimedKeeps
  <2>3. CASE m = n /\ t \in ts
    BY <1>1, <1>6, <2>3, ClaimedOf
  <2> QED BY <1>12, <2>1, <2>2, <2>3
<1>14. OneWorkflowPerTrigger'
  <2>1. SUFFICES ASSUME NEW l \in Names, NEW m \in Names, l # m, NEW t,
                        t \in declaredTriggers(versions'[l]), t \in declaredTriggers(versions'[m])
                 PROVE  FALSE
    BY DEF OneWorkflowPerTrigger, declaredTriggers
  <2>2. CASE t \in declaredTriggers(versions[l]) /\ t \in declaredTriggers(versions[m])
    BY <2>1, <2>2 DEF IInv, OneWorkflowPerTrigger
  <2>3. CASE t \in declaredTriggers(versions[l]) /\ m = n /\ t \in ts
    BY <1>1, <1>6, <2>1, <2>3, ClaimedKeeps
  <2>4. CASE t \in declaredTriggers(versions[m]) /\ l = n /\ t \in ts
    BY <1>1, <1>6, <2>1, <2>4, ClaimedKeeps
  <2> QED BY <1>12, <2>1, <2>2, <2>3, <2>4
<1>15. ResumesOwnCode'
  <2>1. SUFFICES ASSUME NEW r \in Runs, run[r] # NoRun,
                        NEW v \in versions'[run[r].name], v.number = run[r].version
                 PROVE  v.script = run[r].script
    BY <1>10 DEF ResumesOwnCode, Resolved
  <2>2. v \in versions[run[r].name]
    <3>1. v = new /\ run[r].name = n => v.number = hwm[n] + 1
      BY <1>3
    <3> QED BY <1>1, <1>3, <1>5, <1>9, <2>1, <3>1
  <2> QED BY <2>1, <2>2 DEF IInv, ResumesOwnCode, Resolved
<1>16. ClaimsDeclared'
  <2>1. SUFFICES ASSUME crashes = 0, NEW t \in Triggers, NEW m \in Names
                 PROVE  /\ claimedBy'[t] = m => t \in declaredTriggers(versions'[m])
                        /\ t \in declaredTriggers(versions'[m]) => claimedBy'[t] \in {m, Gone}
    BY <1>10 DEF ClaimsDeclared, declaredTriggers
  <2>2. claimedBy'[t] = m => t \in declaredTriggers(versions'[m])
    BY <1>1, <1>6, <1>12, <2>1, ClaimedOf DEF IInv, ClaimsDeclared
  <2> QED BY <1>13, <2>2 DEF ClaimsHold, declaredTriggers
<1>17. ChannelsResolve'
  BY <1>5, <1>10 DEF IInv, ChannelsResolve, _listVersions
<1> QED BY <1>7, <1>11, <1>13, <1>14, <1>15, <1>16, <1>17 DEF IInv

\* A crash among the claims of a registration: some of them stay.
LEMMA CrashInRegisterKeeps ==
    ASSUME IInv, TypeOK', NEW q \in Requests, CrashInRegister(q),
           \A r \in Runs : \/ run'[r] = NoRun
                           \/ /\ run[r] # NoRun
                              /\ run'[r].name = run[r].name /\ run'[r].version = run[r].version
                              /\ run'[r].script = run[r].script
    PROVE  IInv'
<1> DEFINE n == request[q].name
<1>1. n \in Names /\ request[q].triggers \in SUBSET Triggers
  BY Fields DEF CrashInRegister, IInv, Registration
<1>2. PICK ts \in SUBSET request[q].triggers : claimedBy' = Claimed(n, ts)
  BY DEF CrashInRegister
<1>3. ts \in SUBSET Triggers /\ Claimable(n, ts)
  BY <1>1 DEF CrashInRegister, Claimable
<1>4. UNCHANGED <<versions, hwm, channels>> /\ crashes' # 0
  BY DEF CrashInRegister, Down, IInv, TypeOK
<1>5. Marked' /\ ResumesOwnCode' /\ OneWorkflowPerTrigger' /\ ChannelsResolve' /\ ClaimsDeclared'
  BY <1>4 DEF IInv, Marked, ResumesOwnCode, OneWorkflowPerTrigger, ChannelsResolve, ClaimsDeclared,
              Resolved, declaredTriggers, _listVersions
<1>6. ClaimsHold'
  <2>1. SUFFICES ASSUME NEW m \in Names, NEW t \in declaredTriggers(versions[m])
                 PROVE  claimedBy'[t] \in {m, Gone}
    BY <1>4 DEF ClaimsHold, declaredTriggers
  <2> QED BY <1>1, <1>2, <1>3, <2>1, ClaimedKeeps
<1> QED BY <1>5, <1>6 DEF IInv

\* What a crash does with the runs.
LEMMA DownRuns ==
    ASSUME TypeOK, Down
    PROVE  /\ crashes' \in 0..MaxCrashes /\ crashes' # 0
           /\ request' \in [Requests -> Registration \cup {NoRequest}]
           /\ run' \in [Runs -> Run \cup {NoRun}]
           /\ \A r \in Runs : \/ run'[r] = NoRun
                              \/ /\ run[r] # NoRun
                                 /\ run'[r].name = run[r].name /\ run'[r].version = run[r].version
                                 /\ run'[r].script = run[r].script
<1>1. ASSUME NEW r \in Runs
      PROVE  /\ run'[r] \in Run \cup {NoRun}
             /\ \/ run'[r] = NoRun
                \/ /\ run[r] # NoRun
                   /\ run'[r].name = run[r].name /\ run'[r].version = run[r].version
                   /\ run'[r].script = run[r].script
  <2>1. run[r] \in Run \cup {NoRun} /\ NoRun \notin Run
    BY DEF TypeOK, Run, NoRun
  <2>2. CASE run[r].is = "starting"
    BY <2>2 DEF Down
  <2>3. CASE run[r].is = "live"
    <3>1. run'[r] = [run[r] EXCEPT !.is = "interrupted"]
      BY <2>3 DEF Down
    <3>2. run[r] \in Run
      BY <2>1, <2>3 DEF NoRun
    <3>3. run'[r] \in Run
      BY <3>1, <3>2 DEF Run
    <3> QED BY <2>1, <3>1, <3>2, <3>3 DEF Run
  <2>4. CASE run[r].is \notin {"starting", "live"}
    <3>1. run'[r] = run[r]
      BY <2>4 DEF Down
    <3> QED BY <2>1, <3>1
  <2> QED BY <2>2, <2>3, <2>4
<1>2. crashes' \in 0..MaxCrashes /\ crashes' # 0
  BY CatalogAssumption DEF Down, TypeOK
<1>3. run' \in [Runs -> Run \cup {NoRun}]
  BY <1>1 DEF Down
<1> QED BY <1>1, <1>2, <1>3 DEF Down

-----------------------------------------------------------------------------
(* Removals *)

\* Releases of what the versions that stay do not declare.
LEMMA FreedKeeps ==
    ASSUME IInv, TypeOK', NEW n \in Names, NEW vs \in SUBSET versions[n], NEW ts \in SUBSET Triggers,
           versions' = [versions EXCEPT ![n] = vs], claimedBy' = Freed(n, ts), hwm' = hwm,
           \A t \in ts : t \notin declaredTriggers(vs),
           \A m \in Names, c \in Channels :
                 channels'[m][c] \in {v.number : v \in versions'[m]} \cup {0},
           crashes' = 0 => /\ crashes = 0
                           /\ \A t \in Triggers : claimedBy'[t] = n => t \in declaredTriggers(vs),
           \A r \in Runs : \/ run'[r] = NoRun
                           \/ /\ run[r] # NoRun
                              /\ run'[r].name = run[r].name /\ run'[r].version = run[r].version
                              /\ run'[r].script = run[r].script
    PROVE  IInv'
<1>1. versions'[n] = vs /\ \A m \in Names : m # n => versions'[m] = versions[m]
  BY DEF IInv, TypeOK
<1>2. \A m \in Names : versions'[m] \subseteq versions[m]
  BY <1>1
<1>3. \A t \in Triggers :
         \/ claimedBy'[t] = claimedBy[t]
         \/ /\ claimedBy'[t] = Nobody /\ claimedBy[t] = n
            /\ t \notin declaredTriggers(versions'[n])
  BY <1>1, FreedFrom
<1>4. crashes' = 0 => \A t \in Triggers, m \in Names :
                         claimedBy'[t] = m => t \in declaredTriggers(versions'[m])
  <2>1. SUFFICES ASSUME crashes' = 0, NEW t \in Triggers, NEW m \in Names, claimedBy'[t] = m
                 PROVE  t \in declaredTriggers(versions'[m])
    OBVIOUS
  <2>2. CASE m = n
    BY <1>1, <2>1, <2>2
  <2>3. CASE m # n
    <3>1. claimedBy[t] = m
      BY <1>3, <2>1, CatalogAssumption
    <3> QED BY <1>1, <2>1, <2>3, <3>1 DEF IInv, ClaimsDeclared
  <2> QED BY <2>2, <2>3
<1>5. \A t \in Triggers : claimedBy'[t] = claimedBy[t]
         \/ claimedBy'[t] = Gone
         \/ /\ claimedBy'[t] = Nobody /\ claimedBy[t] # Gone
            /\ \A m \in Names : claimedBy[t] = m => t \notin declaredTriggers(versions'[m])
  BY <1>3, CatalogAssumption
<1> QED BY <1>2, <1>4, <1>5, RemovalKeeps

\* workflow_deregister, whole or cut short.
LEMMA DeregisterKeeps ==
    ASSUME IInv, NEW n \in Names, Deregister(n) \/ CrashInDeregister(n)
    PROVE  IInv'
<1>1. ReleasedWith(n) \in SUBSET Triggers
  BY Fields DEF IInv, ReleasedWith, declaredTriggers, Version
<1>2. versions' = [versions EXCEPT ![n] = {}] /\ channels' = [channels EXCEPT ![n] = Unpublished]
  BY DEF Deregister, CrashInDeregister, RemoveAll
<1>3. hwm' = hwm
  BY DEF Deregister, CrashInDeregister
<1>4. declaredTriggers({}) = {}
  BY DEF declaredTriggers
<1>5. PICK ts \in SUBSET ReleasedWith(n) : /\ claimedBy' = Freed(n, ts)
                                           /\ enabled' \subseteq enabled
                                           /\ Deregister(n) => ts = ReleasedWith(n)
  <2>1. CASE Deregister(n)
    BY <2>1 DEF Deregister
  <2>2. CASE CrashInDeregister(n) /\ ~Deregister(n)
    BY <2>2 DEF CrashInDeregister, ReleasesCut
  <2> QED BY <2>1, <2>2
<1>6. \A m \in Names, c \in Channels : channels'[m][c] \in {v.number : v \in versions'[m]} \cup {0}
  <2>1. SUFFICES ASSUME NEW m \in Names, NEW c \in Channels
                 PROVE  channels'[m][c] \in {v.number : v \in versions'[m]} \cup {0}
    OBVIOUS
  <2>2. CASE m = n
    BY <1>2, <2>2 DEF IInv, TypeOK, Unpublished
  <2>3. CASE m # n
    BY <1>2, <2>3 DEF IInv, TypeOK, ChannelsResolve, _listVersions
  <2> QED BY <2>2, <2>3
<1>7. /\ request' \in [Requests -> Registration \cup {NoRequest}]
      /\ run' \in [Runs -> Run \cup {NoRun}] /\ crashes' \in 0..MaxCrashes
      /\ \A r \in Runs : \/ run'[r] = NoRun
                         \/ /\ run[r] # NoRun
                            /\ run'[r].name = run[r].name /\ run'[r].version = run[r].version
                            /\ run'[r].script = run[r].script
      /\ crashes' = 0 => Deregister(n) /\ crashes = 0
  <2>1. CASE Deregister(n)
    BY <2>1 DEF Deregister, IInv, TypeOK
  <2>2. CASE CrashInDeregister(n)
    BY <2>2, DownRuns DEF CrashInDeregister, IInv
  <2> QED BY <2>1, <2>2
<1>8. TypeOK'
  <2>1. versions' \in [Names -> SUBSET Version] /\ hwm' \in [Names -> Numbers \cup {0}]
    BY <1>2, <1>3 DEF IInv, TypeOK
  <2>2. channels' \in [Names -> [Channels -> Numbers \cup {0}]]
    BY <1>2 DEF IInv, TypeOK, Unpublished
  <2>3. claimedBy' \in [Triggers -> Names \cup {Nobody, Gone}] /\ enabled' \subseteq Triggers
    BY <1>5 DEF Freed, IInv, TypeOK
  <2> QED BY <1>7, <2>1, <2>2, <2>3 DEF TypeOK
<1>9. crashes' = 0 => \A t \in Triggers : claimedBy'[t] = n => t \in declaredTriggers({})
  <2>1. SUFFICES ASSUME crashes' = 0, NEW t \in Triggers, claimedBy'[t] = n PROVE FALSE
    OBVIOUS
  <2>2. ts = ReleasedWith(n)
    BY <1>5, <1>7, <2>1
  <2>3. claimedBy[t] = n /\ t \notin ts
    BY <1>5, <2>1, FreedFrom, CatalogAssumption
  <2> QED BY <2>2, <2>3 DEF ReleasedWith
<1>10. ts \in SUBSET Triggers /\ \A t \in ts : t \notin declaredTriggers({})
  BY <1>1, <1>4
<1> QED BY <1>2, <1>3, <1>5, <1>6, <1>7, <1>8, <1>9, <1>10, FreedKeeps

\* workflow_deregister of one version, whole or cut short.
LEMMA DeregisterVersionKeeps ==
    ASSUME IInv, NEW n \in Names, NEW number \in _listVersions(n),
           DeregisterVersion(n, number) \/ CrashInDeregisterVersion(n, number)
    PROVE  IInv'
<1> DEFINE rest == versions[n] \ Resolved(n, number)
           lost == ReleasedWithout(n, rest)
<1>1. lost \in SUBSET Triggers /\ \A t \in lost : t \notin declaredTriggers(rest)
  BY Fields DEF IInv, ReleasedWithout, declaredTriggers, Version
<1>2. versions' = [versions EXCEPT ![n] = rest] /\ channels' = channels /\ hwm' = hwm
      /\ ~PublishedIn(n, number)
  BY DEF DeregisterVersion, CrashInDeregisterVersion, RemoveVersion
<1>3. PICK ts \in SUBSET lost : /\ claimedBy' = Freed(n, ts) /\ enabled' \subseteq enabled
                                /\ DeregisterVersion(n, number) => ts = lost
  <2>1. CASE DeregisterVersion(n, number)
    BY <2>1 DEF DeregisterVersion
  <2>2. CASE CrashInDeregisterVersion(n, number) /\ ~DeregisterVersion(n, number)
    BY <2>2 DEF CrashInDeregisterVersion, ReleasesCut
  <2> QED BY <2>1, <2>2
<1>4. \A m \in Names, c \in Channels : channels'[m][c] \in {v.number : v \in versions'[m]} \cup {0}
  <2>1. SUFFICES ASSUME NEW m \in Names, NEW c \in Channels, channels[m][c] # 0
                 PROVE  channels[m][c] \in {v.number : v \in versions'[m]}
    BY <1>2
  <2>2. PICK v \in versions[m] : v.number = channels[m][c]
    BY <2>1 DEF IInv, ChannelsResolve, _listVersions
  <2>3. m = n => v \notin Resolved(n, number)
    BY <1>2, <2>2 DEF PublishedIn, Resolved
  <2>4. v \in versions'[m]
    BY <1>2, <2>2, <2>3 DEF IInv, TypeOK
  <2> QED BY <2>2, <2>4
<1>5. /\ request' \in [Requests -> Registration \cup {NoRequest}]
      /\ run' \in [Runs -> Run \cup {NoRun}] /\ crashes' \in 0..MaxCrashes
      /\ \A r \in Runs : \/ run'[r] = NoRun
                         \/ /\ run[r] # NoRun
                            /\ run'[r].name = run[r].name /\ run'[r].version = run[r].version
                            /\ run'[r].script = run[r].script
      /\ crashes' = 0 => DeregisterVersion(n, number) /\ crashes = 0
  <2>1. CASE DeregisterVersion(n, number)
    BY <2>1 DEF DeregisterVersion, IInv, TypeOK
  <2>2. CASE CrashInDeregisterVersion(n, number)
    BY <2>2, DownRuns DEF CrashInDeregisterVersion, IInv
  <2> QED BY <2>1, <2>2
<1>6. TypeOK'
  <2>1. versions' \in [Names -> SUBSET Version]
    BY <1>2 DEF IInv, TypeOK
  <2>2. claimedBy' \in [Triggers -> Names \cup {Nobody, Gone}] /\ enabled' \subseteq Triggers
    BY <1>3 DEF Freed, IInv, TypeOK
  <2> QED BY <1>2, <1>5, <2>1, <2>2 DEF IInv, TypeOK
<1>7. crashes' = 0 => \A t \in Triggers : claimedBy'[t] = n => t \in declaredTriggers(rest)
  <2>1. SUFFICES ASSUME crashes' = 0, NEW t \in Triggers, claimedBy'[t] = n
                 PROVE  t \in declaredTriggers(rest)
    OBVIOUS
  <2>2. ts = lost /\ crashes = 0
    BY <1>3, <1>5, <2>1
  <2>3. claimedBy[t] = n /\ t \notin ts
    BY <1>3, <2>1, FreedFrom, CatalogAssumption
  <2>4. t \in declaredTriggers(versions[n])
    BY <2>2, <2>3 DEF IInv, ClaimsDeclared
  <2> QED BY <2>2, <2>3, <2>4 DEF ReleasedWithout
<1>8. rest \in SUBSET versions[n] /\ ts \in SUBSET Triggers /\ \A t \in ts : t \notin declaredTriggers(rest)
  BY <1>1
<1> HIDE DEF rest, lost
<1> QED BY <1>2, <1>3, <1>4, <1>5, <1>6, <1>7, <1>8, FreedKeeps

-----------------------------------------------------------------------------
LEMMA InitInvariant == Init => IInv
<1> SUFFICES ASSUME Init PROVE IInv
  OBVIOUS
<1>1. \A n \in Names : declaredTriggers(versions[n]) = {}
  BY DEF Init, declaredTriggers
<1>2. TypeOK
  BY CatalogAssumption DEF Init, TypeOK, Unpublished
<1>3. Marked /\ ClaimsHold /\ ResumesOwnCode /\ OneWorkflowPerTrigger
  BY <1>1 DEF Init, Marked, ClaimsHold, ResumesOwnCode, OneWorkflowPerTrigger
<1>4. ClaimsDeclared /\ ChannelsResolve
  BY <1>1, CatalogAssumption DEF Init, ClaimsDeclared, ChannelsResolve, Unpublished
<1> QED BY <1>2, <1>3, <1>4 DEF IInv

\* Triggers, registrations that begin or are refused, and runs that go on or end.
LEMMA OthersKeep ==
    ASSUME IInv,
           \/ \E t \in Triggers : SetEnabled(t)
           \/ \E q \in Requests, n \in Names, ts \in SUBSET Triggers : RegisterBegin(q, n, ts)
           \/ \E q \in Requests : RegisterRefused(q)
           \/ \E r \in Runs : StartEnd(r) \/ RunEnds(r) \/ Resume(r) \/ Stop(r)
           \/ Crash
           \/ UNCHANGED vars
    PROVE  IInv'
<1>1. CASE \E t \in Triggers : SetEnabled(t)
  <2>1. TypeOK'
    BY <1>1 DEF SetEnabled, IInv, TypeOK
  <2> QED BY <1>1, <2>1, RunsKeep DEF SetEnabled
<1>2. CASE \E q \in Requests, n \in Names, ts \in SUBSET Triggers : RegisterBegin(q, n, ts)
  <2>1. PICK q \in Requests, n \in Names, ts \in SUBSET Triggers : RegisterBegin(q, n, ts)
    BY <1>2
  <2>2. [is |-> "register", name |-> n, triggers |-> ts] \in Registration
    BY DEF Registration
  <2>3. TypeOK'
    BY <2>1, <2>2 DEF RegisterBegin, IInv, TypeOK
  <2> QED BY <2>1, <2>3, RunsKeep DEF RegisterBegin
<1>3. CASE \E q \in Requests : RegisterRefused(q)
  <2>1. TypeOK'
    BY <1>3 DEF RegisterRefused, IInv, TypeOK
  <2> QED BY <1>3, <2>1, RunsKeep DEF RegisterRefused
<1>4. CASE \E r \in Runs : StartEnd(r) \/ RunEnds(r) \/ Resume(r) \/ Stop(r)
  <2>1. PICK r \in Runs : StartEnd(r) \/ RunEnds(r) \/ Resume(r) \/ Stop(r)
    BY <1>4
  <2>2. run[r] \in Run
    BY <2>1, Fields DEF StartEnd, RunEnds, Resume, Stop, IInv, NoRun
  <2>3. CASE RunEnds(r) \/ Stop(r)
    <3>1. run' = [run EXCEPT ![r] = NoRun]
      BY <2>3 DEF RunEnds, Stop
    <3>2. TypeOK'
      BY <2>3, <3>1 DEF RunEnds, Stop, IInv, TypeOK
    <3>3. \A o \in Runs : run'[o] = NoRun \/ run'[o] = run[o]
      BY <3>1 DEF IInv, TypeOK
    <3> QED BY <2>3, <3>2, <3>3, RunsKeep DEF RunEnds, Stop
  <2>4. CASE StartEnd(r) \/ Resume(r)
    <3>1. run' = [run EXCEPT ![r].is = "live"]
      BY <2>4 DEF StartEnd, Resume
    <3>2. run'[r] = [run[r] EXCEPT !.is = "live"] /\ \A o \in Runs : o # r => run'[o] = run[o]
      BY <3>1 DEF IInv, TypeOK
    <3>3. /\ run'[r] \in Run /\ run[r] # NoRun
          /\ run'[r].name = run[r].name /\ run'[r].version = run[r].version
          /\ run'[r].script = run[r].script
      BY <2>2, <3>2 DEF Run, NoRun
    <3>4. TypeOK'
      BY <2>4, <3>1, <3>2, <3>3 DEF StartEnd, Resume, IInv, TypeOK
    <3>5. \A o \in Runs : \/ run'[o] = NoRun
                          \/ /\ run[o] # NoRun
                             /\ run'[o].name = run[o].name /\ run'[o].version = run[o].version
                             /\ run'[o].script = run[o].script
      BY <3>2, <3>3
    <3> QED BY <2>4, <3>4, <3>5, RunsKeep DEF StartEnd, Resume
  <2> QED BY <2>1, <2>3, <2>4
<1>5. CASE Crash
  <2>1. TypeOK'
    BY <1>5, DownRuns DEF Crash, IInv, TypeOK
  <2> QED BY <1>5, <2>1, DownRuns, RunsKeep DEF Crash, IInv
<1>6. CASE UNCHANGED vars
  <2>1. TypeOK'
    BY <1>6 DEF vars, IInv, TypeOK
  <2> QED BY <1>6, <2>1, RunsKeep DEF vars
<1> QED BY <1>1, <1>2, <1>3, <1>4, <1>5, <1>6

LEMMA DeleteKeeps ==
    ASSUME IInv, NEW t \in Triggers, DeleteTrigger(t)
    PROVE  IInv'
<1>1. TypeOK'
  BY DEF DeleteTrigger, IInv, TypeOK
<1>2. \A u \in Triggers : claimedBy'[u] = IF u = t THEN Gone ELSE claimedBy[u]
  BY DEF DeleteTrigger, IInv, TypeOK
<1>3. \A n \in Names, c \in Channels : channels'[n][c] \in {v.number : v \in versions'[n]} \cup {0}
  BY DEF DeleteTrigger, IInv, ChannelsResolve, _listVersions
<1>4. crashes' = 0 => /\ crashes = 0
                      /\ \A u \in Triggers, n \in Names :
                            claimedBy'[u] = n => u \in declaredTriggers(versions'[n])
  BY <1>2, CatalogAssumption DEF DeleteTrigger, IInv, ClaimsDeclared
<1> QED BY <1>1, <1>2, <1>3, <1>4, RemovalKeeps DEF DeleteTrigger

LEMMA NextKeeps == IInv /\ [Next]_vars => IInv'
<1> SUFFICES ASSUME IInv, [Next]_vars PROVE IInv'
  OBVIOUS
<1>1. CASE \E t \in Triggers : DeleteTrigger(t)
  BY <1>1, DeleteKeeps
<1>2. CASE \E q \in Requests : RegisterEnd(q)
  BY <1>2, RegisterEndKeeps
<1>3. CASE \E q \in Requests : CrashInRegister(q)
  <2>1. PICK q \in Requests : CrashInRegister(q)
    BY <1>3
  <2>2. claimedBy' \in [Triggers -> Names \cup {Nobody, Gone}]
    BY <2>1, Fields DEF CrashInRegister, Claimed, IInv, TypeOK, Registration
  <2>3. TypeOK'
    BY <2>1, <2>2, DownRuns DEF CrashInRegister, IInv, TypeOK
  <2> QED BY <2>1, <2>3, DownRuns, CrashInRegisterKeeps DEF CrashInRegister, IInv
<1>4. CASE \E n \in Names : Deregister(n) \/ CrashInDeregister(n)
  BY <1>4, DeregisterKeeps
<1>5. CASE \E n \in Names : \E number \in _listVersions(n) :
             DeregisterVersion(n, number) \/ CrashInDeregisterVersion(n, number)
  BY <1>5, DeregisterVersionKeeps
<1>6. CASE \E n \in Names, c \in Channels : \E number \in _listVersions(n) \cup {0} : Publish(n, c, number)
  <2> PICK n \in Names, c \in Channels : \E number \in _listVersions(n) \cup {0} : Publish(n, c, number)
    BY <1>6
  <2>1. PICK number \in _listVersions(n) \cup {0} : Publish(n, c, number)
    OBVIOUS
  <2>2. number \in Numbers \cup {0}
    BY Fields DEF IInv, _listVersions, Version
  <2>3. TypeOK' /\ ChannelsResolve'
    BY <2>1, <2>2 DEF Publish, IInv, TypeOK, ChannelsResolve, _listVersions
  <2>4. UNCHANGED <<versions, hwm, claimedBy, run, crashes>>
    BY <2>1 DEF Publish
  <2> QED BY <2>3, <2>4 DEF IInv, Marked, ClaimsHold, ResumesOwnCode, OneWorkflowPerTrigger,
                            ClaimsDeclared, Resolved, declaredTriggers
<1>7. CASE \E r \in Runs, n \in Names : StartBegin(r, n)
  BY <1>7, BeginKeeps DEF StartBegin
<1>8. CASE \E r \in Runs, t \in Triggers : Fire(r, t)
  <2>1. PICK r \in Runs, t \in Triggers : Fire(r, t)
    BY <1>8
  <2>2. Target(claimedBy[t], t) \subseteq versions[claimedBy[t]]
    BY DEF Target, boundVersionFor, Released, Resolved
  <2> QED BY <2>1, <2>2, BeginKeeps DEF Fire
<1> QED BY <1>1, <1>2, <1>3, <1>4, <1>5, <1>6, <1>7, <1>8, OthersKeep DEF Next

LEMMA AlwaysInvariant == Spec => []IInv
<1>1. Init => IInv
  BY InitInvariant
<1>2. IInv /\ [Next]_vars => IInv'
  BY NextKeeps
<1> QED BY <1>1, <1>2, PTL DEF Spec

\* The catalog's rows, claims, registrations and runs keep their shape.
THEOREM CatalogTypeCorrect == Spec => []TypeOK
<1>1. IInv => TypeOK
  BY DEF IInv
<1> QED BY <1>1, AlwaysInvariant, PTL

\* A run that is resumed from its pinned version finds the script it was started with
\* (workflow-catalog.ts insertVersion, the high-water mark).
THEOREM NumbersNeverReused == Spec => []ResumesOwnCode
<1>1. IInv => ResumesOwnCode
  BY DEF IInv
<1> QED BY <1>1, AlwaysInvariant, PTL

\* No trigger is declared by two workflows (mcp-facade.ts workflowRegister, scheduler.ts claim).
THEOREM TriggersAreExclusive == Spec => []OneWorkflowPerTrigger
<1>1. IInv => OneWorkflowPerTrigger
  BY DEF IInv
<1> QED BY <1>1, AlwaysInvariant, PTL

\* Until a crash the claims are those of the versions (mcp-facade.ts workflowRegister,
\* workflowDeregister).
THEOREM ClaimsFollowVersions == Spec => []ClaimsDeclared
<1>1. IInv => ClaimsDeclared
  BY DEF IInv
<1> QED BY <1>1, AlwaysInvariant, PTL

\* A channel points to a registered version (workflow-catalog.ts publish, deregisterVersion).
THEOREM ChannelsAlwaysResolve == Spec => []ChannelsResolve
<1>1. IInv => ChannelsResolve
  BY DEF IInv
<1> QED BY <1>1, AlwaysInvariant, PTL

-----------------------------------------------------------------------------
(* What fires *)

\* A claimed trigger is declared while no crash has come between claim and version, so that the
\* version that it is bound to declares it, and that one is started.
LEMMA FiresBound ==
    ASSUME IInv, crashes = 0, NEW r \in Runs, NEW t \in Triggers, Fire(r, t)
    PROVE  t \in declaredTriggers(Resolved(run'[r].name, run'[r].version))
<1> DEFINE n == claimedBy[t]
<1>1. n \in Names
  BY DEF Fire
<1>2. t \in declaredTriggers(versions[n])
  BY <1>1 DEF IInv, ClaimsDeclared
<1>3. PICK v \in boundVersionFor(n, t) : Begin(r, n, v)
  BY <1>2 DEF Fire, Target
<1>4. v \in versions[n] /\ t \in v.triggers
  BY <1>3 DEF boundVersionFor
<1>5. run \in [Runs -> Run \cup {NoRun}]
  BY DEF IInv, TypeOK
<1>6. run'[r].name = n /\ run'[r].version = v.number
  BY <1>3, <1>5 DEF Begin
<1>7. v \in Resolved(n, v.number)
  BY <1>4 DEF Resolved
<1> HIDE DEF n
<1> QED BY <1>4, <1>6, <1>7 DEF declaredTriggers

\* Until a crash has cut a handler short, a trigger fires only versions that declare it
\* (server.ts resolveScheduleTarget; workflow-catalog.ts boundVersionFor).
THEOREM FiresWhatIsDeclared == Spec => FiresDeclaredUntilCrash
<1>1. ASSUME IInv, [Next]_vars
      PROVE  [crashes = 0 => \A r \in Runs, t \in Triggers :
                  Fire(r, t) => t \in declaredTriggers(Resolved(run'[r].name, run'[r].version))]_vars
  BY <1>1, FiresBound
<1> QED BY <1>1, AlwaysInvariant, PTL DEF Spec, FiresDeclaredUntilCrash

-----------------------------------------------------------------------------
(* When an interrupted run can be stopped.                                 *)

\* No workflow is deregistered as a whole while it has a run ...
RunsKeepName == \A r \in Runs : run[r] # NoRun => versions'[run[r].name] # {}

\* ... and no version while a run of it is starting.
StartsKeepVersion ==
    \A r \in Runs : run[r].is = "starting" => \E v \in versions'[run[r].name] : v.number = run[r].version

Pinned == \A r \in Runs : run[r] # NoRun => Resolved(run[r].name, run[r].version) # {}

LEMMA PinnedKept ==
    ASSUME IInv, Pinned, [Next]_vars, RunsKeepName /\ StartsKeepVersion
    PROVE  Pinned'
<1>1. TypeOK /\ \A r \in Runs : run[r] # NoRun => run[r] \in Run
  BY Fields DEF IInv
<1>2. ASSUME NEW r \in Runs, run[r] # NoRun
      PROVE  \E v \in versions'[run[r].name] : v.number = run[r].version
  <2>1. run[r].name \in Names /\ run[r].is \in {"starting", "live", "interrupted"}
    BY <1>1, <1>2 DEF Run
  <2>2. PICK v \in versions[run[r].name] : v.number = run[r].version
    BY <1>2 DEF Pinned, Resolved
  <2>3. CASE run[r].is = "starting"
    BY <2>3 DEF StartsKeepVersion
  <2>4. CASE run[r].is # "starting"
    <3>1. versions'[run[r].name] # {}
      BY <1>2 DEF RunsKeepName
    <3>2. ASSUME NEW n \in Names, RemoveAll(n) PROVE v \in versions'[run[r].name]
      <4>1. versions' = [versions EXCEPT ![n] = {}] /\ versions \in [Names -> SUBSET Version]
        BY <1>1, <3>2 DEF RemoveAll, TypeOK
      <4> QED BY <2>1, <2>2, <3>1, <4>1
    <3>3. ASSUME NEW n \in Names, NEW number \in _listVersions(n), RemoveVersion(n, number)
          PROVE  v \in versions'[run[r].name]
      <4>1. ~(run[r].name = n /\ run[r].version = number)
        BY <2>1, <2>4, <3>3 DEF RemoveVersion
      <4>2. /\ versions' = [versions EXCEPT ![n] = @ \ Resolved(n, number)]
            /\ versions \in [Names -> SUBSET Version]
        BY <1>1, <3>3 DEF RemoveVersion, TypeOK
      <4> QED BY <2>1, <2>2, <4>1, <4>2 DEF Resolved
    <3>4. ASSUME NEW n \in Names, NEW s \in Scripts, NEW ts, Insert(n, s, ts)
          PROVE  v \in versions'[run[r].name]
      BY <1>1, <2>1, <2>2, <3>4 DEF Insert, TypeOK
    <3>5. CASE versions' = versions
      BY <2>2, <3>5
    <3>6. ASSUME NEW q \in Requests, RegisterEnd(q) PROVE v \in versions'[run[r].name]
      <4>1. request[q] \in Registration
        BY <1>1, <3>6, Fields DEF RegisterEnd
      <4> QED BY <3>4, <3>6, <4>1 DEF RegisterEnd, Registration
    <3>7. v \in versions'[run[r].name]
      BY <3>2, <3>3, <3>5, <3>6
         DEF Next, vars, SetEnabled, DeleteTrigger, RegisterBegin, RegisterRefused, CrashInRegister,
             Deregister, CrashInDeregister, DeregisterVersion, CrashInDeregisterVersion, Publish,
             StartBegin, Fire, Begin, StartEnd, RunEnds, Resume, Stop, Crash
    <3> QED BY <2>2, <3>7
  <2> QED BY <2>3, <2>4
<1>3. ASSUME NEW r \in Runs, run'[r] # NoRun
      PROVE  \E v \in versions'[run'[r].name] : v.number = run'[r].version
  <2>1. CASE run[r] # NoRun /\ run'[r].name = run[r].name /\ run'[r].version = run[r].version
    BY <1>2, <2>1
  <2>2. ASSUME NEW q \in Runs, NEW n \in Names, NEW v \in versions[n], Begin(q, n, v)
        PROVE  \E w \in versions'[run'[r].name] : w.number = run'[r].version
    <3>1. /\ versions' = versions
          /\ run' = [run EXCEPT ![q] = [is |-> "starting", name |-> n, version |-> v.number,
                                        script |-> v.script]]
          /\ run \in [Runs -> Run \cup {NoRun}]
      BY <1>1, <2>2 DEF Begin, TypeOK
    <3>2. CASE r = q
      BY <3>1, <3>2
    <3>3. CASE r # q
      <4>1. run'[r] = run[r]
        BY <3>1, <3>3
      <4> QED BY <1>2, <1>3, <4>1
    <3> QED BY <3>2, <3>3
  <2>3. ASSUME NEW q \in Runs, NEW t \in Triggers, Fire(q, t)
        PROVE  \E w \in versions'[run'[r].name] : w.number = run'[r].version
    <3>1. PICK v \in Target(claimedBy[t], t) : Begin(q, claimedBy[t], v) /\ claimedBy[t] \in Names
      BY <2>3 DEF Fire
    <3>2. v \in versions[claimedBy[t]]
      BY <3>1 DEF Target, boundVersionFor, Released, Resolved
    <3> QED BY <2>2, <3>1, <3>2
  <2>4. ASSUME NEW q \in Runs, StartEnd(q) \/ RunEnds(q) \/ Resume(q) \/ Stop(q)
        PROVE  run[r] # NoRun /\ run'[r].name = run[r].name /\ run'[r].version = run[r].version
    <3>1. run \in [Runs -> Run \cup {NoRun}]
      BY <1>1 DEF TypeOK
    <3>2. \/ run' = [run EXCEPT ![q] = NoRun]
          \/ run[q] # NoRun /\ run' = [run EXCEPT ![q].is = "live"]
      BY <2>4 DEF StartEnd, RunEnds, Resume, Stop, NoRun
    <3> QED BY <1>1, <1>3, <3>1, <3>2 DEF Run
  <2>5. CASE Down
    <3>1. run'[r] = CASE run[r].is = "starting" -> NoRun
                      [] run[r].is = "live" -> [run[r] EXCEPT !.is = "interrupted"]
                      [] OTHER -> run[r]
      BY <2>5, Zenon DEF Down
    <3>2. run'[r] = run[r] \/ (run[r].is = "live" /\ run'[r] = [run[r] EXCEPT !.is = "interrupted"])
      BY <1>3, <3>1
    <3>3. run[r] # NoRun
      BY <1>3, <3>2 DEF NoRun
    <3> QED BY <1>1, <1>2, <3>2, <3>3 DEF Run
  <2>6. CASE run' = run
    BY <1>2, <1>3, <2>6
  <2> QED BY <2>1, <2>2, <2>3, <2>4, <2>5, <2>6
          DEF Next, vars, SetEnabled, DeleteTrigger, RegisterBegin, RegisterEnd, RegisterRefused,
              CrashInRegister, Deregister, CrashInDeregister, DeregisterVersion,
              CrashInDeregisterVersion, Publish, StartBegin, Crash
<1> QED BY <1>3 DEF Pinned, Resolved

\* An interrupted run can be stopped unless its workflow was deregistered as a whole, or its version
\* while the run was starting: the guard of deregisterVersion, which counts live and interrupted runs,
\* lets no other way through (mcp-facade.ts, run-manager.ts _requireLive).
THEOREM PinnedRunsStop ==
    Spec /\ [][RunsKeepName /\ StartsKeepVersion]_vars => []InterruptedCanStop
<1>1. Init => Pinned
  BY DEF Init, Pinned
<1>2. IInv /\ Pinned /\ [Next]_vars /\ [RunsKeepName /\ StartsKeepVersion]_vars => Pinned'
  <2>1. CASE UNCHANGED vars
    BY <2>1 DEF vars, Pinned, Resolved
  <2> QED BY <2>1, PinnedKept
<1>3. Pinned => InterruptedCanStop
  BY DEF Pinned, InterruptedCanStop, Rehydrated, NoRun
<1> QED BY <1>1, <1>2, <1>3, AlwaysInvariant, PTL DEF Spec

-----------------------------------------------------------------------------
(* The contract of Registry *)

\* A run holds the version it began with from start to end, and is on record once it is live.
LEMMA HeldOf ==
    ASSUME TypeOK, NEW r \in Runs
    PROVE  /\ run[r] = NoRun => held[r] = Contract!None /\ r \notin recorded
           /\ run[r] # NoRun => /\ held[r] # Contract!None /\ held[r].name = run[r].name
                                /\ held[r].number = run[r].version
           /\ r \in recorded <=> run[r].is \in {"live", "interrupted"}
BY DEF held, recorded, NoRun, Contract!None

\* held is a function, before and after a step, and follows the runs.
LEMMA HeldFollows ==
    /\ held = [r \in Runs |-> held[r]] /\ held' = [r \in Runs |-> held'[r]]
    /\ \A r \in Runs : run'[r] = NoRun => held'[r] = Contract!None
    /\ \A r \in Runs : run'[r] = run[r] => held'[r] = held[r]
    /\ \A r \in Runs :
          /\ run[r] # NoRun /\ run'[r] # NoRun
          /\ run'[r].name = run[r].name /\ run'[r].version = run[r].version
          /\ run'[r].script = run[r].script
          => held'[r] = held[r]
BY DEF held, NoRun, Contract!None

\* Steps that begin no run drop those that are over.
LEMMA DropsByContract ==
    ASSUME \A r \in Runs : \/ run'[r] = NoRun
                           \/ /\ run[r] # NoRun
                              /\ run'[r].name = run[r].name /\ run'[r].version = run[r].version
                              /\ run'[r].script = run[r].script,
           NEW rs, rs = {r \in Runs : run'[r] = NoRun}, recorded' = recorded \ rs
    PROVE  Contract!Drop(rs)
<1>1. \A r \in Runs : held'[r] = IF r \in rs THEN Contract!None ELSE held[r]
  BY HeldFollows
<1>2. held' = [r \in Runs |-> IF r \in rs THEN Contract!None ELSE held[r]]
  BY <1>1, HeldFollows
<1> QED BY <1>2 DEF Contract!Drop

\* A crash loses the runs that were starting, and none on record.
LEMMA DownByContract ==
    ASSUME TypeOK, Down
    PROVE  \E rs \in SUBSET Runs : Contract!Lost(rs)
<1> DEFINE rs == {r \in Runs : run'[r] = NoRun}
<1>1. ASSUME NEW r \in Runs
      PROVE  /\ r \in recorded => run'[r] # NoRun
             /\ r \in recorded <=> r \in recorded'
  <2>1. CASE run[r].is = "starting"
    BY <2>1 DEF Down, recorded, NoRun
  <2>2. CASE run[r].is = "live"
    <3>1. run[r] \in Run
      BY <2>2 DEF TypeOK, NoRun
    <3>2. run'[r] = [run[r] EXCEPT !.is = "interrupted"]
      BY <2>2 DEF Down
    <3>3. run'[r].is = "interrupted"
      BY <3>1, <3>2 DEF Run
    <3> QED BY <2>2, <3>3 DEF recorded, NoRun
  <2>3. CASE run[r].is \notin {"starting", "live"}
    <3>1. run'[r] = run[r]
      BY <2>3 DEF Down
    <3> QED BY <3>1 DEF recorded, NoRun
  <2> QED BY <2>1, <2>2, <2>3
<1>2. recorded' = recorded \ rs
  <2>1. recorded \subseteq Runs /\ recorded' \subseteq Runs
    BY DEF recorded
  <2> QED BY <1>1, <2>1
<1>3. rs \cap recorded = {}
  BY <1>1
<1>4. Contract!Drop(rs)
  BY <1>2, DownRuns, DropsByContract
<1> QED BY <1>3, <1>4 DEF Contract!Lost

\* A step that leaves the runs alone loses none.
LEMMA NoneLost ==
    ASSUME run' = run
    PROVE  UNCHANGED <<held, recorded>> /\ Contract!Lost({})
<1>1. UNCHANGED <<held, recorded>>
  BY DEF held, recorded
<1>2. held' = [r \in Runs |-> IF r \in {} THEN Contract!None ELSE held[r]]
  BY <1>1, HeldFollows
<1> QED BY <1>1, <1>2 DEF Contract!Lost, Contract!Drop

\* A registration, whose claims won let it have triggers that no other workflow declares.
LEMMA RegisterByContract ==
    ASSUME IInv, NEW q \in Requests, RegisterEnd(q)
    PROVE  Contract!RNext
<1> DEFINE n == request[q].name
           ts == request[q].triggers
<1>1. n \in Names /\ ts \in SUBSET Triggers
  BY Fields DEF RegisterEnd, IInv, Registration
<1>2. PICK s \in Scripts : Insert(n, s, ts)
  BY DEF RegisterEnd
<1> DEFINE new == [number |-> NextNumber(n), script |-> s, triggers |-> ts]
<1>3. new.number = NextNumber(n) /\ new.triggers = ts
  OBVIOUS
<1>4. /\ NextNumber(n) \in Nat \ {0} /\ NextNumber(n) > hwm[n]
  BY <1>1, NextIsNew DEF IInv, TypeOK, Numbers
<1>5. \A m \in Names \ {n} : ts \cap Contract!Declared(m) = {}
  <2>1. SUFFICES ASSUME NEW m \in Names, m # n, NEW t \in ts, t \in declaredTriggers(versions[m])
                 PROVE  FALSE
    BY DEF Contract!Declared, declaredTriggers
  <2>2. claimedBy[t] \in {Nobody, n}
    BY DEF RegisterEnd, Claimable
  <2>3. claimedBy[t] \in {m, Gone}
    BY <2>1 DEF IInv, ClaimsHold
  <2> QED BY <1>1, <2>1, <2>2, <2>3, CatalogAssumption
<1>6. UNCHANGED <<held, recorded>>
  BY NoneLost DEF RegisterEnd
<1>7. /\ versions' = [versions EXCEPT ![n] = @ \cup {new}]
      /\ hwm' = [hwm EXCEPT ![n] = new.number] /\ channels' = channels
  BY <1>2 DEF Insert, RegisterEnd
<1>8. Contract!Issue(n, new)
  BY <1>3, <1>4, <1>5, <1>6, <1>7 DEF Contract!Issue
<1>9. \E number \in Nat \ {0} : Contract!Issue(n, [number |-> number, script |-> s, triggers |-> ts])
  BY <1>4, <1>8
<1> QED BY <1>1, <1>9 DEF Contract!RNext

\* workflow_deregister of a name, whole or cut short.
LEMMA DeregisterByContract ==
    ASSUME IInv, NEW n \in Names, Deregister(n) \/ CrashInDeregister(n)
    PROVE  Contract!RNext
<1>1. /\ versions' = [versions EXCEPT ![n] = {}] /\ hwm' = hwm
      /\ channels' = [channels EXCEPT ![n] = [c \in Channels |-> 0]]
  BY DEF Deregister, CrashInDeregister, RemoveAll, Unpublished
<1>2. PICK rs \in SUBSET Runs : Contract!Lost(rs)
  <2>1. CASE Deregister(n)
    BY <2>1, NoneLost DEF Deregister
  <2>2. CASE CrashInDeregister(n)
    BY <2>2, DownByContract DEF CrashInDeregister, IInv
  <2> QED BY <2>1, <2>2
<1>3. Contract!WithdrawAll(n, rs)
  BY <1>1, <1>2 DEF Contract!WithdrawAll
<1> QED BY <1>3 DEF Contract!RNext

\* workflow_deregister of a version, whole or cut short: no channel points to it, and no run on
\* record is pinned to it.
LEMMA DeregisterVersionByContract ==
    ASSUME IInv, NEW n \in Names, NEW number \in _listVersions(n),
           DeregisterVersion(n, number) \/ CrashInDeregisterVersion(n, number)
    PROVE  Contract!RNext
<1>1. RemoveVersion(n, number) /\ hwm' = hwm /\ channels' = channels
  BY DEF DeregisterVersion, CrashInDeregisterVersion
<1>2. PICK v \in versions[n] : v.number = number
  BY DEF _listVersions
<1>3. Resolved(n, number) = {v}
  BY <1>2 DEF Resolved, IInv, Marked
<1>4. versions' = [versions EXCEPT ![n] = @ \ {v}]
  BY <1>1, <1>3 DEF RemoveVersion
<1>5. versions[n] # {v}
  BY <1>1, FS_Singleton DEF RemoveVersion
<1>6. \A c \in Channels : channels[n][c] # v.number
  BY <1>1, <1>2 DEF RemoveVersion, PublishedIn
<1>7. \A r \in recorded : ~(held[r].name = n /\ held[r].number = v.number)
  <2>1. SUFFICES ASSUME NEW r \in Runs, r \in recorded
                 PROVE  ~(held[r].name = n /\ held[r].number = number)
    BY <1>2 DEF recorded
  <2>2. run[r].is \in {"live", "interrupted"} /\ run[r] # NoRun
    BY <2>1 DEF recorded, NoRun
  <2>3. held[r].name = run[r].name /\ held[r].number = run[r].version
    BY <2>2, HeldOf DEF IInv
  <2> QED BY <1>1, <2>2, <2>3 DEF RemoveVersion
<1>8. PICK rs \in SUBSET Runs : Contract!Lost(rs)
  <2>1. CASE DeregisterVersion(n, number)
    BY <2>1, NoneLost DEF DeregisterVersion
  <2>2. CASE CrashInDeregisterVersion(n, number)
    BY <2>2, DownByContract DEF CrashInDeregisterVersion, IInv
  <2> QED BY <2>1, <2>2
<1>9. Contract!Withdraw(n, v, rs)
  BY <1>1, <1>2, <1>4, <1>5, <1>6, <1>7, <1>8 DEF Contract!Withdraw
<1> QED BY <1>9 DEF Contract!RNext

\* A start or a firing.
LEMMA BeginByContract ==
    ASSUME IInv, NEW r \in Runs, NEW n \in Names, NEW v \in versions[n], Begin(r, n, v)
    PROVE  Contract!RNext
<1>1. run[r] = NoRun /\ UNCHANGED <<versions, hwm, channels>>
  BY DEF Begin
<1>2. /\ run'[r] = [is |-> "starting", name |-> n, version |-> v.number, script |-> v.script]
      /\ \A s \in Runs : s # r => run'[s] = run[s]
  BY DEF Begin, IInv, TypeOK
<1>3. held'[r] = Contract!Of(n, v)
  BY <1>2 DEF held, NoRun, Contract!Of
<1>4. held' = [held EXCEPT ![r] = Contract!Of(n, v)]
  BY <1>2, <1>3, HeldFollows
<1>5. recorded' = recorded
  BY <1>1, <1>2 DEF recorded, NoRun
<1>6. held[r] = Contract!None
  BY <1>1, HeldOf DEF IInv
<1>7. Contract!Begin(r, n, v)
  BY <1>1, <1>4, <1>5, <1>6 DEF Contract!Begin
<1> QED BY <1>7 DEF Contract!RNext

\* A run that goes on: it is recorded, or resumed as what it was.
LEMMA GoesOnByContract ==
    ASSUME IInv, NEW r \in Runs, StartEnd(r) \/ Resume(r)
    PROVE  Contract!RNext \/ UNCHANGED Contract!rvars
<1>1. UNCHANGED <<versions, hwm, channels>> /\ run' = [run EXCEPT ![r].is = "live"]
  BY DEF StartEnd, Resume
<1>2. run[r] \in Run
  BY DEF StartEnd, Resume, NoRun, IInv, TypeOK
<1>3. run'[r] = [run[r] EXCEPT !.is = "live"] /\ \A s \in Runs : s # r => run'[s] = run[s]
  BY <1>1 DEF IInv, TypeOK
<1>4. /\ run'[r].is = "live" /\ run'[r].name = run[r].name /\ run'[r].version = run[r].version
      /\ run'[r].script = run[r].script
  BY <1>2, <1>3 DEF Run
<1>5. run[r] # NoRun /\ run'[r] # NoRun
  BY <1>2, <1>4 DEF Run, NoRun
<1>6. held' = held
  BY <1>3, <1>4, <1>5, HeldFollows
<1>7. recorded' = recorded \cup {r}
  BY <1>3, <1>4 DEF recorded
<1>8. held[r] # Contract!None
  BY <1>5, HeldOf DEF IInv
<1>9. Contract!Record(r)
  BY <1>1, <1>6, <1>7, <1>8 DEF Contract!Record
<1> QED BY <1>9 DEF Contract!RNext

LEMMA EndByContract ==
    ASSUME IInv, NEW r \in Runs, RunEnds(r) \/ Stop(r)
    PROVE  Contract!RNext
<1>1. UNCHANGED <<versions, hwm, channels>> /\ run' = [run EXCEPT ![r] = NoRun]
  BY DEF RunEnds, Stop
<1>2. run'[r] = NoRun /\ \A s \in Runs : s # r => run'[s] = run[s]
  BY <1>1 DEF IInv, TypeOK
<1>3. held' = [s \in Runs |-> IF s \in {r} THEN Contract!None ELSE held[s]]
  BY <1>2, HeldFollows
<1>4. recorded' = recorded \ {r}
  BY <1>2 DEF recorded, NoRun
<1>5. Contract!End(r)
  BY <1>1, <1>3, <1>4 DEF Contract!End, Contract!Drop
<1> QED BY <1>5 DEF Contract!RNext

\* The catalog keeps the contract of Registry: though versions, claims and runs are rows of four
\* databases and a crash may cut every handler short, they change as those of one store would.
THEOREM RegistryContractKept == Spec => ActsAsRegistry
<1>1. Init => Contract!RInit
  <2> SUFFICES ASSUME Init PROVE Contract!RInit
    OBVIOUS
  <2>1. \A r \in Runs : run[r] = NoRun
    BY DEF Init
  <2>2. held = [r \in Runs |-> Contract!None] /\ recorded = {}
    BY <2>1 DEF held, recorded, NoRun, Contract!None
  <2> QED BY <2>2 DEF Init, Unpublished, Contract!RInit
<1>2. IInv /\ [Next]_vars => [Contract!RNext]_(Contract!rvars)
  <2> SUFFICES ASSUME IInv, [Next]_vars PROVE [Contract!RNext]_(Contract!rvars)
    OBVIOUS
  <2>1. CASE UNCHANGED <<versions, hwm, channels, run>>
    BY <2>1, NoneLost DEF Contract!rvars
  <2>2. CASE \E q \in Requests : RegisterEnd(q)
    BY <2>2, RegisterByContract
  <2>3. CASE Down /\ UNCHANGED <<versions, hwm, channels>>
    BY <2>3, DownByContract DEF IInv, Contract!Lose, Contract!RNext
  <2>4. CASE \E n \in Names : Deregister(n) \/ CrashInDeregister(n)
    BY <2>4, DeregisterByContract
  <2>5. CASE \E n \in Names : \E number \in _listVersions(n) :
               DeregisterVersion(n, number) \/ CrashInDeregisterVersion(n, number)
    BY <2>5, DeregisterVersionByContract
  <2>6. ASSUME NEW n \in Names, NEW c \in Channels, NEW number \in _listVersions(n) \cup {0},
               Publish(n, c, number)
        PROVE  Contract!RNext
    <3>1. number \in Contract!Given(n) \cup {0}
      BY DEF _listVersions, Contract!Given
    <3>2. Contract!Point(n, c, number)
      BY <2>6, <3>1, NoneLost DEF Publish, Contract!Point
    <3> QED BY <3>1, <3>2 DEF Contract!RNext
  <2>7. CASE \E r \in Runs, n \in Names : StartBegin(r, n)
    BY <2>7, BeginByContract DEF StartBegin
  <2>8. ASSUME NEW r \in Runs, NEW t \in Triggers, Fire(r, t) PROVE Contract!RNext
    <3>1. Target(claimedBy[t], t) \subseteq versions[claimedBy[t]]
      BY DEF Target, boundVersionFor, Released, Resolved
    <3> QED BY <2>8, <3>1, BeginByContract DEF Fire
  <2>9. CASE \E r \in Runs : StartEnd(r) \/ Resume(r)
    BY <2>9, GoesOnByContract
  <2>10. CASE \E r \in Runs : RunEnds(r) \/ Stop(r)
    BY <2>10, EndByContract
  <2> QED BY <2>1, <2>2, <2>3, <2>4, <2>5, <2>6, <2>7, <2>8, <2>9, <2>10
          DEF Next, vars, SetEnabled, DeleteTrigger, RegisterBegin, RegisterRefused,
              CrashInRegister, Crash
<1> QED BY <1>1, <1>2, AlwaysInvariant, PTL DEF Spec, ActsAsRegistry, Contract!RSpec

\* The contract is enough for a resumed run and for a trigger: from it alone it follows that a number
\* means one script and that no trigger serves two workflows.
LEMMA RegistrySuffices == Contract!RSpec => [](Contract!OneMeaning /\ Contract!OneOwner)
<1> DEFINE Kinds == /\ versions \in [Names -> SUBSET [number : Nat, script : Scripts, triggers : SUBSET Triggers]]
                    /\ hwm \in [Names -> Nat] /\ held = [r \in Runs |-> held[r]]
           Below == /\ \A n \in Names : \A v \in versions[n] : v.number <= hwm[n]
                    /\ \A r \in Runs : held[r] # Contract!None =>
                          held[r].name \in Names /\ held[r].number \in Nat /\ held[r].number <= hwm[held[r].name]
           Meaning == \A r \in Runs, n \in Names : \A v \in versions[n] :
                          held[r] # Contract!None /\ held[r].name = n /\ held[r].number = v.number
                          => held[r].script = v.script
           Owner == \A m, n \in Names : m # n =>
                       \A v \in versions[m], w \in versions[n] : v.triggers \cap w.triggers = {}
           Single == \A n \in Names : \A v, w \in versions[n] : v.number = w.number => v = w
           Whole == Kinds /\ Below /\ Meaning /\ Owner /\ Single
<1>1. Whole => Contract!OneMeaning /\ Contract!OneOwner
  BY DEF Contract!OneMeaning, Contract!OneOwner, Contract!Declared
<1>2. Contract!RInit => Whole
  BY DEF Contract!RInit
<1>3. Whole /\ [Contract!RNext]_(Contract!rvars) => Whole'
  <2> SUFFICES ASSUME Whole, [Contract!RNext]_(Contract!rvars) PROVE Whole'
    OBVIOUS
  <2>1. ASSUME NEW n \in Names, NEW number \in Nat \ {0}, NEW s \in Scripts, NEW ts \in SUBSET Triggers,
               Contract!Issue(n, [number |-> number, script |-> s, triggers |-> ts])
        PROVE  Whole'
    <3> DEFINE new == [number |-> number, script |-> s, triggers |-> ts]
    <3>1. /\ versions' = [versions EXCEPT ![n] = @ \cup {new}] /\ hwm' = [hwm EXCEPT ![n] = number]
          /\ held' = held /\ number > hwm[n]
          /\ \A m \in Names \ {n} : \A v \in versions[m] : ts \cap v.triggers = {}
      BY <2>1 DEF Contract!Issue, Contract!Declared
    <3>2. /\ new \in [number : Nat, script : Scripts, triggers : SUBSET Triggers]
          /\ new.number = number /\ new.triggers = ts
      OBVIOUS
    <3> HIDE DEF new
    <3>3. Kinds'
      BY <3>1, <3>2 DEF Contract!None
    <3>4. \A m \in Names : versions'[m] = IF m = n THEN versions[n] \cup {new} ELSE versions[m]
      BY <3>1
    <3>5. \A m \in Names : hwm'[m] = (IF m = n THEN number ELSE hwm[m]) /\ hwm[m] \in Nat /\ hwm[m] <= hwm'[m]
      BY <3>1
    <3>6. Below'
      BY <3>1, <3>2, <3>4, <3>5 DEF Contract!None
    <3>7. Meaning'
      BY <3>1, <3>2, <3>4, <3>5 DEF Contract!None
    <3>8. Owner'
      BY <3>1, <3>2, <3>4
    <3>9. Single'
      BY <3>1, <3>2, <3>4, <3>5
    <3> QED BY <3>3, <3>6, <3>7, <3>8, <3>9
  <2>2. ASSUME NEW n \in Names, NEW r \in Runs, NEW v \in versions[n], Contract!Begin(r, n, v)
        PROVE  Whole'
    <3>1. /\ held' = [held EXCEPT ![r] = Contract!Of(n, v)] /\ versions' = versions /\ hwm' = hwm
      BY <2>2 DEF Contract!Begin
    <3>2. /\ held'[r].name = n /\ held'[r].number = v.number /\ held'[r].script = v.script
          /\ \A s \in Runs : s # r => held'[s] = held[s]
      BY <3>1 DEF Contract!Of
    <3>3. Kinds'
      BY <3>1
    <3>4. Below'
      BY <3>1, <3>2 DEF Contract!None
    <3>5. Meaning'
      BY <3>1, <3>2 DEF Contract!None
    <3> QED BY <3>1, <3>3, <3>4, <3>5
  <2>3. ASSUME NEW rs, Contract!Drop(rs), hwm' = hwm,
               versions' \in [Names -> SUBSET [number : Nat, script : Scripts, triggers : SUBSET Triggers]],
               \A n \in Names : versions'[n] \subseteq versions[n]
        PROVE  Whole'
    <3>1. held' = [r \in Runs |-> IF r \in rs THEN Contract!None ELSE held[r]]
      BY <2>3 DEF Contract!Drop
    <3>2. \A r \in Runs : held'[r] # Contract!None => held'[r] = held[r]
      BY <3>1
    <3>3. Kinds'
      BY <2>3, <3>1
    <3>4. Below'
      BY <2>3, <3>2 DEF Contract!None
    <3>5. Meaning'
      BY <2>3, <3>2 DEF Contract!None
    <3>6. Owner' /\ Single'
      BY <2>3
    <3> QED BY <3>3, <3>4, <3>5, <3>6
  <2>4. CASE UNCHANGED <<versions, hwm, held>>
    BY <2>4 DEF Contract!None
  <2>5. ASSUME NEW rs, Contract!Drop(rs), UNCHANGED <<versions, hwm>> PROVE Whole'
    BY <2>3, <2>5
  <2>6. ASSUME NEW n \in Names, NEW rs, Contract!WithdrawAll(n, rs) PROVE Whole'
    <3>1. Contract!Drop(rs) /\ hwm' = hwm /\ versions' = [versions EXCEPT ![n] = {}]
      BY <2>6 DEF Contract!WithdrawAll, Contract!Lost
    <3>2. /\ versions' \in [Names -> SUBSET [number : Nat, script : Scripts, triggers : SUBSET Triggers]]
          /\ \A m \in Names : versions'[m] \subseteq versions[m]
      BY <3>1
    <3> QED BY <2>3, <3>1, <3>2
  <2>7. ASSUME NEW n \in Names, NEW v, NEW rs, Contract!Withdraw(n, v, rs) PROVE Whole'
    <3>1. Contract!Drop(rs) /\ hwm' = hwm /\ versions' = [versions EXCEPT ![n] = @ \ {v}]
      BY <2>7 DEF Contract!Withdraw, Contract!Lost
    <3>2. /\ versions' \in [Names -> SUBSET [number : Nat, script : Scripts, triggers : SUBSET Triggers]]
          /\ \A m \in Names : versions'[m] \subseteq versions[m]
      BY <3>1
    <3> QED BY <2>3, <3>1, <3>2
  <2> QED BY <2>1, <2>2, <2>4, <2>5, <2>6, <2>7
          DEF Contract!RNext, Contract!rvars, Contract!Point, Contract!Record, Contract!End,
              Contract!Lose, Contract!Lost
<1> QED BY <1>1, <1>2, <1>3, PTL DEF Contract!RSpec

=============================================================================
