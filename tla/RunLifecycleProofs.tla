-------------------------- MODULE RunLifecycleProofs --------------------------
(***************************************************************************)
(* Theorems about RunLifecycle, for every number of runs, entries and      *)
(* executions, every cap, and any bound on crashes and store faults.       *)
(*                                                                         *)
(* TypeCorrect needs nothing more.  The others are, as each one says,      *)
(* about engines whose control requests come one at a time to a run that   *)
(* is not in memory (SerialControl: the run MCRunLifecycle_race shows what *)
(* two at once do), whose store does not throw (StoreWorks), and that die  *)
(* without a graceful shutdown (NoShutdown: see MCRunLifecycle_shutdown).  *)
(***************************************************************************)
EXTENDS RunLifecycle, TLAPS, FiniteSetTheorems

SerialControl == \A c, d \in Callers : c = d

USE DEF Turn, durable, memory

-----------------------------------------------------------------------------
(* Types.                                                                  *)

\* The types of what building, executing or settling an entry may change.
EntryTypes ==
    /\ cur \in [Runs -> {0} \cup EntryIds]
    /\ status \in [Runs -> [EntryIds -> {"free"} \cup Status]]
    /\ substitute \in [Runs -> [EntryIds -> BOOLEAN]]
    /\ exec \in [Runs -> [EntryIds -> {0} \cup ExecIds]]
    /\ owner \in [Runs -> [ExecIds -> {0} \cup EntryIds]]
    /\ child \in [Runs -> [ExecIds -> {"free", "alive", "killed"}]]
    /\ row \in [Runs -> {"none"} \cup Status]
    /\ faults \in 0..MaxFaults

\* The initial state is well typed.
LEMMA TypeInit == Init => TypeOK
<1> SUFFICES ASSUME Init PROVE TypeOK OBVIOUS
<1>1. NoRequest \in Requests
  BY DEF Requests
<1>2. Every(Runs, Every(EntryIds, "free")) \in [Runs -> [EntryIds -> {"free"} \cup Status]]
  BY DEF Every
<1>3. restarts \in 0..MaxRestarts /\ faults \in 0..MaxFaults
  BY CapAssumption DEF Init
<1> QED BY <1>1, <1>2, <1>3 DEF Init, TypeOK, Every

\* An execution that starts, or fails to, keeps the types of executions.
LEMMA RunLiveType ==
  ASSUME exec \in [Runs -> [EntryIds -> {0} \cup ExecIds]],
         owner \in [Runs -> [ExecIds -> {0} \cup EntryIds]],
         child \in [Runs -> [ExecIds -> {"free", "alive", "killed"}]],
         NEW r \in Runs, NEW k \in EntryIds, NEW e \in ExecIds,
         RunLive(r, k, e) \/ NeverLive(r, k)
  PROVE  /\ exec' \in [Runs -> [EntryIds -> {0} \cup ExecIds]]
         /\ owner' \in [Runs -> [ExecIds -> {0} \cup EntryIds]]
         /\ child' \in [Runs -> [ExecIds -> {"free", "alive", "killed"}]]
<1>1. CASE RunLive(r, k, e)
  BY <1>1 DEF RunLive
<1>2. CASE NeverLive(r, k)
  BY <1>2 DEF NeverLive
<1> QED BY <1>1, <1>2

\* The count of faults keeps its bound.
LEMMA WriteType ==
  ASSUME faults \in 0..MaxFaults, Stored \/ Thrown
  PROVE  faults' \in 0..MaxFaults
  BY CapAssumption DEF Stored, Thrown

\* Killing the child of an entry keeps the type of child.
LEMMA KilledType ==
  ASSUME child \in [Runs -> [ExecIds -> {"free", "alive", "killed"}]],
         NEW r \in Runs, NEW k \in EntryIds
  PROVE  Killed(r, k) \in [Runs -> [ExecIds -> {"free", "alive", "killed"}]]
  BY DEF Killed

\* Every step of start() keeps the types.
LEMMA TypeStart ==
  ASSUME TypeOK, NEW r \in Runs, Start(r)
  PROVE  TypeOK'
<1>1. CASE StartAdmit(r)
  BY <1>1 DEF TypeOK, StartAdmit
<1>2. CASE StartRefused(r)
  BY <1>2 DEF TypeOK, StartRefused
<1>3. CASE StartFetch(r)
  BY <1>3 DEF TypeOK, StartFetch, Status
<1>4. CASE StartThrows(r)
  BY <1>4 DEF TypeOK, StartThrows, Status
<1>5. ASSUME NEW k \in EntryIds, NEW e \in ExecIds, StartLaunch(r, k, e)
      PROVE  TypeOK'
  <2>1. /\ RunLive(r, k, e) \/ NeverLive(r, k)
        /\ Stored \/ Thrown
        /\ SetRow(r, "running") \/ SetRow(r, "queued")
    BY <1>5 DEF StartLaunch
  <2>2. /\ exec' \in [Runs -> [EntryIds -> {0} \cup ExecIds]]
        /\ owner' \in [Runs -> [ExecIds -> {0} \cup EntryIds]]
        /\ child' \in [Runs -> [ExecIds -> {"free", "alive", "killed"}]]
    BY <2>1, RunLiveType DEF TypeOK
  <2>3. row' \in [Runs -> {"none"} \cup Status] /\ faults' \in 0..MaxFaults
    BY <2>1, WriteType DEF TypeOK, SetRow, Status
  <2>4. status' \in [Runs -> [EntryIds -> {"free"} \cup Status]]
    BY <1>5 DEF StartLaunch, TypeOK, Status
  <2> QED  BY <1>5, <2>2, <2>3, <2>4 DEF StartLaunch, TypeOK
<1>6. ASSUME NEW k \in EntryIds, StartSeedFailed(r, k)
      PROVE  TypeOK'
  <2>1. faults' \in 0..MaxFaults
    BY <1>6, WriteType DEF TypeOK, StartSeedFailed, RecordAndFail
  <2>2. row' \in [Runs -> {"none"} \cup Status]
    BY <1>6 DEF TypeOK, StartSeedFailed, RecordAndFail, SetRow, Status, Terminal
  <2>3. error' \in [Runs -> {"none"} \cup Codes]
    BY <1>6 DEF TypeOK, StartSeedFailed, RecordAndFail, Codes
  <2>4. status' \in [Runs -> [EntryIds -> {"free"} \cup Status]]
    BY <1>6 DEF StartSeedFailed, TypeOK, Status, Terminal
  <2> QED BY <1>6, <2>1, <2>2, <2>3, <2>4 DEF StartSeedFailed, TypeOK
<1> QED BY <1>1, <1>2, <1>3, <1>4, <1>5, <1>6 DEF Start

\* Resuming an entry keeps the types of entries and executions.
LEMMA TypeResumeEntry ==
  ASSUME TypeOK, NEW r \in Runs, NEW k \in EntryIds, NEW e \in ExecIds, ResumeEntry(r, k, e)
  PROVE  /\ status' \in [Runs -> [EntryIds -> {"free"} \cup Status]]
         /\ exec' \in [Runs -> [EntryIds -> {0} \cup ExecIds]]
         /\ owner' \in [Runs -> [ExecIds -> {0} \cup EntryIds]]
         /\ child' \in [Runs -> [ExecIds -> {"free", "alive", "killed"}]]
         /\ row' \in [Runs -> {"none"} \cup Status]
         /\ faults' \in 0..MaxFaults
<1>1. RunLive(r, k, e) \/ NeverLive(r, k)
  BY DEF ResumeEntry
<1>2. /\ exec' \in [Runs -> [EntryIds -> {0} \cup ExecIds]]
      /\ owner' \in [Runs -> [ExecIds -> {0} \cup EntryIds]]
      /\ child' \in [Runs -> [ExecIds -> {"free", "alive", "killed"}]]
  BY <1>1, RunLiveType DEF TypeOK
<1>3. row' \in [Runs -> {"none"} \cup Status]
  BY DEF TypeOK, ResumeEntry, SetRow, Status
<1>4. faults' \in 0..MaxFaults
  BY WriteType DEF TypeOK, ResumeEntry
<1>5. status' \in [Runs -> [EntryIds -> {"free"} \cup Status]]
  BY DEF TypeOK, ResumeEntry, Status
<1> QED BY <1>2, <1>3, <1>4, <1>5

\* Serving a request on a run that is not in _runs keeps the types.
LEMMA TypeServe ==
  ASSUME TypeOK, NEW r \in Runs, NEW op \in Ops, NEW seen \in Resumable, Serve(r, op, seen)
  PROVE  EntryTypes'
<1>1. ASSUME NEW k \in EntryIds, Rehydrate(r, k)
      PROVE  substitute' \in [Runs -> [EntryIds -> BOOLEAN]]
  BY <1>1 DEF TypeOK, Rehydrate
<1>2. ASSUME NEW k \in EntryIds, RehydratedStop(r, k)
      PROVE  EntryTypes'
  <2>1. exec' \in [Runs -> [EntryIds -> {0} \cup ExecIds]]
    BY <1>2 DEF TypeOK, RehydratedStop, NeverLive
  <2>2. row' \in [Runs -> {"none"} \cup Status] /\ faults' \in 0..MaxFaults
    BY <1>2, WriteType DEF TypeOK, RehydratedStop, Transition, SetRow, Status, Terminal
  <2>3. status' \in [Runs -> [EntryIds -> {"free"} \cup Status]]
    BY <1>2 DEF TypeOK, RehydratedStop, Status, Terminal
  <2> QED BY <1>1, <1>2, <2>1, <2>2, <2>3 DEF TypeOK, EntryTypes, RehydratedStop, NeverLive
<1>3. ASSUME NEW k \in EntryIds, NEW e \in ExecIds, RehydratedResume(r, k, e)
      PROVE  EntryTypes'
  BY <1>1, <1>3, TypeResumeEntry DEF TypeOK, EntryTypes, RehydratedResume
<1>4. ASSUME NEW k \in EntryIds, RehydratedRefusal(r, k, op, seen)
      PROVE  EntryTypes'
  <2>1. exec' \in [Runs -> [EntryIds -> {0} \cup ExecIds]]
    BY <1>4 DEF TypeOK, RehydratedRefusal, NeverLive
  <2>2. status' \in [Runs -> [EntryIds -> {"free"} \cup Status]]
    BY <1>4 DEF TypeOK, RehydratedRefusal, Status
  <2> QED BY <1>1, <1>4, <2>1, <2>2 DEF TypeOK, EntryTypes, RehydratedRefusal, NeverLive
<1>5. CASE RehydratedDrop(r, op)
  BY <1>5 DEF TypeOK, EntryTypes, RehydratedDrop
<1> QED BY <1>2, <1>3, <1>4, <1>5 DEF Serve

\* What a waiting request carries.
LEMMA RequestType ==
  ASSUME TypeOK, NEW r \in Runs, NEW c \in Callers, waiting[r][c] # NoRequest
  PROVE  waiting[r][c].op \in Ops /\ waiting[r][c].seen \in Resumable
<1>1. waiting[r][c] \in [op : Ops, seen : Resumable]
  BY DEF TypeOK, Requests
<1> QED BY <1>1

\* Every control request keeps the types.
LEMMA TypeControl ==
  ASSUME TypeOK, NEW r \in Runs, Control(r)
  PROVE  TypeOK'
<1>1. CASE SuspendCached(r)
  <2>1. cur[r] \in EntryIds
    BY <1>1 DEF TypeOK, SuspendCached, Cached
  <2>2. child' \in [Runs -> [ExecIds -> {"free", "alive", "killed"}]]
    BY <1>1, <2>1, KilledType DEF TypeOK, SuspendCached
  <2>3. row' \in [Runs -> {"none"} \cup Status] /\ faults' \in 0..MaxFaults
    BY <1>1, WriteType DEF TypeOK, SuspendCached, Transition, SetRow, Status, Resumable
  <2>4. status' \in [Runs -> [EntryIds -> {"free"} \cup Status]]
    BY <1>1, <2>1 DEF TypeOK, SuspendCached, Status, Resumable
  <2> QED BY <1>1, <2>2, <2>3, <2>4 DEF TypeOK, SuspendCached
<1>2. CASE StopCached(r)
  <2>1. cur[r] \in EntryIds
    BY <1>2 DEF TypeOK, StopCached, Cached
  <2>2. child' \in [Runs -> [ExecIds -> {"free", "alive", "killed"}]]
    BY <1>2, <2>1, KilledType DEF TypeOK, StopCached
  <2>3. row' \in [Runs -> {"none"} \cup Status] /\ faults' \in 0..MaxFaults
    BY <1>2, WriteType DEF TypeOK, StopCached, Transition, SetRow, Status, Terminal
  <2>4. status' \in [Runs -> [EntryIds -> {"free"} \cup Status]]
    BY <1>2, <2>1 DEF TypeOK, StopCached, Status, Terminal
  <2> QED BY <1>2, <2>2, <2>3, <2>4 DEF TypeOK, StopCached
<1>3. CASE ResumeDropped(r)
  BY <1>3 DEF TypeOK, ResumeDropped, Cached
<1>4. ASSUME NEW e \in ExecIds, ResumeCached(r, e)
      PROVE  TypeOK'
  <2>1. cur[r] \in EntryIds /\ ResumeEntry(r, cur[r], e)
    BY <1>4 DEF TypeOK, ResumeCached, Cached
  <2> QED BY <1>4, <2>1, TypeResumeEntry DEF TypeOK, ResumeCached
<1>5. ASSUME NEW c \in Callers, NEW op \in Ops, Ask(r, c, op)
      PROVE  TypeOK'
  <2>1. [op |-> op, seen |-> row[r]] \in Requests
    BY <1>5 DEF Ask, Uncached, Requests
  <2> QED BY <1>5, <2>1 DEF TypeOK, Ask
<1>6. ASSUME NEW c \in Callers, NEW op \in Ops, ServeAtOnce(r, c, op)
      PROVE  TypeOK'
  <2>1. EntryTypes'
    BY <1>6, TypeServe DEF ServeAtOnce, Uncached
  <2> QED BY <1>6, <2>1 DEF TypeOK, EntryTypes, ServeAtOnce
<1>7. ASSUME NEW c \in Callers, ServeWaiting(r, c)
      PROVE  TypeOK'
  <2>1. waiting[r][c].op \in Ops /\ waiting[r][c].seen \in Resumable
    BY <1>7, RequestType DEF ServeWaiting
  <2>2. EntryTypes'
    <3>1. CASE Serve(r, waiting[r][c].op, waiting[r][c].seen)
      BY <2>1, <3>1, TypeServe
    <3>2. CASE RehydrationRefused
      BY <3>2 DEF TypeOK, EntryTypes, RehydrationRefused
    <3> QED BY <1>7, <3>1, <3>2 DEF ServeWaiting
  <2>3. NoRequest \in Requests
    BY DEF Requests
  <2> QED BY <1>7, <2>2, <2>3 DEF TypeOK, EntryTypes, ServeWaiting
<1> QED BY <1>1, <1>2, <1>3, <1>4, <1>5, <1>6, <1>7 DEF Control

\* Settling an execution keeps the types.
LEMMA TypeSettle ==
  ASSUME TypeOK, NEW r \in Runs, NEW e \in ExecIds, Settle(r, e)
  PROVE  TypeOK'
<1>1. CASE SettleIgnored(r, e)
  BY <1>1 DEF TypeOK, SettleIgnored, Gone
<1>2. CASE SettleResult(r, e)
  <2>1. row' \in [Runs -> {"none"} \cup Status] /\ faults' \in 0..MaxFaults
    BY <1>2, WriteType DEF TypeOK, SettleResult, Transition, SetRow, Status, Terminal
  <2>2. status' \in [Runs -> [EntryIds -> {"free"} \cup Status]]
    <3>1. status' = status \/ status' = [status EXCEPT ![r][owner[r][e]] = "completed"]
      BY <1>2 DEF SettleResult
    <3>2. status \in [Runs -> [EntryIds -> {"free"} \cup Status]] /\ "completed" \in Status
      BY DEF TypeOK, Status, Terminal
    <3> QED BY <3>1, <3>2
  <2>3. result' \in [Runs -> BOOLEAN]
    <3>1. result' = result \/ result' = [result EXCEPT ![r] = TRUE]
      BY <1>2 DEF SettleResult
    <3> QED BY <3>1 DEF TypeOK
  <2> QED BY <1>2, <2>1, <2>2, <2>3 DEF TypeOK, SettleResult, Gone
<1>3. ASSUME NEW code \in {"SCRIPT", "ABORTED"}, SettleError(r, e, code)
      PROVE  TypeOK'
  <2>1. RecordAndFail(r, code)
    BY <1>3 DEF SettleError
  <2>2. row' \in [Runs -> {"none"} \cup Status]
    BY <2>1 DEF TypeOK, RecordAndFail, SetRow, Status, Terminal
  <2>3. faults' \in 0..MaxFaults
    BY <2>1, WriteType DEF TypeOK, RecordAndFail
  <2>4. status' \in [Runs -> [EntryIds -> {"free"} \cup Status]]
    BY <1>3 DEF TypeOK, SettleError, Status, Terminal
  <2>5. error' \in [Runs -> {"none"} \cup Codes]
    BY <2>1 DEF TypeOK, RecordAndFail, Codes
  <2> QED BY <1>3, <2>2, <2>3, <2>4, <2>5 DEF TypeOK, SettleError, Gone
<1> QED BY <1>1, <1>2, <1>3 DEF Settle

\* The end of a process leaves its memory well typed (and empty).
LEMMA TypeLost ==
  ASSUME TypeOK, LoseMemory, Restarted \/ UNCHANGED restarts,
         row' \in [Runs -> {"none"} \cup Status], result' \in [Runs -> BOOLEAN],
         error' \in [Runs -> {"none"} \cup Codes]
  PROVE  TypeOK'
<1>1. NoRequest \in Requests
  BY DEF Requests
<1>2. restarts' \in 0..MaxRestarts
  BY CapAssumption DEF TypeOK, Restarted
<1>3. /\ starting' \in [Runs -> {"no", "admitting", "fetching"}]
      /\ cur' \in [Runs -> {0} \cup EntryIds]
      /\ status' \in [Runs -> [EntryIds -> {"free"} \cup Status]]
      /\ substitute' \in [Runs -> [EntryIds -> BOOLEAN]]
  BY DEF LoseMemory, Every
<1>4. /\ exec' \in [Runs -> [EntryIds -> {0} \cup ExecIds]]
      /\ owner' \in [Runs -> [ExecIds -> {0} \cup EntryIds]]
      /\ child' \in [Runs -> [ExecIds -> {"free", "alive", "killed"}]]
      /\ waiting' \in [Runs -> [Callers -> Requests]]
  BY <1>1 DEF LoseMemory, Every
<1> QED BY <1>2, <1>3, <1>4 DEF TypeOK, LoseMemory

\* Crashes, shutdown and boot keep the types.
LEMMA TypeProcess ==
  ASSUME TypeOK, ProcessStep
  PROVE  TypeOK'
<1>1. CASE Crash
  BY <1>1, TypeLost DEF TypeOK, Crash
<1>2. CASE Exit
  BY <1>2, TypeLost DEF TypeOK, Exit
<1>3. ASSUME NEW r \in Runs, CrashAfterCreate(r)
      PROVE  TypeOK'
  <2>1. row' \in [Runs -> {"none"} \cup Status]
    BY <1>3 DEF TypeOK, CrashAfterCreate, Status
  <2> QED BY <1>3, <2>1, TypeLost DEF TypeOK, CrashAfterCreate
<1>4. ASSUME NEW r \in Runs, NEW e \in ExecIds, CrashAfterRecord(r, e)
      PROVE  TypeOK'
  <2>1. result' \in [Runs -> BOOLEAN] /\ error' \in [Runs -> {"none"} \cup Codes]
    BY <1>4 DEF TypeOK, CrashAfterRecord, Codes
  <2> QED BY <1>4, <2>1, TypeLost DEF TypeOK, CrashAfterRecord
<1>5. CASE Shutdown
  <2>1. restarts' \in 0..MaxRestarts
    BY <1>5, CapAssumption DEF TypeOK, Shutdown, Restarted
  <2>2. child' \in [Runs -> [ExecIds -> {"free", "alive", "killed"}]]
    <3>1. ASSUME NEW r \in Runs
          PROVE  child'[r] \in [ExecIds -> {"free", "alive", "killed"}]
      <4>1. CASE cur[r] # 0 /\ status[r][cur[r]] = "running"
        BY <1>5, <4>1, KilledType DEF TypeOK, Shutdown
      <4>2. CASE ~(cur[r] # 0 /\ status[r][cur[r]] = "running")
        BY <1>5, <4>2 DEF TypeOK, Shutdown
      <4> QED BY <4>1, <4>2
    <3> QED BY <1>5, <3>1 DEF Shutdown
  <2> QED BY <1>5, <2>1, <2>2 DEF TypeOK, Shutdown
<1>6. CASE Boot
  <2>1. row' \in [Runs -> {"none"} \cup Status]
    BY <1>6 DEF TypeOK, Boot, Status, Resumable
  <2> QED BY <1>6, <2>1 DEF TypeOK, Boot
<1> QED BY <1>1, <1>2, <1>3, <1>4, <1>5, <1>6 DEF ProcessStep

\* Every step keeps the types.
LEMMA TypeStep == TypeOK /\ [Next]_vars => TypeOK'
<1> SUFFICES ASSUME TypeOK, [Next]_vars PROVE TypeOK' OBVIOUS
<1>1. CASE UNCHANGED vars
  BY <1>1 DEF TypeOK, vars
<1>2. CASE BookRefreshed
  BY <1>2 DEF TypeOK, BookRefreshed
<1>3. CASE BookExpires
  BY <1>3 DEF TypeOK, BookExpires
<1> QED BY <1>1, <1>2, <1>3, TypeStart, TypeControl, TypeSettle, TypeProcess DEF Next

\* The state of every engine is well typed, whatever its bounds, its callers and its crashes.
THEOREM TypeCorrect == Spec => []TypeOK
  BY TypeInit, TypeStep, PTL DEF Spec

-----------------------------------------------------------------------------
(* The invariant.                                                          *)

\* Nothing that concerns run q has changed.
SameRun(q) ==
    /\ row'[q] = row[q] /\ starting'[q] = starting[q] /\ cur'[q] = cur[q]
    /\ status'[q] = status[q] /\ substitute'[q] = substitute[q]
    /\ exec'[q] = exec[q] /\ owner'[q] = owner[q] /\ child'[q] = child[q]
    /\ waiting'[q] = waiting[q]

\* A run a step does not touch stays consistent, unless the process goes down.
LEMMA Untouched ==
  ASSUME NEW q \in Runs, RunConsistent(q), SameRun(q), proc' = proc \/ proc' # "down"
  PROVE  RunConsistent(q)'
<1>1. StartConsistent(q)'
  BY DEF RunConsistent, StartConsistent, SameRun
<1>2. EntryConsistent(q)'
  BY DEF RunConsistent, EntryConsistent, SameRun
<1>3. RequestConsistent(q)'
  BY DEF RunConsistent, RequestConsistent, SameRun
<1>4. ChildConsistent(q)'
  BY DEF RunConsistent, ChildConsistent, SameRun
<1>5. DownConsistent(q)'
  BY DEF RunConsistent, DownConsistent, SameRun
<1> QED BY <1>1, <1>2, <1>3, <1>4, <1>5 DEF RunConsistent

\* Every step of start() keeps every run consistent.
LEMMA StartKeeps ==
  ASSUME Consistent, NEW r \in Runs, Start(r)
  PROVE  \A q \in Runs : RunConsistent(q)'
<1> USE DEF Consistent
<1>1. \A q \in Runs \ {r} : SameRun(q)
  <2>1. CASE StartAdmit(r)
    BY <2>1 DEF StartAdmit, SameRun, TypeOK
  <2>2. CASE StartRefused(r)
    BY <2>2 DEF StartRefused, SameRun, TypeOK
  <2>3. CASE StartFetch(r)
    BY <2>3 DEF StartFetch, SameRun, TypeOK
  <2>4. CASE StartThrows(r)
    BY <2>4 DEF StartThrows, SameRun, TypeOK
  <2>5. ASSUME NEW k \in EntryIds, NEW e \in ExecIds, StartLaunch(r, k, e)
        PROVE  \A q \in Runs \ {r} : SameRun(q)
    BY <2>5 DEF StartLaunch, SetRow, RunLive, NeverLive, SameRun, TypeOK
  <2>6. ASSUME NEW k \in EntryIds, StartSeedFailed(r, k)
        PROVE  \A q \in Runs \ {r} : SameRun(q)
    BY <2>6 DEF StartSeedFailed, RecordAndFail, SetRow, SameRun, TypeOK
  <2> QED BY <2>1, <2>2, <2>3, <2>4, <2>5, <2>6 DEF Start
<1>2. proc' = proc /\ proc # "down"
  BY DEF Start, StartAdmit, StartRefused, StartFetch, StartThrows, StartLaunch, StartSeedFailed
<1>3. cur[r] = 0 /\ row[r] \in {"none", "queued"}
  BY DEF Start, StartAdmit, StartRefused, StartFetch, StartThrows, StartLaunch, StartSeedFailed,
         RunConsistent, StartConsistent, TypeOK
<1>4. \A c \in Callers : waiting[r][c] = NoRequest
  BY <1>3, RequestType DEF RunConsistent, RequestConsistent, Resumable
<1>5. \A k \in EntryIds : status[r][k] = "free"
  BY <1>3, IdsAssumption DEF RunConsistent, EntryConsistent
<1>6. \A e \in ExecIds : child[r][e] # "alive"
  BY <1>3 DEF RunConsistent, ChildConsistent
<1>7. \A e \in ExecIds : child[r][e] # "free" => owner[r][e] \in EntryIds
  BY DEF RunConsistent, ChildConsistent
<1>8. StartConsistent(r)'
  BY <1>3 DEF Start, StartAdmit, StartRefused, StartFetch, StartThrows, StartLaunch, StartSeedFailed,
         RunConsistent, StartConsistent, TypeOK, SetRow, RecordAndFail
<1>9. EntryConsistent(r)'
  BY <1>3, <1>5 DEF Start, StartAdmit, StartRefused, StartFetch, StartThrows, StartLaunch, StartSeedFailed,
         EntryConsistent, TypeOK, SetRow, RecordAndFail, Terminal
<1>10. RequestConsistent(r)'
  BY <1>4 DEF Start, StartAdmit, StartRefused, StartFetch, StartThrows, StartLaunch, StartSeedFailed,
         RequestConsistent
<1>11. ChildConsistent(r)'
  <2>1. CASE UNCHANGED <<owner, child>>
    BY <1>6, <1>7, <2>1 DEF ChildConsistent
  <2>2. ASSUME NEW k \in EntryIds, NEW e \in ExecIds, StartLaunch(r, k, e), RunLive(r, k, e)
        PROVE  ChildConsistent(r)'
    <3>1. cur'[r] = k /\ status'[r][k] = "running" /\ k # 0
      BY <2>2, IdsAssumption DEF StartLaunch, TypeOK
    <3>2. exec'[r][k] = e /\ owner'[r][e] = k
      BY <2>2 DEF RunLive, TypeOK
    <3>3. \A f \in ExecIds \ {e} : child'[r][f] = child[r][f] /\ owner'[r][f] = owner[r][f]
      BY <2>2 DEF RunLive, TypeOK
    <3> QED BY <1>6, <1>7, <3>1, <3>2, <3>3 DEF ChildConsistent
  <2> QED
    BY <2>1, <2>2 DEF Start, StartAdmit, StartRefused, StartFetch, StartThrows, StartLaunch,
                      StartSeedFailed, NeverLive
<1>12. DownConsistent(r)'
  BY <1>2 DEF DownConsistent
<1> QED BY <1>1, <1>2, <1>8, <1>9, <1>10, <1>11, <1>12, Untouched DEF RunConsistent

\* A run that has no entry has no entry object, no live child, and no start() under way.
LEMMA NoEntry ==
  ASSUME Consistent, NEW r \in Runs, cur[r] = 0, row[r] \in Resumable
  PROVE  /\ \A k \in EntryIds : status[r][k] = "free"
         /\ \A e \in ExecIds : child[r][e] # "alive"
         /\ starting[r] = "no"
<1>1. \A k \in EntryIds : status[r][k] = "free"
  BY IdsAssumption DEF Consistent, RunConsistent, EntryConsistent
<1>2. \A e \in ExecIds : child[r][e] # "alive"
  BY DEF Consistent, RunConsistent, ChildConsistent
<1>3. starting[r] = "no"
  BY DEF Consistent, RunConsistent, StartConsistent, TypeOK, Resumable
<1> QED BY <1>1, <1>2, <1>3

\* A new execution of the entry in _runs is the only live one of its run.
LEMMA RunLiveKeeps ==
  ASSUME Consistent, NEW r \in Runs, NEW k \in EntryIds, NEW e \in ExecIds, RunLive(r, k, e),
         \A f \in ExecIds : child[r][f] # "alive",
         cur'[r] = k, status'[r][k] = "running"
  PROVE  ChildConsistent(r)'
<1>1. \A f \in ExecIds : child[r][f] # "free" => owner[r][f] \in EntryIds
  BY DEF Consistent, RunConsistent, ChildConsistent
<1>2. exec'[r][k] = e /\ owner'[r][e] = k /\ k # 0
  BY IdsAssumption DEF RunLive, Consistent, TypeOK
<1>3. \A f \in ExecIds \ {e} : child'[r][f] = child[r][f] /\ owner'[r][f] = owner[r][f]
  BY DEF RunLive, Consistent, TypeOK
<1> QED BY <1>1, <1>2, <1>3 DEF ChildConsistent

\* Where no child is alive and none appears, entries may change as they like.
LEMMA QuietKeeps ==
  ASSUME Consistent, NEW r \in Runs, UNCHANGED <<owner, child>>,
         \A f \in ExecIds : child[r][f] # "alive"
  PROVE  ChildConsistent(r)'
  BY DEF Consistent, RunConsistent, ChildConsistent

\* Serving a request on a run that has no entry leaves it consistent, and no other run touched.
LEMMA ServeKeeps ==
  ASSUME Consistent, NEW r \in Runs, NEW op \in Ops, cur[r] = 0, row[r] \in Resumable,
         Serve(r, op, row[r]) \/ RehydrationRefused,
         UNCHANGED <<proc, starting>>, proc # "down",
         \A c \in Callers : waiting'[r][c] = NoRequest,
         \A q \in Runs \ {r} : waiting'[q] = waiting[q]
  PROVE  \A q \in Runs : RunConsistent(q)'
<1> USE DEF Consistent
<1>1. \A k \in EntryIds : status[r][k] = "free"
  BY NoEntry
<1>2. \A e \in ExecIds : child[r][e] # "alive"
  BY NoEntry
<1>3. starting'[r] = "no"
  BY NoEntry
<1>4. RequestConsistent(r)'
  BY DEF RequestConsistent
<1>5. DownConsistent(r)'
  BY DEF DownConsistent
<1>6. row'[r] # "none" => StartConsistent(r)'
  BY <1>3 DEF StartConsistent
<1>7. ASSUME NEW k \in EntryIds, RehydratedStop(r, k)
      PROVE  RunConsistent(r)' /\ \A q \in Runs \ {r} : SameRun(q)
  <2>1. EntryConsistent(r)' /\ row'[r] # "none"
    BY <1>1, <1>7 DEF RehydratedStop, Transition, SetRow, EntryConsistent, TypeOK, Terminal, Resumable
  <2>2. ChildConsistent(r)'
    BY <1>2, <1>7, QuietKeeps DEF RehydratedStop, NeverLive
  <2>3. \A q \in Runs \ {r} : SameRun(q)
    BY <1>7 DEF RehydratedStop, Rehydrate, NeverLive, Transition, SetRow, SameRun, TypeOK
  <2> QED BY <1>4, <1>5, <1>6, <2>1, <2>2, <2>3 DEF RunConsistent
<1>8. ASSUME NEW k \in EntryIds, NEW e \in ExecIds, RehydratedResume(r, k, e)
      PROVE  RunConsistent(r)' /\ \A q \in Runs \ {r} : SameRun(q)
  <2>1. /\ cur'[r] = k /\ k # 0
        /\ status'[r] = [status[r] EXCEPT ![k] = "running"]
        /\ ~substitute'[r][k]
        /\ row'[r] \in {row[r], "running"}
    <3>1. cur'[r] = k /\ k # 0
      BY <1>8, IdsAssumption DEF RehydratedResume, TypeOK
    <3>2. status'[r] = [status[r] EXCEPT ![k] = "running"]
      BY <1>8 DEF RehydratedResume, ResumeEntry, TypeOK
    <3>3. row'[r] \in {row[r], "running"}
      BY <1>8 DEF RehydratedResume, ResumeEntry, SetRow, TypeOK
    <3>4. ~substitute'[r][k]
      BY <1>8 DEF RehydratedResume, Rehydrate, TypeOK
    <3> QED BY <3>1, <3>2, <3>3, <3>4
  <2>2. EntryConsistent(r)' /\ row'[r] # "none"
    BY <1>1, <2>1 DEF EntryConsistent, TypeOK, Terminal, Resumable
  <2>3. ChildConsistent(r)'
    <3>1. CASE RunLive(r, k, e)
      BY <1>2, <2>1, <3>1, RunLiveKeeps DEF TypeOK
    <3>2. CASE NeverLive(r, k)
      BY <1>2, <3>2, QuietKeeps DEF NeverLive
    <3> QED BY <1>8, <3>1, <3>2 DEF RehydratedResume, ResumeEntry
  <2>4. \A q \in Runs \ {r} : SameRun(q)
    BY <1>8 DEF RehydratedResume, ResumeEntry, Rehydrate, RunLive, NeverLive, SetRow, SameRun, TypeOK
  <2> QED BY <1>4, <1>5, <1>6, <2>2, <2>3, <2>4 DEF RunConsistent
<1>9. ASSUME NEW k \in EntryIds, RehydratedRefusal(r, k, op, row[r])
      PROVE  RunConsistent(r)' /\ \A q \in Runs \ {r} : SameRun(q)
  <2>1. EntryConsistent(r)' /\ row'[r] # "none"
    BY <1>1, <1>9 DEF RehydratedRefusal, EntryConsistent, TypeOK, Terminal, Resumable
  <2>2. ChildConsistent(r)'
    BY <1>2, <1>9, QuietKeeps DEF RehydratedRefusal, NeverLive
  <2>3. \A q \in Runs \ {r} : SameRun(q)
    BY <1>9 DEF RehydratedRefusal, Rehydrate, NeverLive, SameRun, TypeOK
  <2> QED BY <1>4, <1>5, <1>6, <2>1, <2>2, <2>3 DEF RunConsistent
<1>10. CASE RehydratedDrop(r, op) \/ RehydrationRefused
  <2>1. /\ cur'[r] = 0 /\ \A q \in Runs \ {r} : cur'[q] = cur[q]
        /\ UNCHANGED <<row, status, substitute, exec, owner, child>>
    BY <1>10 DEF RehydratedDrop, RehydrationRefused, TypeOK
  <2>2. EntryConsistent(r)' /\ row'[r] # "none"
    BY <1>1, <2>1 DEF EntryConsistent, Resumable
  <2>3. ChildConsistent(r)'
    BY <1>2, <2>1, QuietKeeps
  <2>4. \A q \in Runs \ {r} : SameRun(q)
    BY <2>1 DEF SameRun
  <2>5. RunConsistent(r)'
    BY <1>4, <1>5, <1>6, <2>2, <2>3 DEF RunConsistent
  <2> QED BY <2>4, <2>5, Untouched
<1> QED BY <1>7, <1>8, <1>9, <1>10, Untouched DEF Serve

\* What a request on a run in _runs finds: nobody waits, and no start() is under way.
LEMMA InRuns ==
  ASSUME Consistent, NEW r \in Runs, Cached(r)
  PROVE  /\ cur[r] \in EntryIds /\ starting[r] = "no" /\ proc # "down" /\ row[r] # "none"
         /\ \A c \in Callers : waiting[r][c] = NoRequest
         /\ \A k \in EntryIds \ {cur[r]} : status[r][k] = "free"
<1>1. cur[r] \in EntryIds /\ cur[r] # 0 /\ proc # "down"
  BY DEF Cached, Consistent, TypeOK
<1>2. starting[r] = "no" /\ row[r] # "none"
  BY <1>1 DEF Consistent, RunConsistent, StartConsistent
<1>3. \A c \in Callers : waiting[r][c] = NoRequest
  BY <1>1 DEF Consistent, RunConsistent, RequestConsistent
<1>4. \A k \in EntryIds \ {cur[r]} : status[r][k] = "free"
  BY DEF Consistent, RunConsistent, EntryConsistent
<1> QED BY <1>1, <1>2, <1>3, <1>4

\* Ending the execution of the entry in _runs leaves no live child of the run.
LEMMA KilledKeeps ==
  ASSUME Consistent, NEW r \in Runs, cur[r] # 0, child'[r] = Killed(r, cur[r])[r], UNCHANGED owner
  PROVE  ChildConsistent(r)' /\ \A e \in ExecIds : child'[r][e] # "alive"
<1>1. \A e \in ExecIds : child'[r][e] \in {child[r][e], "killed"} /\ child'[r][e] # "alive"
                          /\ (child'[r][e] = "killed" => child[r][e] # "free")
  BY DEF Killed, Consistent, RunConsistent, ChildConsistent, TypeOK
<1> QED BY <1>1 DEF ChildConsistent, Consistent, RunConsistent

\* Every control request keeps every run consistent, when they come one at a time.
LEMMA ControlKeeps ==
  ASSUME SerialControl, Consistent, NEW r \in Runs, Control(r)
  PROVE  \A q \in Runs : RunConsistent(q)'
<1> USE DEF Consistent
<1>1. CASE SuspendCached(r)
  <2>1. \A q \in Runs \ {r} : SameRun(q)
    BY <1>1 DEF SuspendCached, Transition, SetRow, Killed, SameRun, TypeOK
  <2>2. Cached(r) /\ status[r][cur[r]] = "running"
    BY <1>1 DEF SuspendCached
  <2>3. /\ cur'[r] = cur[r] /\ starting'[r] = "no" /\ row'[r] \in {row[r], "suspended"}
        /\ proc' = proc /\ UNCHANGED <<waiting, owner>> /\ child'[r] = Killed(r, cur[r])[r]
        /\ status'[r] = [status[r] EXCEPT ![cur[r]] = "suspended"]
    BY <1>1, <2>2, InRuns DEF SuspendCached, Transition, SetRow, TypeOK
  <2>4. StartConsistent(r)' /\ RequestConsistent(r)' /\ DownConsistent(r)'
    BY <2>2, <2>3, InRuns DEF StartConsistent, RequestConsistent, DownConsistent
  <2>5. EntryConsistent(r)'
    BY <2>2, <2>3, InRuns DEF EntryConsistent, TypeOK, Terminal, RunConsistent
  <2>6. ChildConsistent(r)'
    BY <2>2, <2>3, InRuns, KilledKeeps DEF Cached
  <2> QED BY <2>1, <2>3, <2>4, <2>5, <2>6, Untouched DEF RunConsistent
<1>2. CASE StopCached(r)
  <2>1. \A q \in Runs \ {r} : SameRun(q)
    BY <1>2 DEF StopCached, Transition, SetRow, Killed, SameRun, TypeOK
  <2>2. Cached(r) /\ status[r][cur[r]] \notin Terminal
    BY <1>2 DEF StopCached
  <2>3. /\ cur'[r] = cur[r] /\ starting'[r] = "no" /\ row'[r] \in {row[r], "stopped"}
        /\ proc' = proc /\ UNCHANGED <<waiting, owner>> /\ child'[r] = Killed(r, cur[r])[r]
        /\ status'[r] = [status[r] EXCEPT ![cur[r]] = "stopped"]
    BY <1>2, <2>2, InRuns DEF StopCached, Transition, SetRow, TypeOK
  <2>4. StartConsistent(r)' /\ RequestConsistent(r)' /\ DownConsistent(r)'
    BY <2>2, <2>3, InRuns DEF StartConsistent, RequestConsistent, DownConsistent
  <2>5. EntryConsistent(r)'
    BY <2>2, <2>3, InRuns DEF EntryConsistent, TypeOK, Terminal, RunConsistent
  <2>6. ChildConsistent(r)'
    BY <2>2, <2>3, InRuns, KilledKeeps DEF Cached
  <2> QED BY <2>1, <2>3, <2>4, <2>5, <2>6, Untouched DEF RunConsistent
<1>3. CASE ResumeDropped(r)
  <2>1. \A q \in Runs \ {r} : SameRun(q)
    BY <1>3 DEF ResumeDropped, SameRun, TypeOK
  <2>2. Cached(r) /\ substitute[r][cur[r]]
    BY <1>3 DEF ResumeDropped
  <2>3. /\ cur'[r] = 0 /\ starting'[r] = "no" /\ row'[r] = row[r]
        /\ proc' = proc /\ UNCHANGED <<waiting, owner, child>>
        /\ status'[r] = [status[r] EXCEPT ![cur[r]] = "free"]
    BY <1>3, <2>2, InRuns DEF ResumeDropped, TypeOK
  <2>4. StartConsistent(r)' /\ RequestConsistent(r)' /\ DownConsistent(r)'
    BY <2>2, <2>3, InRuns DEF StartConsistent, RequestConsistent, DownConsistent
  <2>5. EntryConsistent(r)'
    BY <2>2, <2>3, InRuns DEF EntryConsistent, TypeOK
  <2>6. \A e \in ExecIds : child[r][e] # "alive"
    BY <2>2 DEF Cached, RunConsistent, EntryConsistent, ChildConsistent
  <2>7. ChildConsistent(r)'
    BY <2>3, <2>6, QuietKeeps
  <2> QED BY <2>1, <2>3, <2>4, <2>5, <2>7, Untouched DEF RunConsistent
<1>4. ASSUME NEW e \in ExecIds, ResumeCached(r, e)
      PROVE  \A q \in Runs : RunConsistent(q)'
  <2>1. \A q \in Runs \ {r} : SameRun(q)
    BY <1>4 DEF ResumeCached, ResumeEntry, RunLive, NeverLive, SetRow, SameRun, TypeOK
  <2>2. Cached(r) /\ status[r][cur[r]] \in Resumable /\ ~substitute[r][cur[r]]
    BY <1>4 DEF ResumeCached
  <2>3. /\ cur'[r] = cur[r] /\ starting'[r] = "no" /\ row'[r] \in {row[r], "running"}
        /\ proc' = proc /\ UNCHANGED <<waiting, substitute>>
        /\ status'[r] = [status[r] EXCEPT ![cur[r]] = "running"]
    BY <1>4, <2>2, InRuns DEF ResumeCached, ResumeEntry, SetRow, TypeOK
  <2>4. StartConsistent(r)' /\ RequestConsistent(r)' /\ DownConsistent(r)'
    BY <2>2, <2>3, InRuns DEF StartConsistent, RequestConsistent, DownConsistent
  <2>5. row[r] \notin Terminal
    BY <2>2 DEF Cached, RunConsistent, EntryConsistent, Terminal, Resumable
  <2>6. EntryConsistent(r)'
    BY <2>2, <2>3, <2>5, InRuns DEF EntryConsistent, TypeOK, Terminal
  <2>7. \A f \in ExecIds : child[r][f] # "alive"
    BY <2>2 DEF RunConsistent, ChildConsistent, Resumable
  <2>8. ChildConsistent(r)'
    <3>1. cur[r] \in EntryIds /\ status'[r][cur[r]] = "running"
      BY <2>2, <2>3, InRuns DEF TypeOK
    <3>2. CASE RunLive(r, cur[r], e)
      BY <2>3, <2>7, <3>1, <3>2, RunLiveKeeps
    <3>3. CASE NeverLive(r, cur[r])
      BY <2>7, <3>3, QuietKeeps DEF NeverLive
    <3> QED BY <1>4, <3>2, <3>3 DEF ResumeCached, ResumeEntry
  <2> QED BY <2>1, <2>3, <2>4, <2>6, <2>8, Untouched DEF RunConsistent
<1>5. ASSUME NEW c \in Callers, NEW op \in Ops, Ask(r, c, op)
      PROVE  \A q \in Runs : RunConsistent(q)'
  <2>1. \A q \in Runs \ {r} : SameRun(q)
    BY <1>5 DEF Ask, SameRun, TypeOK
  <2>2. /\ cur[r] = 0 /\ proc # "down"
        /\ UNCHANGED <<proc, row, starting, cur, status, substitute, exec, owner, child>>
    BY <1>5 DEF Ask, Uncached
  <2>3. RequestConsistent(r)'
    BY <1>5, <2>2 DEF Ask, RequestConsistent, RunConsistent, TypeOK
  <2>4. StartConsistent(r)' /\ EntryConsistent(r)' /\ ChildConsistent(r)' /\ DownConsistent(r)'
    BY <2>2 DEF RunConsistent, StartConsistent, EntryConsistent, ChildConsistent, DownConsistent
  <2> QED BY <2>1, <2>2, <2>3, <2>4, Untouched DEF RunConsistent
<1>6. ASSUME NEW c \in Callers, NEW op \in Ops, ServeAtOnce(r, c, op)
      PROVE  \A q \in Runs : RunConsistent(q)'
  <2>1. \A d \in Callers : waiting[r][d] = NoRequest
    BY <1>6 DEF ServeAtOnce, Uncached, SerialControl
  <2> QED BY <1>6, <2>1, ServeKeeps DEF ServeAtOnce, Uncached
<1>7. ASSUME NEW c \in Callers, ServeWaiting(r, c)
      PROVE  \A q \in Runs : RunConsistent(q)'
  <2>1. waiting[r][c].op \in Ops /\ waiting[r][c].seen \in Resumable
    BY <1>7, RequestType DEF ServeWaiting
  <2>2. cur[r] = 0 /\ row[r] = waiting[r][c].seen
    BY <1>7 DEF ServeWaiting, RunConsistent, RequestConsistent
  <2>3. \A d \in Callers : waiting'[r][d] = NoRequest
    BY <1>7 DEF ServeWaiting, SerialControl, TypeOK
  <2>4. \A q \in Runs \ {r} : waiting'[q] = waiting[q]
    BY <1>7 DEF ServeWaiting, TypeOK
  <2> QED BY <1>7, <2>1, <2>2, <2>3, <2>4, ServeKeeps DEF ServeWaiting
<1> QED BY <1>1, <1>2, <1>3, <1>4, <1>5, <1>6, <1>7 DEF Control

\* Settling an execution keeps every run consistent.
LEMMA SettleKeeps ==
  ASSUME Consistent, NEW r \in Runs, NEW e \in ExecIds, Settle(r, e)
  PROVE  \A q \in Runs : RunConsistent(q)'
<1> USE DEF Consistent
<1>1. \A q \in Runs \ {r} : SameRun(q)
  BY DEF Settle, SettleIgnored, SettleResult, SettleError, Gone, Transition, RecordAndFail, SetRow,
         SameRun, TypeOK
<1>2. /\ child[r][e] # "free" /\ owner[r][e] \in EntryIds
      /\ child'[r] = [child[r] EXCEPT ![e] = "free"]
      /\ proc' = proc /\ proc # "down"
      /\ UNCHANGED <<starting, cur, substitute, exec, owner, waiting>>
  <2>1. /\ child[r][e] # "free" /\ Gone(r, e)
        /\ proc' = proc /\ proc # "down"
        /\ UNCHANGED <<starting, cur, substitute, exec, owner, waiting>>
    BY DEF Settle, SettleIgnored, SettleResult, SettleError
  <2>2. owner[r][e] \in EntryIds
    BY <2>1 DEF RunConsistent, ChildConsistent
  <2>3. child'[r] = [child[r] EXCEPT ![e] = "free"]
    BY <2>1 DEF Gone, TypeOK
  <2> QED BY <2>1, <2>2, <2>3
<1>3. CASE UNCHANGED <<row, status>>
  <2>1. StartConsistent(r)' /\ EntryConsistent(r)' /\ RequestConsistent(r)' /\ DownConsistent(r)'
    BY <1>2, <1>3 DEF RunConsistent, StartConsistent, EntryConsistent, RequestConsistent,
                      DownConsistent
  <2>2. \A f \in ExecIds : child'[r][f] \in {child[r][f], "free"}
    BY <1>2 DEF TypeOK
  <2>3. ChildConsistent(r)'
    BY <1>2, <1>3, <2>2 DEF RunConsistent, ChildConsistent
  <2> QED BY <1>1, <1>2, <2>1, <2>3, Untouched DEF RunConsistent
<1>4. ASSUME NEW s \in Terminal, MaySettle(r, e), row'[r] \in {row[r], s},
             status'[r] = [status[r] EXCEPT ![owner[r][e]] = s]
      PROVE  \A q \in Runs : RunConsistent(q)'
  <2>1. /\ cur[r] = owner[r][e] /\ cur[r] \in EntryIds /\ cur[r] # 0
        /\ exec[r][cur[r]] = e /\ status[r][cur[r]] = "running"
    BY <1>2, <1>4, IdsAssumption DEF MaySettle, RunConsistent, EntryConsistent
  <2>2. row[r] \notin Terminal /\ row[r] # "none" /\ starting[r] = "no"
    BY <2>1 DEF RunConsistent, EntryConsistent, StartConsistent, Terminal
  <2>3. \A c \in Callers : waiting[r][c] = NoRequest
    BY <2>1 DEF RunConsistent, RequestConsistent
  <2>4. StartConsistent(r)' /\ RequestConsistent(r)' /\ DownConsistent(r)'
    BY <1>2, <1>4, <2>2, <2>3
       DEF StartConsistent, RequestConsistent, DownConsistent, Terminal
  <2>5. EntryConsistent(r)'
    BY <1>2, <1>4, <2>1, <2>2 DEF RunConsistent, EntryConsistent, TypeOK, Terminal
  <2>6. \A f \in ExecIds : child'[r][f] # "alive"
    BY <1>2, <2>1 DEF RunConsistent, ChildConsistent, TypeOK
  <2>7. ChildConsistent(r)'
    BY <1>2, <2>6 DEF RunConsistent, ChildConsistent, TypeOK
  <2> QED BY <1>1, <1>2, <2>4, <2>5, <2>7, Untouched DEF RunConsistent
<1>5. CASE SettleResult(r, e)
  BY <1>3, <1>4, <1>5 DEF SettleResult, Transition, SetRow, Terminal, TypeOK
<1>6. ASSUME NEW code \in {"SCRIPT", "ABORTED"}, SettleError(r, e, code)
      PROVE  \A q \in Runs : RunConsistent(q)'
  BY <1>4, <1>6 DEF SettleError, RecordAndFail, SetRow, Terminal, TypeOK
<1> QED BY <1>3, <1>5, <1>6 DEF Settle, SettleIgnored

\* The end of a process leaves nothing of a run but its row.
LEMMA LostKeeps ==
  ASSUME LoseMemory, NEW r \in Runs
  PROVE  RunConsistent(r)'
<1>1. /\ starting'[r] = "no" /\ cur'[r] = 0
      /\ \A k \in EntryIds : status'[r][k] = "free"
      /\ \A c \in Callers : waiting'[r][c] = NoRequest
      /\ \A e \in ExecIds : child'[r][e] = "free"
  BY DEF LoseMemory, Every
<1> QED
  BY <1>1 DEF RunConsistent, StartConsistent, EntryConsistent, RequestConsistent, ChildConsistent,
              DownConsistent

\* Crashes, shutdown and boot keep every run consistent.
LEMMA ProcessKeeps ==
  ASSUME Consistent, ProcessStep
  PROVE  \A q \in Runs : RunConsistent(q)'
<1> USE DEF Consistent
<1>1. CASE LoseMemory
  BY <1>1, LostKeeps
<1>2. CASE Shutdown
  <2> SUFFICES ASSUME NEW r \in Runs PROVE RunConsistent(r)' OBVIOUS
  <2>1. StartConsistent(r)' /\ EntryConsistent(r)' /\ RequestConsistent(r)' /\ DownConsistent(r)'
    BY <1>2 DEF Shutdown, RunConsistent, StartConsistent, EntryConsistent, RequestConsistent,
                DownConsistent
  <2>2. CASE cur[r] # 0 /\ status[r][cur[r]] = "running"
    <3>1. child'[r] = Killed(r, cur[r])[r] /\ UNCHANGED owner
      BY <1>2, <2>2 DEF Shutdown
    <3>2. ChildConsistent(r)'
      BY <2>2, <3>1, KilledKeeps
    <3> QED BY <2>1, <3>2 DEF RunConsistent
  <2>3. CASE ~(cur[r] # 0 /\ status[r][cur[r]] = "running")
    <3>1. child'[r] = child[r] /\ UNCHANGED <<owner, exec, cur, status>>
      BY <1>2, <2>3 DEF Shutdown
    <3>2. ChildConsistent(r)'
      BY <3>1 DEF RunConsistent, ChildConsistent
    <3> QED BY <2>1, <3>2 DEF RunConsistent
  <2> QED BY <2>2, <2>3
<1>3. CASE Boot
  <2> SUFFICES ASSUME NEW r \in Runs PROVE RunConsistent(r)' OBVIOUS
  <2>1. /\ cur[r] = 0 /\ starting[r] = "no" /\ UNCHANGED memory
        /\ \A c \in Callers : waiting[r][c] = NoRequest
    BY <1>3 DEF Boot, RunConsistent, DownConsistent
  <2>2. ChildConsistent(r)' /\ DownConsistent(r)'
    BY <1>3, <2>1 DEF Boot, RunConsistent, ChildConsistent, DownConsistent
  <2>3. StartConsistent(r)' /\ EntryConsistent(r)' /\ RequestConsistent(r)'
    BY <2>1 DEF RunConsistent, StartConsistent, EntryConsistent, RequestConsistent
  <2> QED BY <2>2, <2>3 DEF RunConsistent
<1> QED
  BY <1>1, <1>2, <1>3 DEF ProcessStep, Crash, Exit, CrashAfterCreate, CrashAfterRecord

\* The initial state is consistent.
LEMMA ConsistentInit == Init => Consistent
<1> SUFFICES ASSUME Init, NEW r \in Runs PROVE RunConsistent(r)
  BY TypeInit DEF Consistent
<1>1. /\ starting[r] = "no" /\ cur[r] = 0 /\ proc = "up"
      /\ \A k \in EntryIds : status[r][k] = "free"
      /\ \A c \in Callers : waiting[r][c] = NoRequest
      /\ \A e \in ExecIds : child[r][e] = "free"
  BY DEF Init, Every
<1> QED
  BY <1>1 DEF RunConsistent, StartConsistent, EntryConsistent, RequestConsistent, ChildConsistent,
              DownConsistent

\* The invariant is inductive.
LEMMA ConsistentStep ==
  ASSUME SerialControl
  PROVE  Consistent /\ [Next]_vars => Consistent'
<1> SUFFICES ASSUME Consistent, [Next]_vars PROVE \A q \in Runs : RunConsistent(q)'
  BY TypeStep DEF Consistent
<1>1. CASE UNCHANGED vars
  BY <1>1, Untouched DEF vars, SameRun, Consistent
<1>2. CASE BookRefreshed
  BY <1>2, Untouched DEF BookRefreshed, SameRun, Consistent
<1>3. CASE BookExpires
  BY <1>3, Untouched DEF BookExpires, SameRun, Consistent
<1> QED BY <1>1, <1>2, <1>3, StartKeeps, ControlKeeps, SettleKeeps, ProcessKeeps DEF Next

\* Every reachable state of an engine with serial control is consistent.
THEOREM AlwaysConsistent == ASSUME SerialControl PROVE Spec => []Consistent
  BY ConsistentInit, ConsistentStep, PTL DEF Spec

\* A run has at most one live execution, and it belongs to the entry _runs holds.
THEOREM OneExecution == ASSUME SerialControl PROVE Spec => []SingleExecution
<1>1. Consistent => SingleExecution
  BY DEF Consistent, RunConsistent, ChildConsistent, SingleExecution, Alive
<1> QED BY <1>1, AlwaysConsistent, PTL

\* No step takes a run out of a terminal status, whatever fails and whenever the process dies.
THEOREM TerminalStays == ASSUME SerialControl PROVE Spec => TerminalIsFinal
<1>1. Consistent /\ [Next]_vars
        => [\A r \in Runs : row[r] \in Terminal => row'[r] = row[r]]_vars
  <2> SUFFICES ASSUME Consistent, Next, NEW r \in Runs, row[r] \in Terminal
               PROVE  row'[r] = row[r]
    BY DEF vars
  <2> USE DEF Consistent
  <2>1. ASSUME NEW q \in Runs, Start(q) PROVE row'[r] = row[r]
    <3>1. row[q] \in {"none", "queued"}
      BY <2>1 DEF Start, StartAdmit, StartRefused, StartFetch, StartThrows, StartLaunch,
                  StartSeedFailed, RunConsistent, StartConsistent, TypeOK
    <3> QED
      BY <2>1, <3>1 DEF Start, StartAdmit, StartRefused, StartFetch, StartThrows, StartLaunch,
                        StartSeedFailed, RecordAndFail, SetRow, TypeOK, Terminal
  <2>2. ASSUME NEW q \in Runs, Control(q) PROVE row'[r] = row[r]
    <3>1. CASE row[q] \in Terminal
      <4>1. \A c \in Callers : waiting[q][c] = NoRequest
        BY <3>1, RequestType DEF RunConsistent, RequestConsistent, Terminal, Resumable
      <4>2. cur[q] # 0 => status[q][cur[q]] \in Terminal
        BY <3>1 DEF RunConsistent, EntryConsistent
      <4> QED
        BY <2>2, <3>1, <4>1, <4>2
           DEF Control, Cached, SuspendCached, StopCached, ResumeDropped, ResumeCached, Ask, Uncached,
               ServeAtOnce, ServeWaiting, Terminal, Resumable
    <3>2. CASE row[q] \notin Terminal
      <4>1. q # r
        BY <3>2
      <4> QED
        BY <2>2, <4>1
           DEF Control, SuspendCached, StopCached, ResumeDropped, ResumeCached, ResumeEntry, Ask,
               ServeAtOnce, ServeWaiting, Serve, RehydratedStop, RehydratedResume,
               RehydratedRefusal, RehydratedDrop, RehydrationRefused, Transition, SetRow, TypeOK
    <3> QED BY <3>1, <3>2
  <2>3. ASSUME NEW q \in Runs, NEW e \in ExecIds, Settle(q, e) PROVE row'[r] = row[r]
    <3>1. CASE q # r
      BY <2>3, <3>1 DEF Settle, SettleIgnored, SettleResult, SettleError, Transition, RecordAndFail,
                        SetRow, TypeOK
    <3>2. CASE q = r
      <4>1. ~MaySettle(r, e) \/ child[r][e] = "free"
        BY IdsAssumption DEF MaySettle, RunConsistent, EntryConsistent, ChildConsistent, Terminal
      <4> QED BY <2>3, <3>2, <4>1 DEF Settle, SettleIgnored, SettleResult, SettleError
    <3> QED BY <3>1, <3>2
  <2>4. CASE ProcessStep
    BY <2>4 DEF ProcessStep, Crash, Shutdown, Exit, Boot, CrashAfterCreate, CrashAfterRecord,
                RunConsistent, StartConsistent, TypeOK, Terminal
  <2>5. CASE BookRefreshed \/ BookExpires
    BY <2>5 DEF BookRefreshed, BookExpires
  <2> QED BY <2>1, <2>2, <2>3, <2>4, <2>5 DEF Next
<1> QED BY <1>1, AlwaysConsistent, PTL DEF Spec, TerminalIsFinal

-----------------------------------------------------------------------------
(* Engines whose store does not throw.                                     *)

StoreWorks == MaxFaults = 0

\* No write is thrown.
LEMMA NothingThrown ==
  ASSUME StoreWorks, TypeOK
  PROVE  ~Thrown
<1>1. faults \in 0..0
  BY DEF TypeOK, StoreWorks
<1> QED BY <1>1 DEF Thrown, StoreWorks

\* The value or the reason of every run that ended is there, run by run.
Recorded(r) ==
    /\ row[r] = "completed" => result[r]
    /\ row[r] = "failed" => error[r] # "none"

\* A step that keeps what is recorded, and makes no run completed or failed.
LEMMA NotEnded ==
  ASSUME NEW q, Recorded(q), result[q] => result'[q], error[q] # "none" => error'[q] # "none",
         row'[q] = row[q] \/ row'[q] \notin {"completed", "failed"}
  PROVE  Recorded(q)'
  BY DEF Recorded

\* A failure that is recorded where no write throws.
LEMMA FailureRecorded ==
  ASSUME StoreWorks, TypeOK, \A q \in Runs : Recorded(q), NEW r \in Runs,
         NEW code \in Codes, RecordAndFail(r, code), result' = result
  PROVE  \A q \in Runs : Recorded(q)'
<1>1. error' = [error EXCEPT ![r] = code] /\ row' = [row EXCEPT ![r] = "failed"]
  BY NothingThrown DEF RecordAndFail, SetRow
<1>2. error'[r] # "none" /\ row'[r] = "failed"
  BY <1>1 DEF TypeOK, Codes
<1>3. \A q \in Runs \ {r} : error'[q] = error[q] /\ row'[q] = row[q]
  BY <1>1 DEF TypeOK
<1> QED BY <1>2, <1>3 DEF Recorded

\* What a control request makes of a row is no end of a run but stopped.
LEMMA ControlRows ==
  ASSUME TypeOK, NEW r \in Runs, Control(r)
  PROVE  /\ UNCHANGED <<result, error>>
         /\ \A q \in Runs : row'[q] = row[q] \/ row'[q] \in {"running", "stopped", "suspended"}
<1>1. ASSUME NEW op, NEW seen, Serve(r, op, seen) \/ RehydrationRefused
      PROVE  \A q \in Runs : row'[q] = row[q] \/ row'[q] \in {"running", "stopped", "suspended"}
  BY <1>1 DEF Serve, RehydratedStop, RehydratedResume, RehydratedRefusal, RehydratedDrop, RehydrationRefused,
              ResumeEntry, Transition, SetRow, TypeOK
<1>2. CASE SuspendCached(r) \/ StopCached(r) \/ ResumeDropped(r)
  BY <1>2 DEF SuspendCached, StopCached, ResumeDropped, Transition, SetRow, TypeOK
<1>3. CASE \E e \in ExecIds : ResumeCached(r, e)
  BY <1>3 DEF ResumeCached, ResumeEntry, SetRow, TypeOK
<1>4. CASE \E c \in Callers, op \in Ops : Ask(r, c, op) \/ ServeAtOnce(r, c, op)
  BY <1>1, <1>4 DEF Ask, ServeAtOnce
<1>5. CASE \E c \in Callers : ServeWaiting(r, c)
  BY <1>1, <1>5 DEF ServeWaiting
<1> QED BY <1>2, <1>3, <1>4, <1>5 DEF Control

LEMMA NextRecords ==
  ASSUME StoreWorks, TypeOK, \A q \in Runs : Recorded(q), [Next]_vars
  PROVE  \A q \in Runs : Recorded(q)'
<1>1. CASE /\ UNCHANGED <<result, error>>
           /\ \A q \in Runs : row'[q] = row[q] \/ row'[q] \notin {"completed", "failed"}
  BY <1>1, NotEnded
<1>2. ASSUME NEW r \in Runs, Start(r) PROVE \A q \in Runs : Recorded(q)'
  <2>1. CASE StartAdmit(r) \/ StartRefused(r) \/ StartFetch(r) \/ StartThrows(r)
    BY <1>1, <2>1 DEF StartAdmit, StartRefused, StartFetch, StartThrows, TypeOK
  <2>2. CASE \E k \in EntryIds, e \in ExecIds : StartLaunch(r, k, e)
    BY <1>1, <2>2 DEF StartLaunch, SetRow, TypeOK
  <2>3. CASE \E k \in EntryIds : StartSeedFailed(r, k)
    <3>1. RecordAndFail(r, "SEED") /\ result' = result /\ "SEED" \in Codes
      BY <2>3 DEF StartSeedFailed, Codes
    <3> QED BY <3>1, FailureRecorded
  <2> QED BY <1>2, <2>1, <2>2, <2>3 DEF Start
<1>3. ASSUME NEW r \in Runs, Control(r) PROVE \A q \in Runs : Recorded(q)'
  BY <1>1, <1>3, ControlRows
<1>4. ASSUME NEW r \in Runs, NEW e \in ExecIds, Settle(r, e) PROVE \A q \in Runs : Recorded(q)'
  <2>1. CASE SettleIgnored(r, e)
    BY <1>1, <2>1 DEF SettleIgnored
  <2>2. CASE SettleResult(r, e)
    <3>1. /\ row' = [row EXCEPT ![r] = "completed"] /\ result' = [result EXCEPT ![r] = TRUE]
          /\ error' = error
      BY <2>2, NothingThrown DEF SettleResult, Transition, SetRow
    <3> QED BY <3>1 DEF Recorded, TypeOK
  <2>3. ASSUME NEW code \in {"SCRIPT", "ABORTED"}, SettleError(r, e, code)
        PROVE  \A q \in Runs : Recorded(q)'
    <3>1. RecordAndFail(r, code) /\ result' = result /\ code \in Codes
      BY <2>3 DEF SettleError, Codes
    <3> QED BY <3>1, FailureRecorded
  <2> QED BY <1>4, <2>1, <2>2, <2>3 DEF Settle
<1>5. CASE ProcessStep
  <2>1. CASE Crash \/ Shutdown \/ Exit
    BY <1>1, <2>1 DEF Crash, Shutdown, Exit
  <2>2. CASE Boot
    BY <1>1, <2>2 DEF Boot
  <2>3. CASE \E r \in Runs : CrashAfterCreate(r)
    BY <1>1, <2>3 DEF CrashAfterCreate, TypeOK
  <2>4. ASSUME NEW r \in Runs, NEW e \in ExecIds, CrashAfterRecord(r, e) PROVE \A q \in Runs : Recorded(q)'
    <3>1. row' = row
      BY <2>4 DEF CrashAfterRecord
    <3>2. \A q \in Runs : (result[q] => result'[q]) /\ (error[q] # "none" => error'[q] # "none")
      BY <2>4 DEF CrashAfterRecord, TypeOK
    <3> QED BY <3>1, <3>2, NotEnded
  <2> QED BY <1>5, <2>1, <2>2, <2>3, <2>4 DEF ProcessStep
<1>6. CASE BookRefreshed \/ BookExpires
  BY <1>1, <1>6 DEF BookRefreshed, BookExpires
<1>7. CASE UNCHANGED vars
  BY <1>1, <1>7 DEF vars
<1> QED BY <1>2, <1>3, <1>4, <1>5, <1>6, <1>7 DEF Next

\* Whoever reads completed finds the value and whoever reads failed finds the reason, however
\* many callers there are and wherever the process dies.
THEOREM RecordedFirst == ASSUME StoreWorks PROVE Spec => []RecordedBeforeTerminal
<1>1. Init => \A q \in Runs : Recorded(q)
  BY DEF Init, Recorded
<1>2. TypeOK /\ (\A q \in Runs : Recorded(q)) /\ [Next]_vars => (\A q \in Runs : Recorded(q))'
  BY NextRecords
<1>3. (\A q \in Runs : Recorded(q)) => RecordedBeforeTerminal
  BY DEF Recorded, RecordedBeforeTerminal
<1> QED BY <1>1, <1>2, <1>3, TypeCorrect, PTL DEF Spec

-----------------------------------------------------------------------------
(* What an entry says, and who may settle a running run.                   *)

Matches(r) == cur[r] # 0 => row[r] = status[r][cur[r]]

CanSettle(r) == row[r] = "running" => \E e \in Unsettled(r) : MaySettle(r, e)

\* Without graceful shutdowns only a live execution may settle its run.
KilledQuiet(r) == \A e \in ExecIds : child[r][e] = "killed" => ~MaySettle(r, e)

Served(r) ==
    /\ Matches(r)
    /\ proc # "down" => CanSettle(r)
    /\ ~GracefulShutdown => KilledQuiet(r)

\* An execution that may settle is that of the running entry in _runs.
LEMMA SettlerIsCurrent ==
  ASSUME Consistent, NEW r \in Runs, NEW e \in ExecIds, child[r][e] # "free", MaySettle(r, e)
  PROVE  /\ owner[r][e] = cur[r] /\ cur[r] # 0 /\ exec[r][cur[r]] = e
         /\ status[r][cur[r]] = "running"
<1>1. owner[r][e] \in EntryIds
  BY DEF Consistent, RunConsistent, ChildConsistent
<1>2. owner[r][e] = cur[r]
  BY <1>1 DEF Consistent, RunConsistent, EntryConsistent, MaySettle
<1> QED BY <1>1, <1>2, IdsAssumption DEF MaySettle

\* A step on one run leaves the others alone.
LEMMA OthersSame ==
  ASSUME TypeOK, NEW r \in Runs, NEW q \in Runs, q # r,
         Start(r) \/ Control(r) \/ \E e \in ExecIds : Settle(r, e)
  PROVE  SameRun(q) /\ proc' = proc
<1>1. CASE StartAdmit(r) \/ StartRefused(r) \/ StartFetch(r) \/ StartThrows(r)
  BY <1>1 DEF StartAdmit, StartRefused, StartFetch, StartThrows, SameRun, TypeOK
<1>2. CASE \E k \in EntryIds, e \in ExecIds : StartLaunch(r, k, e)
  BY <1>2 DEF StartLaunch, SetRow, RunLive, NeverLive, SameRun, TypeOK
<1>3. CASE \E k \in EntryIds : StartSeedFailed(r, k)
  BY <1>3 DEF StartSeedFailed, RecordAndFail, SetRow, SameRun, TypeOK
<1>4. CASE SuspendCached(r) \/ StopCached(r)
  BY <1>4 DEF SuspendCached, StopCached, Transition, SetRow, Killed, SameRun, TypeOK
<1>5. CASE ResumeDropped(r)
  BY <1>5 DEF ResumeDropped, SameRun, TypeOK
<1>6. CASE \E e \in ExecIds : ResumeCached(r, e)
  BY <1>6 DEF ResumeCached, ResumeEntry, RunLive, NeverLive, SetRow, SameRun, TypeOK
<1>7. ASSUME NEW op, NEW seen, Serve(r, op, seen) \/ RehydrationRefused
      PROVE  /\ row'[q] = row[q] /\ cur'[q] = cur[q] /\ status'[q] = status[q]
             /\ substitute'[q] = substitute[q] /\ exec'[q] = exec[q] /\ owner'[q] = owner[q]
             /\ child'[q] = child[q]
  <2>1. CASE \E k \in EntryIds : RehydratedStop(r, k)
    BY <2>1 DEF RehydratedStop, Rehydrate, NeverLive, Transition, SetRow, TypeOK
  <2>2. CASE \E k \in EntryIds, e \in ExecIds : RehydratedResume(r, k, e)
    BY <2>2 DEF RehydratedResume, Rehydrate, ResumeEntry, RunLive, NeverLive, SetRow, TypeOK
  <2>3. CASE \E k \in EntryIds : RehydratedRefusal(r, k, op, seen)
    BY <2>3 DEF RehydratedRefusal, Rehydrate, NeverLive, TypeOK
  <2>4. CASE RehydratedDrop(r, op) \/ RehydrationRefused
    BY <2>4 DEF RehydratedDrop, RehydrationRefused, TypeOK
  <2> QED BY <1>7, <2>1, <2>2, <2>3, <2>4 DEF Serve
<1>8. CASE \E c \in Callers, op \in Ops : Ask(r, c, op)
  BY <1>8 DEF Ask, SameRun, TypeOK
<1>9. CASE \E c \in Callers, op \in Ops : ServeAtOnce(r, c, op)
  BY <1>7, <1>9 DEF ServeAtOnce, SameRun
<1>10. CASE \E c \in Callers : ServeWaiting(r, c)
  BY <1>7, <1>10 DEF ServeWaiting, SameRun, TypeOK
<1>11. CASE \E e \in ExecIds : Settle(r, e)
  BY <1>11 DEF Settle, SettleIgnored, SettleResult, SettleError, Gone, Transition, RecordAndFail, SetRow,
               SameRun, TypeOK
<1> QED BY <1>1, <1>2, <1>3, <1>4, <1>5, <1>6, <1>8, <1>9, <1>10, <1>11 DEF Start, Control

LEMMA UntouchedServed ==
  ASSUME NEW q \in Runs, Served(q), SameRun(q), proc # "down"
  PROVE  Served(q)'
<1>1. \A e \in ExecIds : MaySettle(q, e)' <=> MaySettle(q, e)
  BY DEF MaySettle, SameRun
<1>2. Unsettled(q)' = Unsettled(q)
  BY DEF Unsettled, SameRun
<1>3. CanSettle(q)'
  BY <1>1, <1>2 DEF Served, CanSettle, SameRun, Unsettled
<1>4. KilledQuiet(q) => KilledQuiet(q)'
  BY <1>1 DEF KilledQuiet, SameRun
<1>5. Matches(q)'
  BY DEF Served, Matches, SameRun
<1> QED BY <1>3, <1>4, <1>5 DEF Served

\* A run that is not running needs nobody to settle it.
LEMMA RestServed ==
  ASSUME Consistent', NEW r \in Runs, Matches(r)', row'[r] # "running"
  PROVE  Served(r)'
<1>1. ASSUME NEW e \in ExecIds, child'[r][e] = "killed" PROVE ~MaySettle(r, e)'
  <2> SUFFICES ASSUME MaySettle(r, e)' PROVE FALSE
    OBVIOUS
  <2>1. cur'[r] # 0 /\ status'[r][cur'[r]] = "running"
    <3>1. owner'[r][e] \in EntryIds
      BY <1>1 DEF Consistent, RunConsistent, ChildConsistent
    <3>2. owner'[r][e] = cur'[r]
      BY <3>1 DEF Consistent, RunConsistent, EntryConsistent, MaySettle
    <3> QED BY <3>1, <3>2, IdsAssumption DEF MaySettle
  <2> QED BY <2>1 DEF Matches
<1> QED BY <1>1 DEF Served, CanSettle, KilledQuiet

\* A new execution may settle its run, and no older one may.
LEMMA LiveServed ==
  ASSUME Consistent, Consistent', NEW r \in Runs, NEW k \in EntryIds, NEW e \in ExecIds, RunLive(r, k, e),
         cur'[r] = k, status'[r][k] = "running", row'[r] = "running"
  PROVE  Served(r)'
<1>1. /\ exec'[r][k] = e /\ owner'[r][e] = k /\ child'[r][e] = "alive"
  BY DEF RunLive, Consistent, TypeOK
<1>2. Matches(r)'
  BY DEF Matches
<1>3. MaySettle(r, e)' /\ e \in Unsettled(r)'
  BY <1>1 DEF MaySettle, Unsettled
<1>4. ASSUME NEW f \in ExecIds, child'[r][f] = "killed" PROVE ~MaySettle(r, f)'
  <2>1. owner'[r][f] \in EntryIds
    BY <1>4 DEF Consistent, RunConsistent, ChildConsistent
  <2>2. MaySettle(r, f)' => owner'[r][f] = k
    BY <2>1 DEF Consistent, RunConsistent, EntryConsistent, MaySettle
  <2>3. f # e
    BY <1>1, <1>4
  <2> QED BY <1>1, <2>2, <2>3 DEF MaySettle
<1> QED BY <1>2, <1>3, <1>4 DEF Served, CanSettle, KilledQuiet

LEMMA StartServes ==
  ASSUME StoreWorks, Consistent, Consistent', NEW r \in Runs, Start(r)
  PROVE  Served(r)'
<1>1. cur[r] = 0 /\ row[r] \in {"none", "queued"} /\ TypeOK
  BY DEF Start, StartAdmit, StartRefused, StartFetch, StartThrows, StartLaunch, StartSeedFailed,
         Consistent, RunConsistent, StartConsistent, TypeOK
<1>2. CASE StartAdmit(r) \/ StartRefused(r) \/ StartFetch(r) \/ StartThrows(r)
  <2>1. cur'[r] = 0 /\ row'[r] # "running"
    BY <1>1, <1>2 DEF StartAdmit, StartRefused, StartFetch, StartThrows, TypeOK
  <2> QED BY <2>1, RestServed DEF Matches
<1>3. ASSUME NEW k \in EntryIds, NEW e \in ExecIds, StartLaunch(r, k, e) PROVE Served(r)'
  <2>1. RunLive(r, k, e) /\ SetRow(r, "running")
    BY <1>1, <1>3, NothingThrown DEF StartLaunch
  <2>2. cur'[r] = k /\ status'[r][k] = "running" /\ row'[r] = "running"
    BY <1>1, <1>3, <2>1 DEF StartLaunch, SetRow, TypeOK
  <2> QED BY <2>1, <2>2, LiveServed
<1>4. ASSUME NEW k \in EntryIds, StartSeedFailed(r, k) PROVE Served(r)'
  <2>1. SetRow(r, "failed")
    BY <1>1, <1>4, NothingThrown DEF StartSeedFailed, RecordAndFail
  <2>2. cur'[r] = k /\ status'[r][k] = "failed" /\ row'[r] = "failed"
    BY <1>1, <1>4, <2>1 DEF StartSeedFailed, SetRow, TypeOK
  <2> QED BY <2>2, RestServed DEF Matches
<1> QED BY <1>2, <1>3, <1>4 DEF Start

\* Serving a request on a run without an entry.
LEMMA ServeServes ==
  ASSUME StoreWorks, Consistent, Consistent', NEW r \in Runs, NEW op, cur[r] = 0, row[r] \in Resumable,
         Serve(r, op, row[r]) \/ RehydrationRefused
  PROVE  Served(r)'
<1>1. TypeOK /\ ~Thrown /\ row[r] # "running"
  BY NothingThrown DEF Consistent, Resumable
<1>2. ASSUME NEW k \in EntryIds, RehydratedStop(r, k) PROVE Served(r)'
  <2>1. cur'[r] = k /\ status'[r][k] = "stopped" /\ row'[r] = "stopped"
    BY <1>1, <1>2 DEF RehydratedStop, Transition, SetRow, TypeOK
  <2> QED BY <2>1, RestServed DEF Matches
<1>3. ASSUME NEW k \in EntryIds, NEW e \in ExecIds, RehydratedResume(r, k, e) PROVE Served(r)'
  <2>1. RunLive(r, k, e) /\ SetRow(r, "running")
    BY <1>1, <1>3 DEF RehydratedResume, ResumeEntry
  <2>2. cur'[r] = k /\ status'[r][k] = "running" /\ row'[r] = "running"
    BY <1>1, <1>3, <2>1 DEF RehydratedResume, ResumeEntry, SetRow, TypeOK
  <2> QED BY <2>1, <2>2, LiveServed
<1>4. ASSUME NEW k \in EntryIds, RehydratedRefusal(r, k, op, row[r]) PROVE Served(r)'
  <2>1. cur'[r] = k /\ status'[r][k] = row[r] /\ row'[r] = row[r]
    BY <1>1, <1>4 DEF RehydratedRefusal, TypeOK
  <2> QED BY <1>1, <2>1, RestServed DEF Matches
<1>5. CASE RehydratedDrop(r, op) \/ RehydrationRefused
  <2>1. cur'[r] = 0 /\ row'[r] = row[r]
    BY <1>1, <1>5 DEF RehydratedDrop, RehydrationRefused, TypeOK
  <2> QED BY <1>1, <2>1, RestServed DEF Matches
<1> QED BY <1>2, <1>3, <1>4, <1>5 DEF Serve

LEMMA ControlServes ==
  ASSUME StoreWorks, Consistent, Consistent', NEW r \in Runs, Served(r), Control(r)
  PROVE  Served(r)'
<1>1. TypeOK /\ ~Thrown
  BY NothingThrown DEF Consistent
<1>2. CASE SuspendCached(r) \/ StopCached(r)
  <2>1. cur[r] \in EntryIds
    BY <1>1, <1>2 DEF SuspendCached, StopCached, Cached, TypeOK
  <2>2. /\ cur'[r] = cur[r] /\ row'[r] = status'[r][cur[r]] /\ row'[r] \in {"suspended", "stopped"}
    BY <1>1, <1>2, <2>1 DEF SuspendCached, StopCached, Transition, SetRow, TypeOK
  <2> QED BY <2>2, RestServed DEF Matches
<1>3. CASE ResumeDropped(r)
  <2>1. row[r] # "running"
    BY <1>3 DEF ResumeDropped, Cached, Served, Matches, Consistent, RunConsistent, EntryConsistent
  <2>2. cur'[r] = 0 /\ row'[r] = row[r]
    BY <1>1, <1>3 DEF ResumeDropped, TypeOK
  <2> QED BY <2>1, <2>2, RestServed DEF Matches
<1>4. ASSUME NEW e \in ExecIds, ResumeCached(r, e) PROVE Served(r)'
  <2>1. cur[r] \in EntryIds
    BY <1>1, <1>4 DEF ResumeCached, Cached, TypeOK
  <2>2. RunLive(r, cur[r], e) /\ SetRow(r, "running")
    BY <1>1, <1>4 DEF ResumeCached, ResumeEntry
  <2>3. cur'[r] = cur[r] /\ status'[r][cur[r]] = "running" /\ row'[r] = "running"
    BY <1>1, <1>4, <2>1, <2>2 DEF ResumeCached, ResumeEntry, SetRow, TypeOK
  <2> QED BY <2>1, <2>2, <2>3, LiveServed
<1>5. ASSUME NEW c \in Callers, NEW op \in Ops, Ask(r, c, op) PROVE Served(r)'
  <2>1. SameRun(r) \/ (cur'[r] = 0 /\ row'[r] # "running")
    BY <1>5 DEF Ask, Uncached, Resumable
  <2>2. cur'[r] = 0 /\ row'[r] # "running"
    BY <1>5 DEF Ask, Uncached, Resumable
  <2> QED BY <2>2, RestServed DEF Matches
<1>6. ASSUME NEW c \in Callers, NEW op \in Ops, ServeAtOnce(r, c, op) PROVE Served(r)'
  BY <1>6, ServeServes DEF ServeAtOnce, Uncached
<1>7. ASSUME NEW c \in Callers, ServeWaiting(r, c) PROVE Served(r)'
  <2>1. waiting[r][c].seen \in Resumable
    BY <1>1, <1>7, RequestType DEF ServeWaiting
  <2>2. cur[r] = 0 /\ row[r] = waiting[r][c].seen
    BY <1>7 DEF ServeWaiting, Consistent, RunConsistent, RequestConsistent
  <2>3. Serve(r, waiting[r][c].op, row[r]) \/ RehydrationRefused
    BY <1>7, <2>2 DEF ServeWaiting
  <2> QED BY <2>1, <2>2, <2>3, ServeServes
<1> QED BY <1>2, <1>3, <1>4, <1>5, <1>6, <1>7 DEF Control

LEMMA SettleServes ==
  ASSUME StoreWorks, Consistent, Consistent', NEW r \in Runs, Served(r), NEW e \in ExecIds, Settle(r, e)
  PROVE  Served(r)'
<1>1. TypeOK /\ ~Thrown /\ child[r][e] # "free" /\ owner[r][e] \in EntryIds /\ proc # "down"
  <2>1. child[r][e] # "free" /\ proc # "down"
    BY DEF Settle, SettleIgnored, SettleResult, SettleError
  <2> QED BY <2>1, NothingThrown DEF Consistent, RunConsistent, ChildConsistent
<1>2. CASE SettleIgnored(r, e)
  <2>1. /\ ~MaySettle(r, e) /\ UNCHANGED <<row, cur, status, exec, owner>>
        /\ \A f \in ExecIds : f # e => child'[r][f] = child[r][f]
        /\ child'[r][e] = "free"
    BY <1>1, <1>2 DEF SettleIgnored, Gone, TypeOK
  <2>2. \A f \in ExecIds : MaySettle(r, f)' <=> MaySettle(r, f)
    BY <2>1 DEF MaySettle
  <2>3. CanSettle(r)'
    BY <1>1, <2>1, <2>2 DEF Served, CanSettle, Unsettled
  <2>4. KilledQuiet(r) => KilledQuiet(r)'
    BY <2>1, <2>2 DEF KilledQuiet
  <2> QED BY <2>1, <2>3, <2>4 DEF Served, Matches
<1>3. ASSUME NEW s \in Terminal, MaySettle(r, e), SetRow(r, s), cur' = cur,
             status' = [status EXCEPT ![r][owner[r][e]] = s]
      PROVE  Served(r)'
  <2>1. owner[r][e] = cur[r]
    BY <1>1, <1>3, SettlerIsCurrent
  <2>2. row'[r] = s /\ status'[r][cur[r]] = s /\ s # "running"
    BY <1>1, <1>3, <2>1 DEF SetRow, TypeOK, Terminal
  <2> QED BY <1>3, <2>2, RestServed DEF Matches
<1>4. CASE SettleResult(r, e)
  BY <1>1, <1>3, <1>4 DEF SettleResult, Transition, Terminal
<1>5. ASSUME NEW code \in {"SCRIPT", "ABORTED"}, SettleError(r, e, code) PROVE Served(r)'
  BY <1>1, <1>3, <1>5 DEF SettleError, RecordAndFail, Terminal
<1> QED BY <1>2, <1>4, <1>5 DEF Settle

LEMMA ProcessServes ==
  ASSUME Consistent, Consistent', \A q \in Runs : Served(q), ProcessStep, NEW r \in Runs
  PROVE  Served(r)'
<1>1. CASE LoseMemory
  <2>1. cur'[r] = 0 /\ proc' = "down" /\ \A e \in ExecIds : child'[r][e] = "free"
    BY <1>1 DEF LoseMemory, Every
  <2> QED BY <2>1 DEF Served, Matches, KilledQuiet
<1>2. CASE Boot
  <2>1. cur'[r] = 0 /\ row'[r] # "running"
    BY <1>2 DEF Boot, Consistent, RunConsistent, DownConsistent
  <2> QED BY <2>1, RestServed DEF Matches
<1>3. CASE Shutdown
  <2>1. /\ GracefulShutdown /\ proc # "down" /\ UNCHANGED <<row, cur, status, exec, owner>>
    BY <1>3 DEF Shutdown
  <2>2. \A e \in ExecIds : child[r][e] # "free" => child'[r][e] # "free"
    BY <1>3 DEF Shutdown, Killed, Consistent, TypeOK
  <2>3. \A e \in ExecIds : MaySettle(r, e)' <=> MaySettle(r, e)
    BY <2>1 DEF MaySettle
  <2> QED BY <2>1, <2>2, <2>3 DEF Served, Matches, CanSettle, Unsettled
<1> QED
  BY <1>1, <1>2, <1>3 DEF ProcessStep, Crash, Exit, CrashAfterCreate, CrashAfterRecord

LEMMA NextServes ==
  ASSUME SerialControl, StoreWorks
  PROVE  Consistent /\ Consistent' /\ (\A q \in Runs : Served(q)) /\ [Next]_vars => (\A q \in Runs : Served(q))'
<1> SUFFICES ASSUME Consistent, Consistent', \A q \in Runs : Served(q), [Next]_vars, NEW q \in Runs
             PROVE  Served(q)'
  OBVIOUS
<1>1. CASE /\ UNCHANGED <<row, memory>> /\ proc' = proc
  <2>1. \A e \in ExecIds : MaySettle(q, e)' <=> MaySettle(q, e)
    BY <1>1 DEF MaySettle
  <2>2. CanSettle(q) => CanSettle(q)'
    BY <1>1, <2>1 DEF CanSettle, Unsettled
  <2>3. KilledQuiet(q) => KilledQuiet(q)'
    BY <1>1, <2>1 DEF KilledQuiet
  <2> QED BY <1>1, <2>2, <2>3 DEF Served, Matches
<1>2. ASSUME NEW r \in Runs, Start(r) \/ Control(r) \/ \E e \in ExecIds : Settle(r, e)
      PROVE  Served(q)'
  <2>1. CASE q = r
    BY <1>2, <2>1, StartServes, ControlServes, SettleServes
  <2>2. CASE q # r
    <3>1. SameRun(q)
      BY <1>2, <2>2, OthersSame DEF Consistent
    <3>2. proc # "down"
      BY <1>2 DEF Start, StartAdmit, StartRefused, StartFetch, StartThrows, StartLaunch, StartSeedFailed,
                  Control, SuspendCached, StopCached, ResumeDropped, ResumeCached, Cached, Ask, ServeAtOnce,
                  Uncached, ServeWaiting, Settle, SettleIgnored, SettleResult, SettleError
    <3> QED BY <3>1, <3>2, UntouchedServed
  <2> QED BY <2>1, <2>2
<1>3. CASE ProcessStep
  BY <1>3, ProcessServes
<1>4. CASE BookRefreshed \/ BookExpires
  BY <1>1, <1>4 DEF BookRefreshed, BookExpires
<1>5. CASE UNCHANGED vars
  BY <1>1, <1>5 DEF vars
<1> QED BY <1>2, <1>3, <1>4, <1>5 DEF Next

LEMMA AlwaysServed == ASSUME SerialControl, StoreWorks PROVE Spec => [](\A q \in Runs : Served(q))
<1>1. Init => \A q \in Runs : Served(q)
  <2> SUFFICES ASSUME Init, NEW q \in Runs PROVE Served(q)
    OBVIOUS
  <2>1. cur[q] = 0 /\ row[q] = "none" /\ \A e \in ExecIds : child[q][e] = "free"
    BY DEF Init, Every
  <2> QED BY <2>1 DEF Served, Matches, CanSettle, KilledQuiet
<1>2. Consistent /\ Consistent' /\ (\A q \in Runs : Served(q)) /\ [Next]_vars => (\A q \in Runs : Served(q))'
  BY NextServes
<1> QED BY <1>1, <1>2, AlwaysConsistent, PTL DEF Spec

\* A client asking a live process and one asking after a restart are told the same status.
THEOREM EntriesMatchRows == ASSUME SerialControl, StoreWorks PROVE Spec => []EntryMatchesRow
<1>1. (\A q \in Runs : Served(q)) => EntryMatchesRow
  BY DEF Served, Matches, EntryMatchesRow
<1> QED BY <1>1, AlwaysServed, PTL

\* No run of a live process is left running with nobody to settle it (run-manager.ts _runLive).
THEOREM RunningRunsCanSettle == ASSUME SerialControl, StoreWorks PROVE Spec => []RunningCanSettle
<1>1. (\A q \in Runs : Served(q)) => RunningCanSettle
  BY DEF Served, CanSettle, RunningCanSettle
<1> QED BY <1>1, AlwaysServed, PTL

-----------------------------------------------------------------------------
(* The contract.                                                           *)

NoShutdown == ~GracefulShutdown

\* A run executes exactly while the engine is up and its row says running.
LEMMA ExecutesWhileRunning ==
  ASSUME NoShutdown, Consistent, NEW r \in Runs, Served(r)
  PROVE  Alive(r) # {} <=> proc # "down" /\ row[r] = "running"
<1>1. ASSUME NEW e \in Alive(r) PROVE proc # "down" /\ row[r] = "running"
  BY <1>1 DEF Alive, Consistent, RunConsistent, ChildConsistent, DownConsistent, Served, Matches
<1>2. ASSUME proc # "down", row[r] = "running" PROVE Alive(r) # {}
  <2>1. PICK e \in Unsettled(r) : MaySettle(r, e)
    BY <1>2 DEF Served, CanSettle
  <2>2. child[r][e] # "killed" /\ child[r][e] # "free" /\ e \in ExecIds
    BY <2>1 DEF Unsettled, Served, KilledQuiet, NoShutdown
  <2>3. child[r][e] = "alive"
    BY <2>2 DEF Consistent, TypeOK
  <2> QED BY <2>2, <2>3 DEF Alive
<1> QED BY <1>1, <1>2

ExecutesRunning == \A q \in Runs : Alive(q) # {} <=> proc # "down" /\ row[q] = "running"

\* The moves of one run in a live process that the contract knows.
Moves(r, x) ==
    /\ row' = [row EXCEPT ![r] = x]
    /\ \/ row[r] = "none" /\ x = "queued"
       \/ row[r] \in {"none", "queued"} /\ x = "running"
       \/ row[r] = "queued" /\ x = "failed"
       \/ row[r] = "running" /\ x \in {"completed", "failed", "suspended", "stopped"}
       \/ row[r] \in Resumable /\ x \in {"running", "stopped"}

LEMMA MovesByContract ==
  ASSUME TypeOK, ExecutesRunning, ExecutesRunning', NEW r \in Runs, NEW x, Moves(r, x),
         proc # "down", proc' = proc
  PROVE  Contract!CNext
<1> DEFINE live == [q \in Runs |-> Alive(q) # {}]
<1>1. row' = [row EXCEPT ![r] = x] /\ row'[r] = x /\ \A q \in Runs : q # r => row'[q] = row[q]
  BY DEF Moves, TypeOK
<1>2. CASE x = "running"
  <2>1. live' = [live EXCEPT ![r] = TRUE]
    BY <1>1, <1>2 DEF ExecutesRunning
  <2>2. Contract!Become(r, "running", TRUE)
    BY <1>1, <1>2, <2>1 DEF Contract!Become
  <2>3. Contract!Launch(r) \/ Contract!Resume(r)
    BY <1>2, <2>2 DEF Moves, Contract!Launch, Contract!Resume, Contract!Paused, Resumable
  <2> QED BY <2>3 DEF Contract!CNext
<1>3. CASE x # "running"
  <2>1. live' = [live EXCEPT ![r] = FALSE]
    BY <1>1, <1>3 DEF ExecutesRunning
  <2>2. Contract!Become(r, x, FALSE)
    BY <1>1, <2>1 DEF Contract!Become
  <2>3. CASE row[r] = "none"
    BY <1>3, <2>2, <2>3 DEF Moves, Contract!Accept, Contract!CNext, Resumable
  <2>4. CASE row[r] = "queued"
    BY <1>3, <2>2, <2>4 DEF Moves, Contract!Reject, Contract!CNext, Resumable
  <2>5. CASE row[r] = "running"
    <3>1. live[r] = TRUE
      BY <2>5 DEF ExecutesRunning
    <3>2. x \in {"completed", "failed", "suspended", "stopped"}
      BY <1>3, <2>5 DEF Moves, Resumable
    <3> QED BY <2>2, <2>5, <3>1, <3>2 DEF Contract!Finish, Contract!Pause, Contract!Halt, Contract!CNext
  <2>6. CASE row[r] \in Resumable
    BY <1>3, <2>2, <2>6 DEF Moves, Contract!Halt, Contract!Paused, Contract!CNext, Resumable
  <2> QED BY <2>3, <2>4, <2>5, <2>6 DEF Moves
<1> QED BY <1>2, <1>3

\* A step that changes neither a row nor whether the process is up is none for the contract.
LEMMA RestsByContract ==
  ASSUME ExecutesRunning, ExecutesRunning', row' = row, (proc' = "down") <=> (proc = "down")
  PROVE  UNCHANGED Contract!cvars
<1>1. \A q \in Runs : (Alive(q) # {})' <=> Alive(q) # {}
  BY DEF ExecutesRunning
<1>2. [q \in Runs |-> Alive(q) # {}]' = [q \in Runs |-> Alive(q) # {}]
  BY <1>1
<1> QED BY <1>2 DEF Contract!cvars

LEMMA StartMoves ==
  ASSUME StoreWorks, Consistent, NEW r \in Runs, Start(r)
  PROVE  proc' = proc /\ proc # "down" /\ (row' = row \/ \E x \in Status : Moves(r, x))
<1>1. TypeOK /\ ~Thrown /\ cur[r] = 0 /\ row[r] \in {"none", "queued"}
  BY NothingThrown DEF Start, StartAdmit, StartRefused, StartFetch, StartThrows, StartLaunch, StartSeedFailed,
         Consistent, RunConsistent, StartConsistent, TypeOK
<1>2. proc' = proc /\ proc # "down"
  BY DEF Start, StartAdmit, StartRefused, StartFetch, StartThrows, StartLaunch, StartSeedFailed
<1>3. CASE StartAdmit(r) \/ StartRefused(r)
  BY <1>2, <1>3 DEF StartAdmit, StartRefused
<1>4. CASE StartFetch(r) \/ StartThrows(r)
  <2>1. row' = [row EXCEPT ![r] = "queued"] /\ "queued" \in Status
    BY <1>4 DEF StartFetch, StartThrows, Status
  <2>2. CASE row[r] = "queued"
    BY <1>1, <1>2, <2>1, <2>2 DEF TypeOK
  <2>3. CASE row[r] = "none"
    BY <1>2, <2>1, <2>3 DEF Moves
  <2> QED BY <1>1, <2>2, <2>3
<1>5. CASE \E k \in EntryIds, e \in ExecIds : StartLaunch(r, k, e)
  BY <1>1, <1>2, <1>5 DEF StartLaunch, SetRow, Moves, Status
<1>6. CASE \E k \in EntryIds : StartSeedFailed(r, k)
  <2>1. row[r] = "queued"
    BY <1>6 DEF StartSeedFailed, Consistent, RunConsistent, StartConsistent
  <2> QED BY <1>1, <1>2, <1>6, <2>1 DEF StartSeedFailed, RecordAndFail, SetRow, Moves, Status, Terminal
<1> QED BY <1>3, <1>4, <1>5, <1>6 DEF Start

LEMMA ControlMoves ==
  ASSUME StoreWorks, Consistent, NEW r \in Runs, Served(r), Control(r)
  PROVE  proc' = proc /\ proc # "down" /\ (row' = row \/ \E x \in Status : Moves(r, x))
<1>1. TypeOK /\ ~Thrown
  BY NothingThrown DEF Consistent
<1>2. proc' = proc /\ proc # "down"
  BY DEF Control, SuspendCached, StopCached, ResumeDropped, ResumeCached, Cached, Ask, ServeAtOnce,
         Uncached, ServeWaiting
<1>3. {"running", "stopped", "suspended"} \subseteq Status
  BY DEF Status, Terminal, Resumable
<1>4. CASE SuspendCached(r)
  <2>1. row[r] = "running"
    BY <1>4 DEF SuspendCached, Cached, Served, Matches
  <2> QED BY <1>1, <1>2, <1>3, <1>4, <2>1 DEF SuspendCached, Transition, SetRow, Moves
<1>5. CASE StopCached(r)
  <2>1. row[r] \in {"running"} \cup Resumable
    <3>1. cur[r] \in EntryIds /\ row[r] = status[r][cur[r]] /\ row[r] \notin Terminal /\ row[r] # "queued"
          /\ row[r] # "free"
      BY <1>1, <1>5 DEF StopCached, Cached, Served, Matches, TypeOK, Consistent, RunConsistent, EntryConsistent
    <3>2. status[r][cur[r]] \in {"free"} \cup Status
      BY <1>1, <3>1 DEF TypeOK
    <3> QED BY <3>1, <3>2 DEF Status
  <2> QED BY <1>1, <1>2, <1>3, <1>5, <2>1 DEF StopCached, Transition, SetRow, Moves
<1>6. CASE ResumeDropped(r) \/ \E c \in Callers, op \in Ops : Ask(r, c, op)
  BY <1>2, <1>6 DEF ResumeDropped, Ask
<1>7. ASSUME NEW e \in ExecIds, ResumeCached(r, e)
      PROVE  \E x \in Status : Moves(r, x)
  <2>1. row[r] \in Resumable
    BY <1>7 DEF ResumeCached, Cached, Served, Matches
  <2> QED BY <1>1, <1>3, <1>7, <2>1 DEF ResumeCached, ResumeEntry, SetRow, Moves
<1>8. ASSUME NEW op, row[r] \in Resumable, Serve(r, op, row[r]) \/ RehydrationRefused
      PROVE  row' = row \/ \E x \in Status : Moves(r, x)
  BY <1>1, <1>3, <1>8 DEF Serve, RehydratedStop, RehydratedResume, RehydratedRefusal, RehydratedDrop,
                          RehydrationRefused, ResumeEntry, Transition, SetRow, Moves
<1>9. CASE \E c \in Callers, op \in Ops : ServeAtOnce(r, c, op)
  BY <1>2, <1>8, <1>9 DEF ServeAtOnce, Uncached
<1>10. ASSUME NEW c \in Callers, ServeWaiting(r, c)
       PROVE  row' = row \/ \E x \in Status : Moves(r, x)
  <2>1. waiting[r][c].seen \in Resumable
    BY <1>1, <1>10, RequestType DEF ServeWaiting
  <2>2. row[r] = waiting[r][c].seen
    BY <1>10 DEF ServeWaiting, Consistent, RunConsistent, RequestConsistent
  <2>3. Serve(r, waiting[r][c].op, row[r]) \/ RehydrationRefused
    BY <1>10, <2>2 DEF ServeWaiting
  <2> QED BY <1>8, <2>1, <2>2, <2>3
<1> QED BY <1>2, <1>4, <1>5, <1>6, <1>7, <1>9, <1>10 DEF Control

LEMMA SettleMoves ==
  ASSUME StoreWorks, Consistent, NEW r \in Runs, Served(r), NEW e \in ExecIds, Settle(r, e)
  PROVE  proc' = proc /\ proc # "down" /\ (row' = row \/ \E x \in Status : Moves(r, x))
<1>1. TypeOK /\ ~Thrown
  BY NothingThrown DEF Consistent
<1>2. proc' = proc /\ proc # "down" /\ child[r][e] # "free"
  BY DEF Settle, SettleIgnored, SettleResult, SettleError
<1>3. CASE SettleIgnored(r, e)
  BY <1>2, <1>3 DEF SettleIgnored
<1>4. MaySettle(r, e) => row[r] = "running"
  BY <1>2, SettlerIsCurrent DEF Served, Matches
<1>5. CASE SettleResult(r, e)
  BY <1>1, <1>2, <1>4, <1>5 DEF SettleResult, Transition, SetRow, Moves, Status, Terminal
<1>6. CASE \E code \in {"SCRIPT", "ABORTED"} : SettleError(r, e, code)
  BY <1>1, <1>2, <1>4, <1>6 DEF SettleError, RecordAndFail, SetRow, Moves, Status, Terminal
<1> QED BY <1>3, <1>5, <1>6 DEF Settle

LEMMA ProcessByContract ==
  ASSUME NoShutdown, Consistent, ExecutesRunning, ExecutesRunning', ProcessStep
  PROVE  Contract!CNext
<1> DEFINE live == [q \in Runs |-> Alive(q) # {}]
<1>1. ~Shutdown
  BY DEF Shutdown, NoShutdown
<1>2. CASE LoseMemory
  <2>1. live' = [q \in Runs |-> FALSE]
    BY <1>2 DEF LoseMemory, ExecutesRunning
  <2>2. row' = row \/ \E r \in Runs : row[r] = "none" /\ row' = [row EXCEPT ![r] = "queued"]
    <3>1. CASE \E r \in Runs : CrashAfterCreate(r)
      BY <3>1 DEF CrashAfterCreate, Consistent, RunConsistent, StartConsistent
    <3>2. CASE Crash \/ Exit \/ \E r \in Runs, e \in ExecIds : CrashAfterRecord(r, e)
      BY <3>2 DEF Crash, Exit, CrashAfterRecord
    <3>3. CASE Boot
      BY <1>2, <3>3 DEF Boot, LoseMemory
    <3> QED BY <1>1, <3>1, <3>2, <3>3 DEF ProcessStep
  <2> QED BY <2>1, <2>2 DEF Contract!PowerLoss, Contract!CNext
<1>3. CASE Boot
  <2>1. /\ proc = "down" /\ row' = [r \in Runs |-> IF row[r] = "running" THEN "interrupted" ELSE row[r]]
        /\ child' = child
    BY <1>3 DEF Boot
  <2>2. \A q \in Runs : ~live[q]
    BY <2>1 DEF ExecutesRunning
  <2>3. live' = live
    BY <2>1 DEF Alive
  <2> QED BY <2>1, <2>2, <2>3 DEF Contract!Recover, Contract!CNext
<1> QED BY <1>1, <1>2, <1>3 DEF ProcessStep, Crash, Exit, CrashAfterCreate, CrashAfterRecord

LEMMA NextByContract ==
  ASSUME NoShutdown, StoreWorks, Consistent, Consistent', \A q \in Runs : Served(q),
         (\A q \in Runs : Served(q))', [Next]_vars
  PROVE  [Contract!CNext]_(Contract!cvars)
<1>1. ExecutesRunning
  BY ExecutesWhileRunning DEF ExecutesRunning
<1>2. ExecutesRunning'
  <2>1. ASSUME NEW q \in Runs PROVE (Alive(q) # {} <=> proc # "down" /\ row[q] = "running")'
    <3>1. ASSUME NEW e \in Alive(q)' PROVE proc' # "down" /\ row'[q] = "running"
      BY <3>1 DEF Alive, Consistent, RunConsistent, ChildConsistent, DownConsistent, Served, Matches
    <3>2. ASSUME proc' # "down", row'[q] = "running" PROVE Alive(q)' # {}
      <4>1. PICK e \in Unsettled(q)' : MaySettle(q, e)'
        BY <3>2 DEF Served, CanSettle
      <4>2. child'[q][e] # "killed" /\ child'[q][e] # "free" /\ e \in ExecIds
        BY <4>1 DEF Unsettled, Served, KilledQuiet, NoShutdown
      <4>3. child'[q][e] = "alive"
        BY <4>2 DEF Consistent, TypeOK
      <4> QED BY <4>2, <4>3 DEF Alive
    <3> QED BY <3>1, <3>2
  <2> QED BY <2>1 DEF ExecutesRunning
<1>3. ASSUME NEW r \in Runs, Start(r) \/ Control(r) \/ \E e \in ExecIds : Settle(r, e)
      PROVE  [Contract!CNext]_(Contract!cvars)
  <2>1. proc' = proc /\ proc # "down" /\ (row' = row \/ \E x \in Status : Moves(r, x))
    BY <1>3, StartMoves, ControlMoves, SettleMoves
  <2> QED BY <1>1, <1>2, <2>1, MovesByContract, RestsByContract DEF Consistent
<1>4. CASE ProcessStep
  BY <1>1, <1>2, <1>4, ProcessByContract
<1>5. CASE BookRefreshed \/ BookExpires \/ UNCHANGED vars
  <2>1. row' = row /\ proc' = proc
    BY <1>5 DEF BookRefreshed, BookExpires, vars
  <2> QED BY <1>1, <1>2, <2>1, RestsByContract
<1> QED BY <1>3, <1>4, <1>5 DEF Next

\* The engine keeps the contract of RunContract for every number of runs, across any number of
\* crashes: the statuses move only as it allows, and the script executes exactly when it says.
THEOREM ContractKept == ASSUME SerialControl, StoreWorks, NoShutdown PROVE Spec => ImplementsContract
<1>1. Init => Contract!CInit
  <2> SUFFICES ASSUME Init PROVE Contract!CInit
    OBVIOUS
  <2>1. \A r \in Runs : Alive(r) = {}
    BY DEF Init, Every, Alive
  <2> QED BY <2>1 DEF Init, Contract!CInit
<1>2. /\ Consistent /\ Consistent' /\ (\A q \in Runs : Served(q)) /\ (\A q \in Runs : Served(q))'
      /\ [Next]_vars
      => [Contract!CNext]_(Contract!cvars)
  BY NextByContract
<1> QED BY <1>1, <1>2, AlwaysConsistent, AlwaysServed, PTL DEF Spec, ImplementsContract, Contract!CSpec

-----------------------------------------------------------------------------
(* When the cap is kept.                                                   *)

\* Of all start() calls at most one is under way.
OneStartAtATime == \A q, r \in Runs : starting[q] # "no" /\ starting[r] # "no" => q = r

\* Runs that count for the cap or may come to.
Counts(r) == starting[r] # "no" \/ (cur[r] # 0 /\ status[r][cur[r]] \notin Terminal)
Busy == {r \in Runs : Counts(r)}

\* Until the process dies every run that can be resumed is in _runs, so that no request has to build
\* an entry, and a start() under way has none yet.
Resident(r) ==
    /\ row[r] \in Resumable => cur[r] # 0
    /\ \A c \in Callers : waiting[r][c] = NoRequest
    /\ cur[r] # 0 => ~substitute[r][cur[r]]
    /\ starting[r] = "admitting" => row[r] = "none"
    /\ starting[r] = "fetching" => row[r] = "queued"
    /\ starting[r] # "no" \/ row[r] = "none" => cur[r] = 0
    /\ \A k \in EntryIds : status[r][k] # "free" => cur[r] = k
    /\ \A e \in ExecIds : child[r][e] # "free" => owner[r][e] \in EntryIds

CapKept ==
    /\ proc = "up" /\ \A r \in Runs : Resident(r)
    /\ IsFiniteSet(Busy) /\ Cardinality(Busy) <= MaxConcurrentRuns

LEMMA SameCounts ==
    ASSUME NEW r \in Runs, SameRun(r), Resident(r)
    PROVE  Resident(r)' /\ (Counts(r)' <=> Counts(r))
BY DEF SameRun, Resident, Counts

\* A step that makes no more runs count.
LEMMA NoMoreBusy ==
    ASSUME CapKept, proc' = proc, \A r \in Runs : Resident(r)', Busy' \subseteq Busy
    PROVE  CapKept'
<1>1. /\ IsFiniteSet(Busy') /\ Cardinality(Busy') <= Cardinality(Busy)
      /\ Cardinality(Busy) \in Nat /\ Cardinality(Busy') \in Nat
  BY FS_Subset, FS_CardinalityType DEF CapKept
<1> QED BY <1>1, CapAssumption DEF CapKept

\* A new execution belongs to the entry that has it forked.
LEMMA LaunchOwned ==
    ASSUME TypeOK, NEW r \in Runs, NEW k \in EntryIds, NEW e \in ExecIds,
           RunLive(r, k, e) \/ NeverLive(r, k),
           \A x \in ExecIds : child[r][x] # "free" => owner[r][x] \in EntryIds
    PROVE  \A x \in ExecIds : child'[r][x] # "free" => owner'[r][x] \in EntryIds
<1> SUFFICES ASSUME NEW x \in ExecIds, child'[r][x] # "free" PROVE owner'[r][x] \in EntryIds
  OBVIOUS
<1>1. CASE NeverLive(r, k)
  BY <1>1 DEF NeverLive
<1>2. CASE RunLive(r, k, e)
  <2>1. /\ owner'[r][x] = IF x = e THEN k ELSE owner[r][x]
        /\ child'[r][x] = IF x = e THEN "alive" ELSE child[r][x]
    BY <1>2 DEF RunLive, TypeOK
  <2> QED BY <2>1
<1> QED BY <1>1, <1>2

\* What start() does to its run: only its head makes it count.
LEMMA StartCounts ==
    ASSUME TypeOK, NEW r \in Runs, Resident(r), Start(r)
    PROVE  Resident(r)' /\ (Counts(r)' => Counts(r) \/ StartAdmit(r))
<1>1. CASE StartAdmit(r)
  BY <1>1 DEF StartAdmit, Resident, TypeOK
<1>2. CASE StartRefused(r) \/ StartFetch(r) \/ StartThrows(r)
  BY <1>2 DEF StartRefused, StartFetch, StartThrows, Resident, Counts, TypeOK, Resumable
<1>3. CASE \E k \in EntryIds, e \in ExecIds : StartLaunch(r, k, e)
  <2>1. PICK k \in EntryIds, e \in ExecIds : StartLaunch(r, k, e)
    BY <1>3
  <2>2. /\ starting[r] # "no" /\ starting'[r] = "no" /\ cur'[r] = k /\ substitute'[r][k] = FALSE
        /\ row'[r] \in {"queued", "running"} /\ waiting' = waiting
    BY <2>1 DEF StartLaunch, SetRow, TypeOK
  <2>3. k # 0 /\ cur[r] = 0 /\ \A j \in EntryIds : status[r][j] = "free"
    BY <2>2, IdsAssumption DEF Resident
  <2>4. \A j \in EntryIds : status'[r][j] # "free" => j = k
    BY <2>1, <2>3 DEF StartLaunch, TypeOK
  <2>5. \A x \in ExecIds : child'[r][x] # "free" => owner'[r][x] \in EntryIds
    <3>1. RunLive(r, k, e) \/ NeverLive(r, k)
      BY <2>1 DEF StartLaunch
    <3> QED BY <3>1, LaunchOwned DEF Resident
  <2> QED BY <2>2, <2>3, <2>4, <2>5 DEF Resident, Counts, Resumable
<1>4. CASE \E k \in EntryIds : StartSeedFailed(r, k)
  <2>1. PICK k \in EntryIds : StartSeedFailed(r, k)
    BY <1>4
  <2>2. /\ starting[r] # "no" /\ starting'[r] = "no" /\ cur'[r] = k /\ substitute'[r][k] = FALSE
        /\ row'[r] \in {row[r], "failed"} /\ row[r] # "none" /\ waiting' = waiting
    <3>1. starting[r] = "fetching" /\ row'[r] \in {row[r], "failed"}
      BY <2>1 DEF StartSeedFailed, RecordAndFail, SetRow, TypeOK
    <3> QED BY <2>1, <3>1 DEF StartSeedFailed, TypeOK, Resident
  <2>3. k # 0 /\ cur[r] = 0 /\ \A j \in EntryIds : status[r][j] = "free"
    BY <2>2, IdsAssumption DEF Resident
  <2>4. \A j \in EntryIds : status'[r][j] # "free" => j = k
    BY <2>1, <2>3 DEF StartSeedFailed, TypeOK
  <2>5. \A x \in ExecIds : child'[r][x] # "free" => owner'[r][x] \in EntryIds
    BY <2>1 DEF StartSeedFailed, Resident
  <2> QED BY <2>2, <2>3, <2>4, <2>5 DEF Resident, Counts, Resumable
<1> QED BY <1>1, <1>2, <1>3, <1>4 DEF Start

\* Requests for a run in _runs; there are no others while all that can be resumed are there.
LEMMA ControlCounts ==
    ASSUME TypeOK, NEW r \in Runs, Resident(r), Control(r)
    PROVE  Resident(r)' /\ (Counts(r)' => Counts(r))
<1>1. /\ row[r] \in Resumable => cur[r] # 0
      /\ \A c \in Callers : waiting[r][c] = NoRequest
      /\ cur[r] # 0 => ~substitute[r][cur[r]]
      /\ cur[r] # 0 => starting[r] = "no" /\ row[r] # "none" /\ cur[r] \in EntryIds
  BY DEF Resident, TypeOK
<1>2. CASE SuspendCached(r) \/ StopCached(r)
  <2>1. /\ cur[r] # 0 /\ UNCHANGED <<starting, cur, substitute, waiting>>
        /\ status[r][cur[r]] \notin Terminal /\ row'[r] # "none"
    <3>1. cur[r] # 0 /\ UNCHANGED <<starting, cur, substitute, waiting>>
          /\ row'[r] \in {row[r], "suspended", "stopped"}
      BY <1>2 DEF SuspendCached, StopCached, Cached, Transition, SetRow, TypeOK
    <3>2. status[r][cur[r]] \notin Terminal
      BY <1>2 DEF SuspendCached, StopCached, Terminal
    <3> QED BY <1>1, <3>1, <3>2
  <2>2. \A k \in EntryIds : status'[r][k] # "free" => cur[r] = k
    BY <1>2, <2>1 DEF SuspendCached, StopCached, Resident, TypeOK
  <2>3. \A e \in ExecIds : child'[r][e] # "free" => owner'[r][e] \in EntryIds
    <3>1. \A e \in ExecIds : child'[r][e] # "free" => child[r][e] # "free"
      BY <1>2 DEF SuspendCached, StopCached, Killed, TypeOK
    <3> QED BY <1>2, <3>1 DEF SuspendCached, StopCached, Resident
  <2> QED BY <1>1, <2>1, <2>2, <2>3 DEF Resident, Counts
<1>3. CASE ResumeDropped(r)
  BY <1>1, <1>3 DEF ResumeDropped, Cached
<1>4. CASE \E e \in ExecIds : ResumeCached(r, e)
  <2>1. /\ cur[r] # 0 /\ UNCHANGED <<starting, cur, substitute, waiting>>
        /\ status[r][cur[r]] \in Resumable /\ row'[r] \in {row[r], "running"}
    BY <1>4 DEF ResumeCached, Cached, ResumeEntry, SetRow, TypeOK
  <2>2. \A k \in EntryIds : status'[r][k] # "free" => cur[r] = k
    BY <1>1, <1>4, <2>1 DEF ResumeCached, ResumeEntry, Resident, TypeOK
  <2>3. \A e \in ExecIds : child'[r][e] # "free" => owner'[r][e] \in EntryIds
    <3>1. PICK e \in ExecIds : ResumeCached(r, e)
      BY <1>4
    <3>2. RunLive(r, cur[r], e) \/ NeverLive(r, cur[r])
      BY <3>1 DEF ResumeCached, ResumeEntry
    <3> QED BY <1>1, <2>1, <3>2, LaunchOwned DEF Resident
  <2> QED BY <1>1, <2>1, <2>2, <2>3 DEF Resident, Counts, Resumable, Terminal
<1>5. CASE \E c \in Callers, op \in Ops : Ask(r, c, op) \/ ServeAtOnce(r, c, op)
  BY <1>1, <1>5 DEF Ask, ServeAtOnce, Uncached
<1>6. CASE \E c \in Callers : ServeWaiting(r, c)
  BY <1>1, <1>6 DEF ServeWaiting
<1> QED BY <1>2, <1>3, <1>4, <1>5, <1>6 DEF Control

LEMMA SettleCounts ==
    ASSUME TypeOK, NEW r \in Runs, Resident(r), NEW e \in ExecIds, Settle(r, e)
    PROVE  Resident(r)' /\ (Counts(r)' => Counts(r))
<1>1. UNCHANGED <<starting, cur, substitute, waiting, owner>>
  BY DEF Settle, SettleIgnored, SettleResult, SettleError
<1>2. \A x \in ExecIds : child'[r][x] # "free" => owner'[r][x] \in EntryIds
  <2>1. Gone(r, e)
    BY DEF Settle, SettleIgnored, SettleResult, SettleError
  <2> QED BY <1>1, <2>1 DEF Gone, Resident, TypeOK
<1>3. CASE row' = row /\ status' = status
  BY <1>1, <1>2, <1>3 DEF Resident, Counts
<1>4. CASE SettleResult(r, e) \/ \E code \in {"SCRIPT", "ABORTED"} : SettleError(r, e, code)
  <2> DEFINE k == owner[r][e]
  <2>1. child[r][e] # "free" /\ status[r][k] = "running"
    BY <1>4 DEF SettleResult, SettleError, MaySettle
  <2>2. k \in EntryIds /\ cur[r] = k
    BY <2>1 DEF Resident
  <2>3. row'[r] \in {row[r], "completed", "failed"}
    BY <1>4 DEF SettleResult, SettleError, Transition, RecordAndFail, SetRow, TypeOK
  <2>4. /\ status'[r][k] \in {status[r][k], "completed", "failed"}
        /\ \A j \in EntryIds : j # k => status'[r][j] = status[r][j]
    <3>1. \/ status' = status
          \/ \E x \in {"completed", "failed"} : status' = [status EXCEPT ![r][k] = x]
      BY <1>4 DEF SettleResult, SettleError
    <3> QED BY <2>2, <3>1 DEF TypeOK
  <2>5. starting[r] = "no" /\ row[r] # "none" /\ k # 0
    BY <2>2, IdsAssumption DEF Resident, TypeOK
  <2> HIDE DEF k
  <2>6. \A j \in EntryIds : status'[r][j] # "free" => cur'[r] = j
    BY <1>1, <2>2, <2>4 DEF Resident
  <2> QED BY <1>1, <1>2, <2>1, <2>2, <2>3, <2>4, <2>5, <2>6 DEF Resident, Counts, Resumable, Terminal
<1> QED BY <1>3, <1>4 DEF Settle, SettleIgnored

\* The runs that count for the cap are among those that may come to.
LEMMA LiveBusy == Live \subseteq Busy
BY DEF Live, Busy, Counts

\* Another start() is admitted only when none is under way: then the busy runs are the live ones.
LEMMA AdmitKeepsCap ==
    ASSUME CapKept, NEW r \in Runs, StartAdmit(r), OneStartAtATime', TypeOK
    PROVE  /\ IsFiniteSet(Busy \cup {r}) /\ Cardinality(Busy \cup {r}) <= MaxConcurrentRuns
<1>1. \A q \in Runs : q # r => starting[q] = "no"
  <2>1. /\ starting'[r] # "no"
        /\ \A q \in Runs : q # r => starting'[q] = starting[q]
    BY DEF StartAdmit, TypeOK
  <2> QED BY <2>1 DEF OneStartAtATime
<1>2. Busy \subseteq Live
  BY <1>1 DEF StartAdmit, Busy, Counts, Live
<1>3. Busy = Live
  BY <1>2, LiveBusy
<1>4. Cardinality(Busy) < MaxConcurrentRuns
  BY <1>3 DEF StartAdmit
<1>5. IsFiniteSet(Busy) /\ Cardinality(Busy) \in Nat
  BY FS_CardinalityType DEF CapKept
<1>6. /\ IsFiniteSet(Busy \cup {r})
      /\ Cardinality(Busy \cup {r}) = IF r \in Busy THEN Cardinality(Busy) ELSE Cardinality(Busy) + 1
  BY <1>5, FS_AddElement
<1>7. Cardinality(Busy \cup {r}) <= Cardinality(Busy) + 1
  BY <1>5, <1>6
<1> QED BY <1>4, <1>5, <1>6, <1>7, CapAssumption

\* A step of one run keeps the cap.
LEMMA RunKeepsCap ==
    ASSUME TypeOK, CapKept, OneStartAtATime', NEW r \in Runs,
           Start(r) \/ Control(r) \/ \E e \in ExecIds : Settle(r, e)
    PROVE  CapKept'
<1>1. Resident(r)
  BY DEF CapKept
<1>2. Resident(r)' /\ (Counts(r)' => Counts(r) \/ StartAdmit(r))
  BY <1>1, StartCounts, ControlCounts, SettleCounts
<1>3. \A q \in Runs : q # r => Resident(q)' /\ (Counts(q)' <=> Counts(q))
  BY OthersSame, SameCounts DEF CapKept
<1>4. /\ proc' = "up" /\ \A q \in Runs : Resident(q)'
  <2>1. proc' = proc
    BY DEF Start, StartAdmit, StartRefused, StartFetch, StartThrows, StartLaunch, StartSeedFailed,
           Control, SuspendCached, StopCached, ResumeDropped, ResumeCached, Ask, ServeAtOnce,
           ServeWaiting, Settle, SettleIgnored, SettleResult, SettleError
  <2> QED BY <1>2, <1>3, <2>1 DEF CapKept
<1>5. CASE StartAdmit(r)
  <2>1. Busy' \subseteq Busy \cup {r}
    BY <1>3 DEF Busy
  <2>2. IsFiniteSet(Busy \cup {r}) /\ Cardinality(Busy \cup {r}) <= MaxConcurrentRuns
    BY <1>5, AdmitKeepsCap
  <2>3. /\ IsFiniteSet(Busy') /\ Cardinality(Busy') <= Cardinality(Busy \cup {r})
        /\ Cardinality(Busy \cup {r}) \in Nat /\ Cardinality(Busy') \in Nat
    BY <2>1, <2>2, FS_Subset, FS_CardinalityType
  <2>4. Cardinality(Busy') <= MaxConcurrentRuns
    BY <2>2, <2>3, CapAssumption
  <2> QED BY <1>4, <2>3, <2>4 DEF CapKept
<1>6. CASE ~StartAdmit(r)
  <2>1. Busy' \subseteq Busy
    BY <1>2, <1>3, <1>6 DEF Busy
  <2>2. proc' = proc
    BY <1>4 DEF CapKept
  <2> QED BY <1>4, <2>1, <2>2, NoMoreBusy
<1> QED BY <1>5, <1>6

\* In the life of one process, no more runs are live than the cap allows as long as no two start()
\* calls overlap: the awaits between the check and the entry are the only way past it.
THEOREM CapHolds ==
    ASSUME MaxRestarts = 0 PROVE Spec /\ []OneStartAtATime => []CapRespected
<1>1. Init => CapKept
  <2> SUFFICES ASSUME Init PROVE CapKept
    OBVIOUS
  <2>1. proc = "up" /\ \A r \in Runs : Resident(r)
    BY DEF Init, Every, Resident, Resumable
  <2>2. Busy = {}
    BY DEF Init, Every, Busy, Counts
  <2> QED BY <2>1, <2>2, FS_EmptySet, CapAssumption DEF CapKept
<1>2. TypeOK /\ CapKept /\ OneStartAtATime' /\ [Next]_vars => CapKept'
  <2> SUFFICES ASSUME TypeOK, CapKept, OneStartAtATime', [Next]_vars PROVE CapKept'
    OBVIOUS
  <2>1. CASE \E r \in Runs : Start(r) \/ Control(r) \/ \E e \in ExecIds : Settle(r, e)
    BY <2>1, RunKeepsCap
  <2>2. CASE BookRefreshed \/ BookExpires \/ UNCHANGED vars
    <3>1. \A r \in Runs : SameRun(r)
      BY <2>2 DEF BookRefreshed, BookExpires, vars, durable, memory, SameRun
    <3>2. proc' = proc
      BY <2>2 DEF BookRefreshed, BookExpires, vars
    <3>3. \A r \in Runs : Resident(r)' /\ (Counts(r)' <=> Counts(r))
      BY <3>1, SameCounts DEF CapKept
    <3>4. Busy' \subseteq Busy
      BY <3>3 DEF Busy
    <3> QED BY <3>2, <3>3, <3>4, NoMoreBusy
  <2>3. ~ProcessStep
    <3>1. ~Restarted
      BY DEF Restarted, TypeOK
    <3> QED BY <3>1 DEF ProcessStep, Crash, Shutdown, Exit, Boot, CrashAfterCreate, CrashAfterRecord, CapKept
  <2> QED BY <2>1, <2>2, <2>3 DEF Next
<1>3. CapKept => CapRespected
  <2> SUFFICES ASSUME CapKept PROVE CapRespected
    OBVIOUS
  <2>1. /\ Cardinality(Live) <= Cardinality(Busy)
        /\ Cardinality(Live) \in Nat /\ Cardinality(Busy) \in Nat
    BY LiveBusy, FS_Subset, FS_CardinalityType DEF CapKept
  <2> QED BY <2>1, CapAssumption DEF CapKept, CapRespected
<1> QED BY <1>1, <1>2, <1>3, TypeCorrect, PTL DEF Spec

=============================================================================
