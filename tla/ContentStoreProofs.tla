-------------------------- MODULE ContentStoreProofs --------------------------
(***************************************************************************)
(* Every row of the content store has its file, the seed of every version  *)
(* is whole, and no run starts with a part of its seed, for any number of  *)
(* principals, blobs, uploads and starts.  The invariant that carries this *)
(* says of what a start or a registration has found that it is still there *)
(* and was used no longer ago than the wait has lasted (Fresh), which is   *)
(* too recent for any prune.  That no quota is passed needs sums over sets *)
(* of blobs, which have a section of their own.                            *)
(***************************************************************************)
EXTENDS ContentStore, FiniteSetTheorems, WellFoundedInduction, TLAPS

Waits(j) == job[j].is \in {"start", "register"}

\* What a waiting start or registration has found is there and was used since.
Fresh ==
    \A j \in Jobs : Waits(j) =>
        \A r \in Seed(job[j].ns, job[j].ref) : r \in refs /\ idle[r] <= job[j].wait

IInv == TypeOK /\ RowsHaveFiles /\ SeedsServe /\ Fresh /\ SeedsComplete

\* Waiting jobs have the fields of Waiting, and rows are pairs.
LEMMA Fields ==
    ASSUME TypeOK
    PROVE  /\ \A j \in Jobs : job[j] = NoJob \/ job[j] \in Waiting
           /\ \A j \in Jobs : job[j] # NoJob =>
                 /\ job[j].ns \in Namespaces /\ job[j].ref \in Blobs /\ job[j].wait \in 0..MaxWait
                 /\ job[j].is \in {"start", "register", "short"}
           /\ \A u \in Uploads : upload[u] # NoUpload =>
                 upload[u].ns \in Namespaces /\ upload[u].sha \in Blobs
           /\ \A r \in Rows : r = <<r[1], r[2]>> /\ r[1] \in Namespaces /\ r[2] \in Blobs
           /\ MaxWait \in Nat /\ MaxIdle \in Nat /\ MaxCrashes \in Nat
           /\ \A b \in Blobs : Listed[b] \subseteq Blobs
<1>1. \A j \in Jobs : job[j] = NoJob \/ job[j] \in Waiting
  BY DEF TypeOK
<1>2. \A u \in Uploads : upload[u] = NoUpload \/ upload[u] \in Stream
  BY DEF TypeOK
<1>3. \A j \in Jobs : job[j] # NoJob =>
         /\ job[j].ns \in Namespaces /\ job[j].ref \in Blobs /\ job[j].wait \in 0..MaxWait
         /\ job[j].is \in {"start", "register", "short"}
  BY <1>1 DEF Waiting
<1>4. \A u \in Uploads : upload[u] # NoUpload =>
         upload[u].ns \in Namespaces /\ upload[u].sha \in Blobs
  BY <1>2 DEF Stream
<1> QED BY <1>1, <1>3, <1>4, StoreAssumption DEF Rows

LEMMA NoJobWaits == NoJob.is = "idle"
BY DEF NoJob

\* The seeds of namespaces and blobs are rows.
LEMMA SeedRows ==
    ASSUME NEW ns \in Namespaces, NEW ref \in Blobs
    PROVE  Seed(ns, ref) \subseteq Rows
BY StoreAssumption DEF Seed, Rows

\* A step that takes no row away nor makes one older, and begins no job.
LEMMA GrowthKeeps ==
    ASSUME IInv, TypeOK', RowsHaveFiles', roots' \subseteq roots,
           \A r \in refs : r \in refs' /\ idle'[r] <= idle[r],
           \A j \in Jobs : job'[j] = job[j] \/ job'[j] = NoJob
    PROVE  IInv'
<1>1. SeedsServe'
  BY DEF IInv, SeedsServe, Seed
<1>2. SeedsComplete'
  BY NoJobWaits DEF IInv, SeedsComplete
<1>3. Fresh'
  <2>1. SUFFICES ASSUME NEW j \in Jobs, Waits(j)',
                        NEW r \in Seed(job'[j].ns, job'[j].ref)
                 PROVE  r \in refs' /\ idle'[r] <= job'[j].wait
    BY DEF Fresh, Seed
  <2>2. job'[j] = job[j] /\ Waits(j)
    BY <2>1, NoJobWaits DEF Waits
  <2>3. r \in refs /\ idle[r] <= job[j].wait
    BY <2>1, <2>2 DEF IInv, Fresh
  <2>4. idle[r] \in Nat /\ idle'[r] \in Nat /\ job[j].wait \in Nat
    BY <2>2, <2>3, Fields, NoJobWaits DEF IInv, TypeOK, Waits
  <2> QED BY <2>2, <2>3, <2>4
<1> QED BY <1>1, <1>2, <1>3 DEF IInv

\* Marking rows as used keeps the type of idle and makes nothing older.
LEMMA TouchedYounger ==
    ASSUME TypeOK, NEW rows
    PROVE  /\ Touched(rows) \in [Rows -> 0..MaxIdle]
           /\ \A r \in Rows : Touched(rows)[r] <= idle[r]
           /\ \A r \in Rows : r \in rows => Touched(rows)[r] = 0
<1>1. idle \in [Rows -> 0..MaxIdle] /\ MaxIdle \in Nat
  BY StoreAssumption DEF TypeOK
<1> QED BY <1>1 DEF Touched

LEMMA InitInvariant == Init => IInv
<1> SUFFICES ASSUME Init PROVE IInv
  OBVIOUS
<1>1. TypeOK
  BY StoreAssumption DEF Init, TypeOK, Rows
<1>2. \A j \in Jobs : job[j] = NoJob
  BY DEF Init
<1> QED BY <1>1, <1>2, NoJobWaits
        DEF Init, IInv, RowsHaveFiles, SeedsServe, Fresh, SeedsComplete, Waits

-----------------------------------------------------------------------------
LEMMA PutKeeps ==
    ASSUME IInv, NEW ns \in Namespaces, NEW b \in Blobs, Put(ns, b)
    PROVE  IInv'
<1>1. <<ns, b>> \in Rows
  BY DEF Rows
<1>2. TypeOK'
  BY <1>1, TouchedYounger DEF Put, IInv, TypeOK
<1>3. RowsHaveFiles'
  BY DEF Put, IInv, RowsHaveFiles
<1>4. \A r \in refs : idle'[r] <= idle[r]
  BY TouchedYounger DEF Put, IInv, TypeOK
<1> QED BY <1>2, <1>3, <1>4, GrowthKeeps DEF Put

LEMMA TouchKeeps ==
    ASSUME IInv, NEW rows, idle' = Touched(rows),
           UNCHANGED <<refs, files, upload, job, roots, crashes>>
    PROVE  IInv'
<1>1. TypeOK'
  BY TouchedYounger DEF IInv, TypeOK
<1>2. RowsHaveFiles'
  BY DEF IInv, RowsHaveFiles
<1>3. \A r \in refs : idle'[r] <= idle[r]
  BY TouchedYounger DEF IInv, TypeOK
<1> QED BY <1>1, <1>2, <1>3, GrowthKeeps

LEMMA UploadKeeps ==
    ASSUME IInv, NEW u \in Uploads,
           \/ \E ns \in Namespaces, b \in Blobs : UploadBegin(u, ns, b)
           \/ UploadFails(u)
           \/ UploadEnds(u)
    PROVE  IInv'
<1>1. CASE \E ns \in Namespaces, b \in Blobs : UploadBegin(u, ns, b)
  <2>1. PICK ns \in Namespaces, b \in Blobs : UploadBegin(u, ns, b)
    BY <1>1
  <2>2. [is |-> "streaming", ns |-> ns, sha |-> b] \in Stream
    BY DEF Stream
  <2>3. TypeOK' /\ RowsHaveFiles' /\ \A r \in refs : idle[r] \in Nat
    BY <2>1, <2>2, Fields DEF UploadBegin, IInv, TypeOK, RowsHaveFiles
  <2> QED BY <2>1, <2>3, GrowthKeeps DEF UploadBegin
<1>2. CASE UploadFails(u)
  <2>1. TypeOK' /\ RowsHaveFiles' /\ \A r \in refs : idle[r] \in Nat
    BY <1>2, Fields DEF UploadFails, IInv, TypeOK, RowsHaveFiles
  <2> QED BY <1>2, <2>1, GrowthKeeps DEF UploadFails
<1>3. CASE UploadEnds(u)
  <2>1. upload[u].ns \in Namespaces /\ upload[u].sha \in Blobs
    BY <1>3, Fields DEF UploadEnds, IInv
  <2>2. <<upload[u].ns, upload[u].sha>> \in Rows
    BY <2>1 DEF Rows
  <2>3. TypeOK'
    BY <1>3, <2>1, <2>2, TouchedYounger DEF UploadEnds, Stored, IInv, TypeOK
  <2>4. RowsHaveFiles'
    BY <1>3 DEF UploadEnds, Stored, IInv, RowsHaveFiles
  <2>5. \A r \in refs : idle'[r] <= idle[r]
    BY <1>3, TouchedYounger DEF UploadEnds, Stored, IInv, TypeOK
  <2> QED BY <1>3, <2>3, <2>4, <2>5, GrowthKeeps DEF UploadEnds, Stored
<1> QED BY <1>1, <1>2, <1>3

LEMMA JobBeginKeeps ==
    ASSUME IInv, NEW j \in Jobs, NEW kind \in {"start", "register"},
           NEW ns \in Namespaces, NEW b \in Blobs, JobBegin(j, kind, ns, b)
    PROVE  IInv'
<1> DEFINE new == [is |-> kind, ns |-> ns, ref |-> b, wait |-> 0]
<1>1. new \in Waiting
  BY Fields DEF IInv, Waiting
<1>2. /\ job' = [job EXCEPT ![j] = new] /\ job \in [Jobs -> Waiting \cup {NoJob}]
      /\ Seed(ns, b) \subseteq refs /\ idle' = Touched(Seed(ns, b))
      /\ UNCHANGED <<refs, files, upload, roots, crashes>>
  BY DEF JobBegin, Load, IInv, TypeOK
<1>3. TypeOK'
  BY <1>1, <1>2, TouchedYounger DEF IInv, TypeOK
<1>4. RowsHaveFiles' /\ SeedsServe'
  BY <1>2 DEF IInv, RowsHaveFiles, SeedsServe, Seed
<1>5. SeedsComplete'
  BY <1>2 DEF IInv, SeedsComplete
<1>6. Fresh'
  <2>1. SUFFICES ASSUME NEW i \in Jobs, Waits(i)',
                        NEW r \in Seed(job'[i].ns, job'[i].ref)
                 PROVE  r \in refs' /\ idle'[r] <= job'[i].wait
    BY DEF Fresh, Seed
  <2>2. CASE i = j
    <3>1. job'[i].ns = ns /\ job'[i].ref = b /\ job'[i].wait = 0
      BY <1>2, <2>2
    <3>2. r \in Seed(ns, b) /\ r \in Rows
      BY <2>1, <3>1, <1>2 DEF IInv, TypeOK
    <3> QED BY <1>2, <3>1, <3>2, TouchedYounger DEF IInv
  <2>3. CASE i # j
    <3>1. job'[i] = job[i] /\ Waits(i)
      BY <1>2, <2>1, <2>3 DEF Waits
    <3>2. r \in refs /\ idle[r] <= job[i].wait /\ r \in Rows
      BY <2>1, <3>1 DEF IInv, Fresh, TypeOK
    <3>3. idle'[r] <= idle[r] /\ idle[r] \in Nat /\ idle'[r] \in Nat /\ job[i].wait \in Nat
      BY <1>2, <3>1, <3>2, <1>3, TouchedYounger, Fields, NoJobWaits DEF IInv, TypeOK, Waits
    <3> QED BY <1>2, <3>1, <3>2, <3>3
  <2> QED BY <2>2, <2>3
<1> QED BY <1>3, <1>4, <1>5, <1>6 DEF IInv

\* The end of a job.
LEMMA JobEndKeeps ==
    ASSUME IInv, NEW j \in Jobs, Materialize(j) \/ InsertVersion(j) \/ JobRefused(j)
    PROVE  IInv'
<1>1. /\ Waits(j) /\ job \in [Jobs -> Waiting \cup {NoJob}]
      /\ \A r \in Seed(job[j].ns, job[j].ref) : r \in refs
      /\ job[j].ns \in Namespaces /\ job[j].ref \in Blobs
  BY Fields, NoJobWaits DEF Materialize, InsertVersion, JobRefused, Waits, IInv, Fresh, TypeOK
<1>2. Listed[job[j].ref] \subseteq files
  <2>1. \A b \in Listed[job[j].ref] : <<job[j].ns, b>> \in refs
    BY <1>1 DEF Seed
  <2> QED BY <2>1 DEF IInv, RowsHaveFiles
<1>3. /\ job' = [job EXCEPT ![j] = NoJob] /\ UNCHANGED <<refs, idle, files, upload, crashes>>
      /\ \/ UNCHANGED roots
         \/ roots' = roots \cup {<<job[j].ns, job[j].ref>>}
  BY <1>2 DEF Materialize, InsertVersion, JobRefused
<1>4. <<job[j].ns, job[j].ref>> \in Rows
  BY <1>1 DEF Rows
<1>5. TypeOK'
  BY <1>1, <1>3, <1>4 DEF IInv, TypeOK
<1>6. RowsHaveFiles'
  BY <1>3 DEF IInv, RowsHaveFiles
<1>7. SeedsServe'
  BY <1>1, <1>3 DEF IInv, SeedsServe, Seed
<1>8. Fresh' /\ SeedsComplete'
  <2>1. \A i \in Jobs : job'[i] = job[i] \/ job'[i] = NoJob
    BY <1>1, <1>3
  <2>2. \A i \in Jobs : Waits(i)' => job'[i] = job[i] /\ Waits(i)
    BY <2>1, NoJobWaits DEF Waits
  <2>3. Fresh'
    BY <1>3, <2>2 DEF IInv, Fresh, Seed
  <2>4. SeedsComplete'
    BY <2>1, NoJobWaits DEF IInv, SeedsComplete
  <2> QED BY <2>3, <2>4
<1> QED BY <1>5, <1>6, <1>7, <1>8 DEF IInv

-----------------------------------------------------------------------------
\* The rows that a prune leaves include every seed of a version and of a waiting job.
LEMMA PruneSpares ==
    ASSUME IInv, NEW ns \in Namespaces, NEW days \in Graces
    PROVE  LET kept == refs \ ({ns} \X Victims(ns, days)) IN
           /\ \A r \in roots : Seed(r[1], r[2]) \subseteq kept
           /\ \A j \in Jobs : Waits(j) => Seed(job[j].ns, job[j].ref) \subseteq kept
<1> DEFINE kept == refs \ ({ns} \X Victims(ns, days))
<1>1. ASSUME NEW r \in roots, NEW s \in Seed(r[1], r[2]) PROVE s \in kept
  <2>1. /\ s \in refs /\ s[1] = r[1] /\ s[2] \in {r[2]} \cup Listed[r[2]] /\ s = <<s[1], s[2]>>
        /\ <<r[1], r[2]>> \in refs
    BY <1>1 DEF IInv, SeedsServe, Seed
  <2>2. r[2] \in files
    BY <2>1 DEF IInv, RowsHaveFiles
  <2>3. s[2] \in Rooted(r)
    BY <2>1, <2>2 DEF Rooted
  <2>4. s[1] = ns => s[2] \in Protect(ns)
    BY <2>1, <2>3 DEF Protect
  <2>5. s[1] = ns => s[2] \notin Victims(ns, days)
    BY <2>4 DEF Victims
  <2> QED BY <2>1, <2>5
<1>2. ASSUME NEW j \in Jobs, Waits(j), NEW s \in Seed(job[j].ns, job[j].ref) PROVE s \in kept
  <2>1. s \in refs /\ idle[s] <= job[j].wait /\ s = <<s[1], s[2]>>
    BY <1>2 DEF IInv, Fresh, Seed
  <2>2. idle[s] \in Nat /\ job[j].wait \in 0..MaxWait /\ days \in Nat /\ MaxWait <= days
    BY <2>1, <1>2, Fields, NoJobWaits, StoreAssumption DEF IInv, TypeOK, Waits
  <2>3. ~(idle[s] > days)
    BY <2>1, <2>2, StoreAssumption
  <2>4. s[1] = ns => s[2] \notin Victims(ns, days)
    BY <2>1, <2>3 DEF Victims
  <2> QED BY <2>1, <2>4
<1> QED BY <1>1, <1>2

\* Prune, and a crash in the midst of it.
LEMMA PruneKeeps ==
    ASSUME IInv, NEW ns \in Namespaces, NEW days \in Graces,
           Prune(ns, days) \/ CrashInPrune(ns, days)
    PROVE  IInv'
<1> DEFINE gone == Victims(ns, days)
           kept == refs \ ({ns} \X gone)
<1>1. /\ refs' = kept /\ idle' = Forgotten(kept) /\ UNCHANGED roots
      /\ files' = files \/ files' = files \ Unlinked(kept, gone)
      /\ \A j \in Jobs : job'[j] = job[j] \/ job'[j] = NoJob
  BY DEF Prune, CrashInPrune, Restarted
<1>2. idle \in [Rows -> 0..MaxIdle] /\ refs \subseteq Rows /\ MaxIdle \in Nat
  BY StoreAssumption DEF IInv, TypeOK
<1>3. idle' \in [Rows -> 0..MaxIdle] /\ \A r \in kept : idle'[r] = idle[r]
  BY <1>1, <1>2 DEF Forgotten
<1>4. TypeOK'
  <2>1. CASE Prune(ns, days)
    BY <2>1, <1>1, <1>2, <1>3 DEF Prune, IInv, TypeOK
  <2>2. CASE CrashInPrune(ns, days)
    <3>1. crashes' \in 0..MaxCrashes
      BY <2>2, StoreAssumption DEF CrashInPrune, Restarted, IInv, TypeOK
    <3> QED BY <2>2, <3>1, <1>1, <1>2, <1>3 DEF CrashInPrune, Restarted, IInv, TypeOK
  <2> QED BY <2>1, <2>2
<1>5. RowsHaveFiles'
  <2>1. SUFFICES ASSUME NEW r \in kept PROVE r[2] \in files'
    BY <1>1 DEF RowsHaveFiles
  <2>2. r[2] \in files /\ r = <<r[1], r[2]>> /\ r[1] \in Namespaces
    BY <1>2, Fields DEF IInv, RowsHaveFiles
  <2>3. r[2] \notin Unlinked(kept, gone)
    BY <2>2 DEF Unlinked
  <2> QED BY <1>1, <2>2, <2>3
<1>6. SeedsServe'
  BY <1>1, PruneSpares DEF SeedsServe, Seed
<1>7. \A j \in Jobs : Waits(j)' => job'[j] = job[j] /\ Waits(j)
  BY <1>1, NoJobWaits DEF Waits
<1>8. Fresh'
  <2>1. SUFFICES ASSUME NEW j \in Jobs, Waits(j)',
                        NEW r \in Seed(job'[j].ns, job'[j].ref)
                 PROVE  r \in refs' /\ idle'[r] <= job'[j].wait
    BY DEF Fresh, Seed
  <2>2. job'[j] = job[j] /\ Waits(j) /\ r \in Seed(job[j].ns, job[j].ref)
    BY <2>1, <1>7
  <2>3. r \in kept
    BY <2>2, PruneSpares
  <2>4. idle[r] <= job[j].wait
    BY <2>2 DEF IInv, Fresh
  <2> QED BY <1>1, <1>3, <2>2, <2>3, <2>4
<1>9. SeedsComplete'
  BY <1>1, NoJobWaits DEF IInv, SeedsComplete
<1> QED BY <1>4, <1>5, <1>6, <1>8, <1>9 DEF IInv

LEMMA CrashKeeps ==
    ASSUME IInv, Crash \/ \E b \in Blobs : CrashInPut(b)
    PROVE  IInv'
<1>1. /\ refs' = refs /\ idle' = idle /\ roots' = roots
      /\ files \subseteq files' /\ files' \subseteq files \cup Blobs
      /\ \A j \in Jobs : job'[j] = NoJob
      /\ job' = [j \in Jobs |-> NoJob] /\ upload' = [u \in Uploads |-> NoUpload]
      /\ crashes' = crashes + 1 /\ crashes < MaxCrashes
  BY DEF Crash, CrashInPut, Restarted
<1>2. crashes' \in 0..MaxCrashes
  BY <1>1, StoreAssumption DEF IInv, TypeOK
<1>3. TypeOK'
  BY <1>1, <1>2 DEF IInv, TypeOK
<1>4. RowsHaveFiles'
  BY <1>1 DEF IInv, RowsHaveFiles
<1>5. \A r \in refs : idle'[r] <= idle[r]
  BY <1>1, Fields DEF IInv, TypeOK
<1> QED BY <1>1, <1>3, <1>4, <1>5, GrowthKeeps

LEMMA DayKeeps == ASSUME IInv, Day PROVE IInv'
<1>1. /\ idle \in [Rows -> 0..MaxIdle] /\ refs \subseteq Rows /\ MaxIdle \in Nat /\ MaxWait \in Nat
      /\ job \in [Jobs -> Waiting \cup {NoJob}]
      /\ UNCHANGED <<refs, files, upload, roots, crashes>>
  BY StoreAssumption DEF IInv, TypeOK, Day
<1>2. /\ idle' \in [Rows -> 0..MaxIdle]
      /\ \A r \in Rows : idle'[r] <= idle[r] + 1
  BY <1>1 DEF Day
<1>3. \A j \in Jobs : IF Waits(j) THEN job'[j] = [job[j] EXCEPT !.wait = job[j].wait + 1]
                                  ELSE job'[j] = job[j]
  BY DEF Day, Waits
<1>4. \A j \in Jobs : Waits(j) =>
        /\ job'[j] \in Waiting /\ job'[j].is = job[j].is /\ job'[j].ns = job[j].ns
        /\ job'[j].ref = job[j].ref /\ job'[j].wait = job[j].wait + 1
  <2>1. SUFFICES ASSUME NEW j \in Jobs, Waits(j)
                 PROVE  /\ job'[j] \in Waiting /\ job'[j].is = job[j].is /\ job'[j].ns = job[j].ns
                        /\ job'[j].ref = job[j].ref /\ job'[j].wait = job[j].wait + 1
    OBVIOUS
  <2>2. job[j] \in Waiting /\ job[j].wait < MaxWait
    BY <2>1, <1>1, NoJobWaits DEF Waits, Day
  <2>3. job[j].wait \in 0..MaxWait /\ job[j].wait + 1 \in 0..MaxWait
    BY <2>2, <1>1 DEF Waiting
  <2> QED BY <1>3, <2>1, <2>2, <2>3 DEF Waiting
<1>5. job' \in [Jobs -> Waiting \cup {NoJob}]
  <2>1. \A j \in Jobs : job'[j] \in Waiting \cup {NoJob}
    BY <1>1, <1>3, <1>4
  <2>2. DOMAIN job' = Jobs /\ job' = [j \in Jobs |-> job'[j]]
    BY DEF Day
  <2> QED BY <2>1, <2>2
<1>6. TypeOK'
  BY <1>1, <1>2, <1>5 DEF IInv, TypeOK
<1>7. RowsHaveFiles' /\ SeedsServe'
  BY <1>1 DEF IInv, RowsHaveFiles, SeedsServe, Seed
<1>8. \A j \in Jobs : job'[j].is = job[j].is
  BY <1>3, <1>4
<1>9. SeedsComplete'
  BY <1>8 DEF IInv, SeedsComplete
<1>10. Fresh'
  <2>1. SUFFICES ASSUME NEW j \in Jobs, Waits(j)',
                        NEW r \in Seed(job'[j].ns, job'[j].ref)
                 PROVE  r \in refs' /\ idle'[r] <= job'[j].wait
    BY DEF Fresh, Seed
  <2>2. Waits(j)
    BY <2>1, <1>8 DEF Waits
  <2>3. r \in refs /\ idle[r] <= job[j].wait /\ job'[j].wait = job[j].wait + 1
    BY <2>1, <2>2, <1>4 DEF IInv, Fresh
  <2>4. idle[r] \in Nat /\ idle'[r] \in Nat /\ job[j].wait \in Nat /\ idle'[r] <= idle[r] + 1
    BY <2>2, <2>3, <1>1, <1>2, Fields, NoJobWaits DEF IInv, Waits
  <2> QED BY <1>1, <2>3, <2>4
<1> QED BY <1>6, <1>7, <1>9, <1>10 DEF IInv

-----------------------------------------------------------------------------
LEMMA NextKeeps == ASSUME IInv, [Next]_vars PROVE IInv'
<1>1. CASE \E ns \in Namespaces, b \in Blobs : Put(ns, b)
  BY <1>1, PutKeeps
<1>2. CASE \E ns \in Namespaces, b \in Blobs : LoadRefused(ns, b)
  BY <1>2, TouchKeeps DEF LoadRefused
<1>3. CASE \E ns \in Namespaces, shas \in SUBSET Blobs : Missing(ns, shas)
  BY <1>3, TouchKeeps DEF Missing
<1>4. CASE \E u \in Uploads : \/ \E ns \in Namespaces, b \in Blobs : UploadBegin(u, ns, b)
                              \/ UploadFails(u) \/ UploadEnds(u)
  BY <1>4, UploadKeeps
<1>5. CASE \E ns \in Namespaces, b \in Blobs : \E j \in Jobs, kind \in {"start", "register"} :
             JobBegin(j, kind, ns, b)
  BY <1>5, JobBeginKeeps
<1>6. CASE \E j \in Jobs : Materialize(j) \/ InsertVersion(j) \/ JobRefused(j)
  BY <1>6, JobEndKeeps
<1>7. CASE \E root \in roots : Deregister(root)
  <2>1. TypeOK' /\ RowsHaveFiles' /\ \A r \in refs : idle[r] \in Nat
    BY <1>7, Fields DEF Deregister, IInv, TypeOK, RowsHaveFiles
  <2> QED BY <1>7, <2>1, GrowthKeeps DEF Deregister
<1>8. CASE \E ns \in Namespaces, days \in Graces : Prune(ns, days) \/ CrashInPrune(ns, days)
  BY <1>8, PruneKeeps
<1>9. CASE Crash \/ \E b \in Blobs : CrashInPut(b)
  BY <1>9, CrashKeeps
<1>10. CASE Day
  BY <1>10, DayKeeps
<1>11. CASE UNCHANGED vars
  <2>1. TypeOK' /\ RowsHaveFiles' /\ \A r \in refs : idle[r] \in Nat
    BY <1>11, Fields DEF vars, IInv, TypeOK, RowsHaveFiles
  <2> QED BY <1>11, <2>1, GrowthKeeps DEF vars
<1> QED BY <1>1, <1>2, <1>3, <1>4, <1>5, <1>6, <1>7, <1>8, <1>9, <1>10, <1>11 DEF Next

LEMMA AlwaysInvariant == Spec => []IInv
<1>1. Init => IInv
  BY InitInvariant
<1>2. IInv /\ [Next]_vars => IInv'
  BY NextKeeps
<1> QED BY <1>1, <1>2, PTL DEF Spec

\* Rows, files, uploads and waiting requests keep their shape (cas-store.ts, the refs table).
THEOREM StoreTypeCorrect == Spec => []TypeOK
<1>1. IInv => TypeOK
  BY DEF IInv
<1> QED BY <1>1, AlwaysInvariant, PTL

\* A row of the refs table always has its file, whatever other namespaces prune and wherever
\* the engine dies (cas-store.ts putBlob, putBlobStream, prune).
THEOREM RowsAlwaysHaveFiles == Spec => []RowsHaveFiles
<1>1. IInv => RowsHaveFiles
  BY DEF IInv
<1> QED BY <1>1, AlwaysInvariant, PTL

\* The default seed of a registered version is never pruned away (mcp-facade.ts
\* workspacePruneBlobs).
THEOREM SeedsStay == Spec => []SeedsServe
<1>1. IInv => SeedsServe
  BY DEF IInv
<1> QED BY <1>1, AlwaysInvariant, PTL

\* A start finds after its wait all the blobs it has found before (run-manager.ts start,
\* workspace-seed.ts materializeManifest).
THEOREM NoPartialSeed == Spec => []SeedsComplete
<1>1. IInv => SeedsComplete
  BY DEF IInv
<1> QED BY <1>1, AlwaysInvariant, PTL

-----------------------------------------------------------------------------
(* The bytes of a set of blobs.  They are added up by a fold, which is a recursive function    *)
(* chosen for each set: that there is one, that all of them agree and that the order of the    *)
(* blobs does not matter is shown by induction, each time as "the least number that fails".   *)

Pick(s) == CHOOSE x \in s : TRUE

\* f adds up S and its subsets, blob by blob, in the order of Pick, as a fold over S does.
Adds(f, S) == f = [s \in SUBSET S |-> IF s = {} THEN 0 ELSE Size[Pick(s)] + f[s \ {Pick(s)}]]
Bytes(S) == MapThenSumSet(LAMBDA b : Size[b], S)

LEMMA BytesDef ==
    ASSUME NEW S
    PROVE  Bytes(S) = (CHOOSE f : Adds(f, S))[S]
BY DEF Bytes, Adds, Pick, MapThenSumSet, MapThenFoldSet

\* A set of natural numbers that holds 0 and with each number the next one holds them all.
LEMMA AllNumbers ==
    ASSUME NEW P \in SUBSET Nat, 0 \in P, \A n \in P : n + 1 \in P
    PROVE  P = Nat
<1> DEFINE R == OpToRel(<, Nat)
           Rest == Nat \ P
<1>1. IsWellFoundedOn(R, Nat)
  BY NatLessThanWellFounded
<1>2. SUFFICES ASSUME Rest # {} PROVE FALSE
  OBVIOUS
<1>3. PICK x \in Rest : \A y \in Rest : <<y, x>> \notin R
  <2>1. Rest \subseteq Nat
    OBVIOUS
  <2> HIDE DEF R, Rest
  <2> QED BY <1>1, <1>2, <2>1, WFMin
<1>4. x \in Nat /\ x \notin P /\ x # 0
  BY <1>3
<1>5. x - 1 \in Nat /\ x - 1 < x
  BY <1>4
<1>6. x - 1 \in P
  BY <1>3, <1>4, <1>5 DEF OpToRel
<1>7. (x - 1) + 1 = x
  BY <1>4
<1> QED BY <1>4, <1>6, <1>7

LEMMA Picked == ASSUME NEW s, s # {} PROVE Pick(s) \in s
BY DEF Pick

LEMMA Fewer ==
    ASSUME NEW s \in SUBSET Blobs, NEW x \in s
    PROVE  /\ IsFiniteSet(s) /\ Cardinality(s) \in Nat \ {0}
           /\ s \ {x} \in SUBSET Blobs /\ Cardinality(s \ {x}) = Cardinality(s) - 1
<1>1. IsFiniteSet(s)
  BY StoreAssumption, FS_Subset
<1>2. Cardinality(s) \in Nat /\ Cardinality(s \ {x}) = Cardinality(s) - 1 /\ Cardinality(s \ {x}) \in Nat
  BY <1>1, FS_CardinalityType, FS_RemoveElement
<1> QED BY <1>1, <1>2

\* A table of the sums of all sets of up to n blobs.
Upto(n) == {s \in SUBSET Blobs : Cardinality(s) <= n}
Table(g, n) ==
    /\ g \in [Upto(n) -> Nat]
    /\ \A s \in Upto(n) : g[s] = IF s = {} THEN 0 ELSE Size[Pick(s)] + g[s \ {Pick(s)}]

LEMMA Tables == \A n \in Nat : \E g : Table(g, n)
<1> DEFINE P == {n \in Nat : \E g : Table(g, n)}
<1>1. 0 \in P
  <2>1. \A s \in Upto(0) : s = {}
    <3> SUFFICES ASSUME NEW s \in Upto(0), s # {} PROVE FALSE
      OBVIOUS
    <3>1. Cardinality(s) \in Nat \ {0}
      BY Fewer DEF Upto
    <3> QED BY <3>1 DEF Upto
  <2>2. Table([s \in Upto(0) |-> 0], 0)
    BY <2>1 DEF Table
  <2> QED BY <2>2
<1>2. ASSUME NEW n \in P PROVE n + 1 \in P
  <2>1. PICK g : Table(g, n)
    OBVIOUS
  <2> DEFINE h == [s \in Upto(n + 1) |->
                     IF s = {} THEN 0 ELSE Size[Pick(s)] + g[s \ {Pick(s)}]]
  <2>2. ASSUME NEW s \in Upto(n + 1), s # {}
        PROVE  /\ Size[Pick(s)] \in Nat
               /\ s \ {Pick(s)} \in Upto(n) /\ s \ {Pick(s)} \in Upto(n + 1)
               /\ g[s \ {Pick(s)}] \in Nat
    <3>1. Pick(s) \in s /\ s \in SUBSET Blobs
      BY <2>2, Picked DEF Upto
    <3>2. s \ {Pick(s)} \in SUBSET Blobs /\ Cardinality(s \ {Pick(s)}) = Cardinality(s) - 1
          /\ Cardinality(s) \in Nat
      BY <3>1, Fewer
    <3>3. s \ {Pick(s)} \in Upto(n) /\ s \ {Pick(s)} \in Upto(n + 1)
      BY <3>2 DEF Upto
    <3> QED BY <3>1, <3>3, <2>1, StoreAssumption DEF Table
  <2>3. h \in [Upto(n + 1) -> Nat]
    BY <2>2
  <2>4. \A s \in Upto(n) : s \in Upto(n + 1) /\ h[s] = g[s]
    <3>1. \A s \in Upto(n) : s \in Upto(n + 1)
      <4>1. ASSUME NEW s \in Upto(n) PROVE Cardinality(s) \in Nat
        BY StoreAssumption, FS_Subset, FS_CardinalityType DEF Upto
      <4> QED BY <4>1 DEF Upto
    <3> QED BY <3>1, <2>1 DEF Table
  <2>5. Table(h, n + 1)
    BY <2>2, <2>3, <2>4 DEF Table
  <2> QED BY <2>5
<1>3. P = Nat
  <2> HIDE DEF P
  <2>1. P \subseteq Nat
    BY DEF P
  <2> QED BY <1>1, <1>2, <2>1, AllNumbers
<1> QED BY <1>3

\* The sums of all sets of blobs.
LEMMA Totals ==
    \E g \in [SUBSET Blobs -> Nat] :
       \A s \in SUBSET Blobs : g[s] = IF s = {} THEN 0 ELSE Size[Pick(s)] + g[s \ {Pick(s)}]
<1>1. IsFiniteSet(Blobs) /\ Cardinality(Blobs) \in Nat
  BY StoreAssumption, FS_CardinalityType
<1>2. Upto(Cardinality(Blobs)) = SUBSET Blobs
  BY <1>1, FS_Subset DEF Upto
<1>3. PICK g : Table(g, Cardinality(Blobs))
  BY <1>1, Tables
<1> QED BY <1>2, <1>3 DEF Table

\* Bytes adds up a set in the order of Pick.
LEMMA BytesAdd ==
    \E g \in [SUBSET Blobs -> Nat] : \A s \in SUBSET Blobs :
       /\ g[s] = IF s = {} THEN 0 ELSE Size[Pick(s)] + g[s \ {Pick(s)}]
       /\ g[s] = Bytes(s)
<1>1. PICK g \in [SUBSET Blobs -> Nat] :
        \A s \in SUBSET Blobs : g[s] = IF s = {} THEN 0 ELSE Size[Pick(s)] + g[s \ {Pick(s)}]
  BY Totals
<1>2. ASSUME NEW S \in SUBSET Blobs PROVE g[S] = Bytes(S)
  <2> DEFINE r == [s \in SUBSET S |-> g[s]]
             f == CHOOSE f : Adds(f, S)
  <2>1. Adds(r, S)
    <3>1. \A s \in SUBSET S : r[s] = IF s = {} THEN 0 ELSE Size[Pick(s)] + r[s \ {Pick(s)}]
      BY <1>1
    <3> QED BY <3>1 DEF Adds
  <2>2. Adds(f, S)
    BY <2>1
  <2>3. \A s \in SUBSET S : f[s] = IF s = {} THEN 0 ELSE Size[Pick(s)] + f[s \ {Pick(s)}]
    <3> HIDE DEF f
    <3> QED BY <2>2 DEF Adds
  <2> DEFINE P == {n \in Nat : \A s \in SUBSET S : Cardinality(s) = n => f[s] = g[s]}
  <2>4. 0 \in P
    <3>1. \A s \in SUBSET S : Cardinality(s) = 0 => s = {}
      BY Fewer
    <3> HIDE DEF f
    <3> QED BY <3>1, <1>1, <2>3
  <2>5. ASSUME NEW n \in P PROVE n + 1 \in P
    <3>1. SUFFICES ASSUME NEW s \in SUBSET S, Cardinality(s) = n + 1 PROVE f[s] = g[s]
      OBVIOUS
    <3>2. s # {} /\ s \in SUBSET Blobs
      BY <3>1, FS_EmptySet
    <3>3. Pick(s) \in s /\ Cardinality(s \ {Pick(s)}) = n /\ s \ {Pick(s)} \in SUBSET S
      BY <3>1, <3>2, Picked, Fewer
    <3>4. f[s \ {Pick(s)}] = g[s \ {Pick(s)}]
      BY <3>3
    <3> HIDE DEF f
    <3> QED BY <3>2, <3>4, <2>3, <1>1
  <2>6. P = Nat
    <3> HIDE DEF P
    <3>1. P \subseteq Nat
      BY DEF P
    <3> QED BY <2>4, <2>5, <3>1, AllNumbers
  <2>7. Cardinality(S) \in Nat
    BY StoreAssumption, FS_Subset, FS_CardinalityType
  <2>8. f[S] = g[S]
    <3> HIDE DEF f
    <3> QED BY <2>6, <2>7
  <2>9. Bytes(S) = f[S]
    BY BytesDef
  <2> QED BY <2>8, <2>9
<1> QED BY <1>1, <1>2

\* The order does not matter: any blob of the set may be counted first.
LEMMA BytesOfOne ==
    ASSUME NEW S \in SUBSET Blobs, NEW b \in S
    PROVE  Bytes(S) = Size[b] + Bytes(S \ {b}) /\ Bytes(S \ {b}) \in Nat /\ Bytes(S) \in Nat
<1>1. PICK g \in [SUBSET Blobs -> Nat] : \A s \in SUBSET Blobs :
         /\ g[s] = IF s = {} THEN 0 ELSE Size[Pick(s)] + g[s \ {Pick(s)}]
         /\ g[s] = Bytes(s)
  BY BytesAdd
<1> DEFINE P == {n \in Nat : \A s \in SUBSET Blobs : Cardinality(s) = n =>
                               \A x \in s : g[s] = Size[x] + g[s \ {x}]}
<1>2. 0 \in P
  BY Fewer
<1>3. ASSUME NEW n \in P PROVE n + 1 \in P
  <2>1. SUFFICES ASSUME NEW s \in SUBSET Blobs, Cardinality(s) = n + 1, NEW x \in s
                 PROVE  g[s] = Size[x] + g[s \ {x}]
    OBVIOUS
  <2> DEFINE y == Pick(s)
  <2>2. y \in s
    BY <2>1, Picked
  <2>3. g[s] = Size[y] + g[s \ {y}]
    BY <1>1, <2>2
  <2>4. CASE x = y
    BY <2>3, <2>4
  <2>5. CASE x # y
    <3>1. /\ Cardinality(s \ {x}) = n /\ s \ {x} \in SUBSET Blobs /\ y \in s \ {x}
          /\ Cardinality(s \ {y}) = n /\ s \ {y} \in SUBSET Blobs /\ x \in s \ {y}
      BY <2>1, <2>2, <2>5, Fewer
    <3>2. g[s \ {x}] = Size[y] + g[(s \ {x}) \ {y}] /\ g[s \ {y}] = Size[x] + g[(s \ {y}) \ {x}]
      BY <3>1
    <3>3. g[(s \ {x}) \ {y}] = g[(s \ {y}) \ {x}]
      <4>1. (s \ {x}) \ {y} = (s \ {y}) \ {x}
        OBVIOUS
      <4> QED BY <4>1, Zenon
    <3>4. Size[x] \in Nat /\ Size[y] \in Nat /\ g[(s \ {y}) \ {x}] \in Nat
      BY <2>1, <2>2, StoreAssumption
    <3> DEFINE gs == g[s]  gx == g[s \ {x}]  gy == g[s \ {y}]  gxy == g[(s \ {y}) \ {x}]
    <3>5. gs = Size[y] + gy /\ gx = Size[y] + gxy /\ gy = Size[x] + gxy
      BY <2>3, <3>2, <3>3
    <3>6. gs = Size[x] + gx
      <4> HIDE DEF y, gs, gx, gy, gxy
      <4>1. gxy \in Nat
        BY <3>4 DEF gxy
      <4> QED BY <3>4, <3>5, <4>1
    <3> QED BY <3>6
  <2> QED BY <2>4, <2>5
<1>4. P = Nat
  <2> HIDE DEF P
  <2>1. P \subseteq Nat
    BY DEF P
  <2> QED BY <1>2, <1>3, <2>1, AllNumbers
<1>5. Cardinality(S) \in Nat
  BY Fewer
<1> QED BY <1>1, <1>4, <1>5

\* Fewer blobs take no more bytes.
LEMMA BytesOfFewer ==
    ASSUME NEW S \in SUBSET Blobs, NEW T \in SUBSET S
    PROVE  Bytes(T) <= Bytes(S)
<1> DEFINE P == {n \in Nat : \A U \in SUBSET Blobs : T \subseteq U /\ Cardinality(U \ T) = n =>
                               Bytes(T) <= Bytes(U)}
<1>1. \A U \in SUBSET Blobs : Bytes(U) \in Nat
  BY BytesAdd
<1>2. 0 \in P
  <2>1. \A U \in SUBSET Blobs : T \subseteq U /\ Cardinality(U \ T) = 0 => U = T
    BY Fewer
  <2>2. Bytes(T) <= Bytes(T)
    BY <1>1
  <2> QED BY <2>1, <2>2
<1>3. ASSUME NEW n \in P PROVE n + 1 \in P
  <2>1. SUFFICES ASSUME NEW U \in SUBSET Blobs, T \subseteq U, Cardinality(U \ T) = n + 1
                 PROVE  Bytes(T) <= Bytes(U)
    OBVIOUS
  <2>2. PICK x \in U \ T : TRUE
    BY <2>1, FS_EmptySet
  <2>3. (U \ {x}) \ T = (U \ T) \ {x} /\ Cardinality((U \ T) \ {x}) = n
    BY <2>1, <2>2, Fewer
  <2>4. Bytes(T) <= Bytes(U \ {x})
    <3>1. U \ {x} \in SUBSET Blobs /\ T \subseteq U \ {x} /\ Cardinality((U \ {x}) \ T) = n
      BY <2>1, <2>2, <2>3
    <3> QED BY <3>1
  <2>5. Bytes(U) = Size[x] + Bytes(U \ {x}) /\ Size[x] \in Nat
    BY <2>2, BytesOfOne, StoreAssumption
  <2> QED BY <1>1, <2>4, <2>5
<1>4. P = Nat
  <2> HIDE DEF P
  <2>1. P \subseteq Nat
    BY DEF P
  <2> QED BY <1>2, <1>3, <2>1, AllNumbers
<1>5. Cardinality(S \ T) \in Nat
  BY StoreAssumption, FS_Subset, FS_CardinalityType
<1> QED BY <1>4, <1>5

LEMMA UsageIs ==
    /\ \A ns : Usage(ns) = Bytes(Held(ns))
    /\ \A ns : Usage(ns)' = Bytes(Held(ns)')
<1>1. ASSUME NEW ns PROVE Usage(ns) = Bytes(Held(ns))
  BY DEF Usage, Bytes
<1>2. ASSUME NEW ns PROVE Usage(ns)' = Bytes(Held(ns)')
  BY DEF Usage, Bytes, MapThenSumSet, MapThenFoldSet
<1> QED BY <1>1, <1>2

\* A step that adds no row.
LEMMA NoRowMore ==
    ASSUME WithinQuota, refs' \subseteq refs
    PROVE  WithinQuota'
<1> SUFFICES ASSUME NEW ns \in Metered PROVE Usage(ns)' <= Limit[ns]
  BY DEF WithinQuota
<1>1. Held(ns) \in SUBSET Blobs /\ Held(ns)' \in SUBSET Held(ns)
  BY DEF Held
<1>2. Bytes(Held(ns)') <= Bytes(Held(ns)) /\ Bytes(Held(ns)') \in Nat /\ Bytes(Held(ns)) \in Nat
  <2>1. \A S \in SUBSET Blobs : Bytes(S) \in Nat /\ \A T \in SUBSET S : Bytes(T) <= Bytes(S)
    BY BytesOfFewer, BytesAdd
  <2> QED BY <1>1, <2>1
<1>3. Usage(ns) <= Limit[ns] /\ Limit[ns] \in Nat
  BY StoreAssumption DEF WithinQuota
<1> QED BY <1>2, <1>3, UsageIs

\* A step that adds the row of a blob for which there is room.
LEMMA RowInLimit ==
    ASSUME WithinQuota, NEW ns \in Namespaces, NEW b \in Blobs,
           WithinLimit(ns, b, Size[b]), refs' = refs \cup {<<ns, b>>}
    PROVE  WithinQuota'
<1> SUFFICES ASSUME NEW n \in Metered PROVE Usage(n)' <= Limit[n]
  BY DEF WithinQuota
<1>1. CASE n = ns /\ b \notin Held(ns)
  <2>1. Held(n)' = Held(ns) \cup {b} /\ Held(ns) \cup {b} \in SUBSET Blobs
        /\ (Held(ns) \cup {b}) \ {b} = Held(ns)
    BY <1>1 DEF Held
  <2>2. Bytes(Held(n)') = Size[b] + Bytes(Held(ns)) /\ Bytes(Held(ns)) \in Nat /\ Size[b] \in Nat
    BY <2>1, BytesOfOne, StoreAssumption
  <2>3. Bytes(Held(ns)) + Size[b] <= Limit[ns] /\ Limit[ns] \in Nat
    BY <1>1, UsageIs, StoreAssumption DEF WithinLimit
  <2> QED BY <1>1, <2>2, <2>3, UsageIs
<1>2. CASE n # ns \/ b \in Held(ns)
  <2>1. Held(n)' = Held(n)
    BY <1>2 DEF Held
  <2> QED BY <2>1, UsageIs DEF WithinQuota
<1> QED BY <1>1, <1>2

LEMMA QuotaKept ==
    ASSUME TypeOK, WithinQuota, [Next]_vars
    PROVE  WithinQuota'
<1>1. CASE refs' \subseteq refs
  BY <1>1, NoRowMore
<1>2. CASE \E ns \in Namespaces, b \in Blobs : Put(ns, b)
  BY <1>2, RowInLimit DEF Put
<1>3. CASE \E u \in Uploads : UploadEnds(u)
  <2>1. PICK u \in Uploads : UploadEnds(u)
    BY <1>3
  <2>2. upload[u].ns \in Namespaces /\ upload[u].sha \in Blobs
    BY <2>1 DEF UploadEnds, TypeOK, Stream
  <2> QED BY <2>1, <2>2, RowInLimit DEF UploadEnds, Stored
<1>4. CASE Next /\ ~(\E ns \in Namespaces, b \in Blobs : Put(ns, b)) /\ ~(\E u \in Uploads : UploadEnds(u))
  <2>1. refs' \subseteq refs
    BY <1>4 DEF Next, LoadRefused, UploadBegin, JobBegin, Missing, UploadFails, Materialize,
                InsertVersion, JobRefused, Deregister, Prune, CrashInPrune, Crash, CrashInPut, Day
  <2> QED BY <2>1, NoRowMore
<1> QED BY <1>1, <1>2, <1>3, <1>4 DEF vars

\* However many uploads of a namespace go on at once, it does not hold more than its quota
\* (cas-store.ts _checkQuota, before the body and again after it).
THEOREM QuotasHold == Spec => []WithinQuota
<1>1. Init => WithinQuota
  <2> SUFFICES ASSUME Init, NEW ns \in Metered PROVE Usage(ns) <= Limit[ns]
    BY DEF WithinQuota
  <2>1. Held(ns) = {} /\ Bytes({}) = 0
    BY BytesAdd DEF Init, Held
  <2> QED BY <2>1, UsageIs, StoreAssumption
<1>2. IInv /\ WithinQuota /\ [Next]_vars => WithinQuota'
  BY QuotaKept DEF IInv
<1> QED BY <1>1, <1>2, AlwaysInvariant, PTL DEF Spec

-----------------------------------------------------------------------------
(* Files without a row.                                                    *)

\* A step that adds no file without its row and takes no row away.
LEMMA RowsGrow ==
    ASSUME NoFileLeftUntilCrash, crashes' = 0 => crashes = 0, refs \subseteq refs',
           \A b \in files' : b \in files \/ \E ns \in Namespaces : <<ns, b>> \in refs'
    PROVE  NoFileLeftUntilCrash'
BY DEF NoFileLeftUntilCrash

\* What a prune spares for a seed has the row of that seed.
LEMMA PruneLeavesNoFile ==
    ASSUME IInv, NoFileLeftUntilCrash, NEW ns \in Namespaces, NEW days \in Graces, Prune(ns, days)
    PROVE  NoFileLeftUntilCrash'
<1> DEFINE gone == Victims(ns, days)
           kept == refs \ ({ns} \X gone)
<1>1. /\ refs' = kept /\ files' = files \ Unlinked(kept, gone)
      /\ crashes' = crashes /\ roots' = roots
  BY DEF Prune
<1>2. SeedsServe'
  BY PruneKeeps DEF IInv
<1> SUFFICES ASSUME crashes = 0, NEW b \in files' PROVE \E n \in Namespaces : <<n, b>> \in kept
  BY <1>1 DEF NoFileLeftUntilCrash
<1>3. PICK n \in Namespaces : <<n, b>> \in refs
  BY <1>1 DEF NoFileLeftUntilCrash
<1>4. CASE <<n, b>> \in kept
  BY <1>4
<1>5. CASE <<n, b>> \notin kept
  <2>1. b \in gone
    BY <1>3, <1>5
  <2>2. b \in KeepFiles \/ \E m \in Namespaces : <<m, b>> \in kept
    BY <1>1, <2>1 DEF Unlinked
  <2>3. ASSUME b \in KeepFiles PROVE \E m \in Namespaces : <<m, b>> \in kept
    <3>1. PICK root \in roots : b \in Rooted(root)
      BY <2>3 DEF KeepFiles
    <3>2. root[1] \in Namespaces /\ b \in {root[2]} \cup Listed[root[2]]
      BY <3>1 DEF Rooted, IInv, TypeOK, Rows
    <3>3. <<root[1], b>> \in Seed(root[1], root[2])
      BY <3>2 DEF Seed
    <3>4. Seed(root[1], root[2]) \subseteq kept
      BY <1>1, <1>2 DEF SeedsServe, Seed
    <3> QED BY <3>2, <3>3, <3>4
  <2> QED BY <2>2, <2>3
<1> QED BY <1>4, <1>5

\* No bytes stay on the disk that no principal pays for, whatever is uploaded, pruned, registered
\* and deregistered at once, until the engine dies between a file and its row (cas-store.ts prune).
THEOREM FilesReclaimed == Spec => []NoFileLeftUntilCrash
<1>1. Init => NoFileLeftUntilCrash
  BY DEF Init, NoFileLeftUntilCrash
<1>2. IInv /\ NoFileLeftUntilCrash /\ [Next]_vars => NoFileLeftUntilCrash'
  <2> SUFFICES ASSUME IInv, NoFileLeftUntilCrash, [Next]_vars PROVE NoFileLeftUntilCrash'
    OBVIOUS
  <2>1. CASE \E ns \in Namespaces, b \in Blobs : Put(ns, b)
    BY <2>1, RowsGrow DEF Put
  <2>2. ASSUME NEW u \in Uploads, UploadEnds(u) PROVE NoFileLeftUntilCrash'
    <3>1. upload[u].ns \in Namespaces
      BY <2>2, Fields DEF UploadEnds, IInv
    <3> QED BY <2>2, <3>1, RowsGrow DEF UploadEnds, Stored
  <2>3. CASE \E ns \in Namespaces, days \in Graces : Prune(ns, days)
    BY <2>3, PruneLeavesNoFile
  <2>4. CASE Restarted
    <3>1. crashes' # 0
      BY <2>4 DEF Restarted, IInv, TypeOK
    <3> QED BY <3>1 DEF NoFileLeftUntilCrash
  <2>5. CASE UNCHANGED <<refs, files, crashes>>
    BY <2>5 DEF NoFileLeftUntilCrash
  <2> QED BY <2>1, <2>2, <2>3, <2>4, <2>5
          DEF Next, vars, LoadRefused, UploadBegin, JobBegin, Missing, UploadFails, Materialize,
              InsertVersion, JobRefused, Deregister, CrashInPrune, Crash, CrashInPut, Day
<1> QED BY <1>1, <1>2, AlwaysInvariant, PTL DEF Spec

-----------------------------------------------------------------------------
(* The contract of Leases *)

LEMMA SeedsAlike == ASSUME NEW ns, NEW ref PROVE Contract!Seed(ns, ref) = Seed(ns, ref)
BY DEF Seed, Contract!Seed

\* A job has a lease while it waits, and no other.
LEMMA LeaseOf ==
    ASSUME IInv, NEW j \in Jobs
    PROVE  /\ lease[j] = Contract!NoLease <=> job[j] = NoJob
           /\ job[j] = NoJob => ~Waits(j)
           /\ job[j] # NoJob => /\ Waits(j)
                                /\ lease[j] = [is |-> job[j].is, ns |-> job[j].ns, ref |-> job[j].ref]
<1>1. job[j] = NoJob => ~Waits(j)
  BY NoJobWaits DEF Waits
<1>2. job[j] # NoJob => Waits(j)
  BY Fields DEF IInv, SeedsComplete, Waits
<1>3. lease[j] = IF job[j] = NoJob THEN NoJob
                 ELSE [is |-> job[j].is, ns |-> job[j].ns, ref |-> job[j].ref]
  BY DEF lease
<1>4. NoJob = Contract!NoLease
  BY DEF NoJob, Contract!NoLease
<1>5. job[j] # NoJob => lease[j].is # "idle"
  BY <1>2, <1>3 DEF Waits
<1> QED BY <1>1, <1>2, <1>3, <1>4, <1>5 DEF NoJob

\* lease is a function, before and after a step, and follows the jobs.
LEMMA LeaseFollows ==
    /\ lease = [j \in Jobs |-> lease[j]] /\ lease' = [j \in Jobs |-> lease'[j]]
    /\ \A j \in Jobs : job'[j] = job[j] => lease'[j] = lease[j]
    /\ \A j \in Jobs : job'[j] = NoJob => lease'[j] = NoJob
    /\ NoJob = Contract!NoLease
BY DEF lease, NoJob, Contract!NoLease

\* Jobs that end: their leases are given back.
LEMMA LeasesEnd ==
    ASSUME \A j \in Jobs : job'[j] = job[j] \/ job'[j] = NoJob
    PROVE  \E js \in SUBSET Jobs :
              lease' = [j \in Jobs |-> IF j \in js THEN Contract!NoLease ELSE lease[j]]
<1> DEFINE js == {j \in Jobs : job'[j] # job[j]}
<1>1. \A j \in Jobs : lease'[j] = IF j \in js THEN Contract!NoLease ELSE lease[j]
  BY LeaseFollows
<1>2. lease' = [j \in Jobs |-> IF j \in js THEN Contract!NoLease ELSE lease[j]]
  BY <1>1, LeaseFollows
<1> QED BY <1>2

LEMMA EndsByContract ==
    ASSUME \A j \in Jobs : job'[j] = job[j] \/ job'[j] = NoJob, UNCHANGED <<refs, roots>>
    PROVE  Contract!LNext
<1>1. \E js \in SUBSET Jobs : Contract!Return(js)
  BY LeasesEnd DEF Contract!Return
<1> QED BY <1>1 DEF Contract!LNext

\* A day changes no lease.
LEMMA DayByContract ==
    ASSUME IInv, Day
    PROVE  UNCHANGED Contract!lvars
<1>1. ASSUME NEW j \in Jobs PROVE lease'[j] = lease[j]
  <2>1. CASE job[j] = NoJob
    <3>1. job'[j] = job[j]
      BY <2>1, NoJobWaits DEF Day
    <3> QED BY <3>1, LeaseFollows
  <2>2. CASE job[j] # NoJob
    <3>1. job[j] \in Waiting /\ Waits(j)
      BY <2>2, Fields, LeaseOf DEF IInv
    <3>2. job'[j] = [job[j] EXCEPT !.wait = job[j].wait + 1]
      BY <3>1 DEF Day, Waits
    <3>3. job'[j].is = job[j].is /\ job'[j].ns = job[j].ns /\ job'[j].ref = job[j].ref
      BY <3>1, <3>2 DEF Waiting
    <3>4. job'[j] # NoJob
      BY <3>1, <3>3, NoJobWaits DEF Waits
    <3> QED BY <2>2, <3>3, <3>4 DEF lease
  <2> QED BY <2>1, <2>2
<1>2. lease' = lease
  BY <1>1, LeaseFollows
<1> QED BY <1>2 DEF Day, Contract!lvars

LEMMA LendByContract ==
    ASSUME IInv, IInv', NEW ns \in Namespaces, NEW b \in Blobs, NEW j \in Jobs,
           NEW kind \in {"start", "register"}, JobBegin(j, kind, ns, b)
    PROVE  Contract!LNext
<1>1. /\ job[j] = NoJob /\ Seed(ns, b) \subseteq refs /\ UNCHANGED <<refs, roots>>
      /\ job' = [job EXCEPT ![j] = [is |-> kind, ns |-> ns, ref |-> b, wait |-> 0]]
  BY DEF JobBegin, Load
<1>2. /\ job'[j].is = kind /\ job'[j].ns = ns /\ job'[j].ref = b
      /\ job'[j] # NoJob /\ \A i \in Jobs : i # j => job'[i] = job[i]
  <2>1. job \in [Jobs -> Waiting \cup {NoJob}]
    BY DEF IInv, TypeOK
  <2> QED BY <1>1, <2>1 DEF NoJob
<1>3. lease'[j] = [is |-> kind, ns |-> ns, ref |-> b]
  BY <1>2 DEF lease
<1>4. \A i \in Jobs : i # j => lease'[i] = lease[i]
  BY <1>2, LeaseFollows
<1>5. lease' = [lease EXCEPT ![j] = [is |-> kind, ns |-> ns, ref |-> b]]
  BY <1>3, <1>4, LeaseFollows
<1>6. lease[j] = Contract!NoLease
  BY <1>1, LeaseOf
<1>7. Contract!Lend(j, kind, ns, b)
  BY <1>1, <1>5, <1>6, SeedsAlike DEF Contract!Lend
<1> QED BY <1>7 DEF Contract!LNext

LEMMA InsertByContract ==
    ASSUME IInv, NEW j \in Jobs, InsertVersion(j)
    PROVE  Contract!LNext
<1>1. /\ job[j].is = "register" /\ refs' = refs
      /\ roots' = roots \cup {<<job[j].ns, job[j].ref>>}
      /\ job' = [job EXCEPT ![j] = NoJob]
  BY DEF InsertVersion
<1>2. job'[j] = NoJob /\ \A i \in Jobs : i # j => job'[i] = job[i]
  BY <1>1 DEF IInv, TypeOK
<1>3. lease[j] # Contract!NoLease /\ lease[j] = [is |-> "register", ns |-> job[j].ns, ref |-> job[j].ref]
  BY <1>1, LeaseOf, NoJobWaits
<1>4. lease' = [lease EXCEPT ![j] = Contract!NoLease]
  BY <1>2, LeaseFollows
<1>5. Contract!Register(j)
  BY <1>1, <1>3, <1>4 DEF Contract!Register
<1> QED BY <1>5 DEF Contract!LNext

\* A run that starts gives its lease back: none is short of a file of its seed.
LEMMA MaterializeByContract ==
    ASSUME IInv, IInv', NEW j \in Jobs, Materialize(j)
    PROVE  Contract!LNext
<1>1. UNCHANGED <<refs, roots>> /\ \A i \in Jobs : i # j => job'[i] = job[i]
  BY DEF Materialize, IInv, TypeOK
<1>2. job'[j] = NoJob
  <2>1. job'[j] = NoJob \/ job'[j] = [job[j] EXCEPT !.is = "short"]
    BY DEF Materialize, IInv, TypeOK
  <2>2. job[j] # NoJob
    BY NoJobWaits DEF Materialize
  <2>3. job[j] \in Waiting
    BY <2>2, Fields DEF IInv
  <2>4. [job[j] EXCEPT !.is = "short"].is = "short"
    BY <2>3 DEF Waiting
  <2>5. job'[j].is # "short"
    BY DEF IInv, SeedsComplete
  <2> QED BY <2>1, <2>4, <2>5
<1> QED BY <1>1, <1>2, EndsByContract

\* A prune, whole or cut short, takes nothing that is lent or that a version is seeded from.
LEMMA PruneByContract ==
    ASSUME IInv, NEW ns \in Namespaces, NEW days \in Graces,
           Prune(ns, days) \/ CrashInPrune(ns, days)
    PROVE  Contract!LNext
<1> DEFINE gone == Victims(ns, days)
           kept == refs \ ({ns} \X gone)
           rows == refs \ kept
<1>1. /\ refs' = kept /\ roots' = roots
      /\ \A j \in Jobs : job'[j] = job[j] \/ job'[j] = NoJob
  BY DEF Prune, CrashInPrune, Restarted
<1>2. Contract!Lent \subseteq kept
  <2>1. SUFFICES ASSUME NEW j \in Jobs, lease[j] # Contract!NoLease
                 PROVE  Contract!Seed(lease[j].ns, lease[j].ref) \subseteq kept
    BY DEF Contract!Lent
  <2>2. Waits(j) /\ lease[j].ns = job[j].ns /\ lease[j].ref = job[j].ref
    <3>1. job[j] # NoJob
      BY <2>1, LeaseOf
    <3>2. Waits(j) /\ lease[j] = [is |-> job[j].is, ns |-> job[j].ns, ref |-> job[j].ref]
      BY <3>1, LeaseOf
    <3> QED BY <3>2
  <2> QED BY <2>2, PruneSpares, SeedsAlike
<1>3. Contract!Rooted \subseteq kept
  <2>1. SUFFICES ASSUME NEW r \in roots PROVE Contract!Seed(r[1], r[2]) \subseteq kept
    BY DEF Contract!Rooted
  <2> QED BY PruneSpares, SeedsAlike
<1>4. Contract!Remove(rows)
  <2>1. refs' = refs \ rows
    BY <1>1
  <2>2. rows \cap (Contract!Lent \cup Contract!Rooted) = {}
    BY <1>2, <1>3
  <2> QED BY <1>1, <2>1, <2>2, LeasesEnd DEF Contract!Remove
<1>5. rows \in SUBSET refs
  OBVIOUS
<1> QED BY <1>4, <1>5 DEF Contract!LNext

LEMMA AddByContract ==
    ASSUME NEW ns \in Namespaces, NEW b \in Blobs, refs' = refs \cup {<<ns, b>>}, UNCHANGED <<job, roots>>
    PROVE  Contract!LNext
<1>1. lease' = lease
  BY DEF lease
<1>2. Contract!Add(<<ns, b>>)
  BY <1>1 DEF Contract!Add
<1> QED BY <1>2 DEF Contract!LNext

\* A step that leaves rows, jobs and versions alone is none of the contract's.
LEMMA OthersByContract ==
    ASSUME UNCHANGED <<refs, job, roots>>
    PROVE  UNCHANGED Contract!lvars
BY DEF lease, Contract!lvars

\* The store keeps the contract of Leases: what a start or a registration has found is there until
\* it is done, though prunes go by age and look at neither (workspace_prune_blobs).
THEOREM LeaseContractKept == Spec => SeedsLent
<1>1. Init => Contract!LInit
  <2> SUFFICES ASSUME Init PROVE Contract!LInit
    OBVIOUS
  <2>1. \A j \in Jobs : job[j] = NoJob
    BY DEF Init
  <2>2. lease = [j \in Jobs |-> Contract!NoLease]
    BY <2>1 DEF lease, NoJob, Contract!NoLease
  <2> QED BY <2>2 DEF Init, Contract!LInit
<1>2. IInv /\ IInv' /\ [Next]_vars => [Contract!LNext]_(Contract!lvars)
  <2> SUFFICES ASSUME IInv, IInv', [Next]_vars PROVE [Contract!LNext]_(Contract!lvars)
    OBVIOUS
  <2>1. CASE \E ns \in Namespaces, b \in Blobs : Put(ns, b)
    BY <2>1, AddByContract DEF Put
  <2>2. ASSUME NEW u \in Uploads, UploadEnds(u) PROVE Contract!LNext
    <3>1. upload[u].ns \in Namespaces /\ upload[u].sha \in Blobs
      BY <2>2, Fields DEF UploadEnds, IInv
    <3> QED BY <2>2, <3>1, AddByContract DEF UploadEnds, Stored
  <2>3. CASE \E ns \in Namespaces, b \in Blobs : \E j \in Jobs, kind \in {"start", "register"} :
               JobBegin(j, kind, ns, b)
    BY <2>3, LendByContract
  <2>4. CASE \E j \in Jobs : Materialize(j)
    BY <2>4, MaterializeByContract
  <2>5. CASE \E j \in Jobs : InsertVersion(j)
    BY <2>5, InsertByContract
  <2>6. ASSUME NEW j \in Jobs, JobRefused(j) PROVE Contract!LNext
    <3>1. \A i \in Jobs : job'[i] = job[i] \/ job'[i] = NoJob
      BY <2>6 DEF JobRefused, IInv, TypeOK
    <3> QED BY <2>6, <3>1, EndsByContract DEF JobRefused
  <2>7. ASSUME NEW root \in roots, Deregister(root) PROVE Contract!LNext
    <3>1. lease' = lease
      BY <2>7 DEF Deregister, lease
    <3>2. Contract!Deregister(root)
      BY <2>7, <3>1 DEF Deregister, Contract!Deregister
    <3> QED BY <3>2 DEF Contract!LNext
  <2>8. CASE \E ns \in Namespaces, days \in Graces : Prune(ns, days) \/ CrashInPrune(ns, days)
    BY <2>8, PruneByContract
  <2>9. CASE Crash \/ \E b \in Blobs : CrashInPut(b)
    BY <2>9, EndsByContract DEF Crash, CrashInPut, Restarted
  <2>10. CASE Day
    BY <2>10, DayByContract
  <2>11. CASE UNCHANGED <<refs, job, roots>>
    BY <2>11, OthersByContract
  <2> QED BY <2>1, <2>2, <2>3, <2>4, <2>5, <2>6, <2>7, <2>8, <2>9, <2>10, <2>11
          DEF Next, vars, LoadRefused, UploadBegin, Missing, UploadFails
<1>3. IInv /\ [Next]_vars => IInv'
  BY NextKeeps
<1> QED BY <1>1, <1>2, <1>3, AlwaysInvariant, PTL DEF Spec, SeedsLent, Contract!LSpec

\* The contract is enough for the reader: from it alone it follows that what is lent or belongs to
\* a version can be read.
LEMMA LeasesSuffice == Contract!LSpec => []Contract!Kept
<1> DEFINE Whole ==
      /\ lease = [j \in Jobs |-> lease[j]]
      /\ \A j \in Jobs : lease[j] # Contract!NoLease =>
            Contract!Seed(lease[j].ns, lease[j].ref) \subseteq refs
      /\ \A r \in roots : Contract!Seed(r[1], r[2]) \subseteq refs
<1>1. Whole => Contract!Kept
  BY DEF Contract!Kept, Contract!Lent, Contract!Rooted
<1>2. Contract!LInit => Whole
  BY DEF Contract!LInit
<1>3. Whole /\ [Contract!LNext]_(Contract!lvars) => Whole'
  <2> SUFFICES ASSUME Whole, [Contract!LNext]_(Contract!lvars) PROVE Whole'
    OBVIOUS
  <2>1. ASSUME NEW row, Contract!Add(row) PROVE Whole'
    BY <2>1 DEF Contract!Add, Contract!Seed, Contract!NoLease
  <2>2. ASSUME NEW js \in SUBSET Jobs, Contract!Return(js) PROVE Whole'
    BY <2>2 DEF Contract!Return, Contract!Seed, Contract!NoLease
  <2>3. ASSUME NEW rows \in SUBSET refs, Contract!Remove(rows) PROVE Whole'
    BY <2>3 DEF Contract!Remove, Contract!Lent, Contract!Rooted, Contract!Seed, Contract!NoLease
  <2>4. ASSUME NEW j \in Jobs, NEW kind, NEW ns, NEW b, Contract!Lend(j, kind, ns, b) PROVE Whole'
    BY <2>4 DEF Contract!Lend, Contract!Seed, Contract!NoLease
  <2>5. ASSUME NEW j \in Jobs, Contract!Register(j) PROVE Whole'
    BY <2>5 DEF Contract!Register, Contract!Seed, Contract!NoLease
  <2>6. ASSUME NEW root \in roots, Contract!Deregister(root) PROVE Whole'
    BY <2>6 DEF Contract!Deregister, Contract!Seed, Contract!NoLease
  <2>7. CASE UNCHANGED Contract!lvars
    BY <2>7 DEF Contract!lvars, Contract!Seed, Contract!NoLease
  <2> QED BY <2>1, <2>2, <2>3, <2>4, <2>5, <2>6, <2>7 DEF Contract!LNext
<1> QED BY <1>1, <1>2, <1>3, PTL DEF Contract!LSpec

=============================================================================
