---------------------------- MODULE ContentStore ----------------------------
(***************************************************************************)
(* The content-addressed store (cas-store.ts): blob files shared by all    *)
(* namespaces, a table of references by namespace, a quota by namespace,   *)
(* and workspace_prune_blobs, which removes what nobody used for a while   *)
(* unless a registered version is seeded from it.  With it the handlers    *)
(* that look at blobs first and use them after an await: streamed uploads, *)
(* the start of a run with a seed, and the registration of a version with  *)
(* a default seed.                                                         *)
(*                                                                         *)
(* SQLite and the file system are called synchronously, so an action is a  *)
(* whole handler up to its next wait; a crash may come between two calls.  *)
(***************************************************************************)
EXTENDS Naturals, FiniteSets, FiniteSetsExt

CONSTANTS
    Namespaces, \* one per principal
    Blobs,      \* contents, which name themselves by their hash
    Size,       \* blob -> its bytes
    Listed,     \* blob -> the blobs it lists when read as a manifest
    Metered,    \* the namespaces that have a quota
    Limit,      \* metered namespace -> its quota, cas-quota.ts
    Graces,     \* the olderThanDays that workspace_prune_blobs is called with
    MaxWait,    \* bound on the wait of a start or a registration, in days
    MaxIdle,    \* time since a use is told apart up to this many days
    Uploads, Jobs, \* streamed uploads, and starts or registrations, at one time
    MaxCrashes  \* bound on crashes of the engine

\* A wait for the price book ends after its fetch timeouts, a prune spares what was used
\* within a day (tool-specs.ts: olderThanDays is at least 1).
ASSUME StoreAssumption ==
    /\ IsFiniteSet(Blobs) /\ Size \in [Blobs -> Nat] /\ Listed \in [Blobs -> SUBSET Blobs]
    /\ Metered \subseteq Namespaces /\ Limit \in [Metered -> Nat]
    /\ {MaxWait, MaxIdle, MaxCrashes} \subseteq Nat /\ Graces \subseteq Nat
    /\ \A g \in Graces : MaxWait <= g /\ g < MaxIdle

VARIABLES
    refs,   \* rows of the refs table: <<namespace, blob>>
    idle,   \* row -> days since last_used_at, as far as MaxIdle; 0 when there is no row
    files,  \* blobs whose file exists
    upload, \* a streamed upload: NoUpload, or where it goes and what it may still take
    job,    \* a start or a registration that has found its blobs: NoJob, or what it waits with
    roots,  \* seeds of the registered versions: <<namespace, manifest>>
    crashes

vars == <<refs, idle, files, upload, job, roots, crashes>>

Rows == Namespaces \X Blobs
NoUpload == [is |-> "idle"]
NoJob == [is |-> "idle"]
Stream == [is : {"streaming"}, ns : Namespaces, sha : Blobs]
Waiting == [is : {"start", "register", "short"}, ns : Namespaces, ref : Blobs, wait : 0..MaxWait]

Init ==
    /\ refs = {} /\ idle = [r \in Rows |-> 0] /\ files = {}
    /\ upload = [u \in Uploads |-> NoUpload] /\ job = [j \in Jobs |-> NoJob]
    /\ roots = {} /\ crashes = 0

TypeOK ==
    /\ refs \subseteq Rows /\ idle \in [Rows -> 0..MaxIdle] /\ files \subseteq Blobs
    /\ upload \in [Uploads -> Stream \cup {NoUpload}]
    /\ job \in [Jobs -> Waiting \cup {NoJob}]
    /\ roots \subseteq Rows /\ crashes \in 0..MaxCrashes

-----------------------------------------------------------------------------
Held(ns) == {b \in Blobs : <<ns, b>> \in refs}
Usage(ns) == MapThenSumSet(LAMBDA b : Size[b], Held(ns))

\* A manifest and what it lists, all in one namespace.
Seed(ns, ref) == {ns} \X ({ref} \cup Listed[ref])

\* _checkQuota: bytes of blob b more in the namespace, unless it is there already.
WithinLimit(ns, b, bytes) ==
    ns \in Metered /\ b \notin Held(ns) => Usage(ns) + bytes <= Limit[ns]

\* Rows used now.
Touched(rows) == [r \in Rows |-> IF r \in rows THEN 0 ELSE idle[r]]

\* CasStore.putBlob, with its hash checked: workspace_push, the files of a seedRef, and the
\* manifests that POST /assets/manifest has found complete.
Put(ns, b) ==
    /\ WithinLimit(ns, b, Size[b])
    /\ files' = files \cup {b}
    /\ refs' = refs \cup {<<ns, b>>}
    /\ idle' = Touched({<<ns, b>>})
    /\ UNCHANGED <<upload, job, roots, crashes>>

\* CasStore.missing, for workspace_diff and POST /assets/manifest: what is there counts as
\* used from now.
Missing(ns, shas) ==
    /\ idle' = Touched(({ns} \X shas) \cap refs)
    /\ UNCHANGED <<refs, files, upload, job, roots, crashes>>

\* putBlobStream up to the wait for the body: preflight and allowance, which a body that does
\* not fit at this time never passes.
UploadBegin(u, ns, b) ==
    /\ upload[u] = NoUpload
    /\ WithinLimit(ns, b, Size[b])
    /\ upload' = [upload EXCEPT ![u] = [is |-> "streaming", ns |-> ns, sha |-> b]]
    /\ UNCHANGED <<refs, idle, files, job, roots, crashes>>

\* Timeout, a broken connection, another content than declared: the temporary file goes.
UploadFails(u) ==
    /\ upload[u] # NoUpload
    /\ upload' = [upload EXCEPT ![u] = NoUpload]
    /\ UNCHANGED <<refs, idle, files, job, roots, crashes>>

\* Mutant: the quota is not looked at again when the body is complete.
StoredUnchecked(ns, b) ==
    /\ files' = files \cup {b}
    /\ refs' = refs \cup {<<ns, b>>}
    /\ idle' = Touched({<<ns, b>>})

\* The end of putBlobStream: quota, rename and row in one go.
Stored(ns, b) ==
    /\ WithinLimit(ns, b, Size[b])
    /\ files' = files \cup {b}
    /\ refs' = refs \cup {<<ns, b>>}
    /\ idle' = Touched({<<ns, b>>})

UploadEnds(u) ==
    /\ upload[u] # NoUpload
    /\ Stored(upload[u].ns, upload[u].sha)
    /\ upload' = [upload EXCEPT ![u] = NoUpload]
    /\ UNCHANGED <<job, roots, crashes>>

-----------------------------------------------------------------------------
\* Mutant: what a seed needs is looked up and not marked as used.
LoadUntouched(ns, ref) == Seed(ns, ref) \subseteq refs /\ ref \in files /\ UNCHANGED idle

\* loadSeedManifestRef finds the manifest and everything it lists in the namespace.
Load(ns, ref) ==
    /\ Seed(ns, ref) \subseteq refs /\ ref \in files
    /\ idle' = Touched(Seed(ns, ref))

\* loadSeedManifestRef refuses: what it found is marked as used all the same.
LoadRefused(ns, ref) ==
    /\ ~(Seed(ns, ref) \subseteq refs /\ ref \in files)
    /\ idle' = Touched((IF <<ns, ref>> \in refs /\ ref \in files THEN Seed(ns, ref)
                        ELSE {<<ns, ref>>}) \cap refs)
    /\ UNCHANGED <<refs, files, upload, job, roots, crashes>>

\* start() and workflow_register with a seedManifestRef, up to the wait for the price book.
\* The seed of a start is its caller's or its version's; that of a version is its author's.
JobBegin(j, kind, ns, ref) ==
    /\ job[j] = NoJob /\ Load(ns, ref)
    /\ job' = [job EXCEPT ![j] = [is |-> kind, ns |-> ns, ref |-> ref, wait |-> 0]]
    /\ UNCHANGED <<refs, files, upload, roots, crashes>>

\* materializeManifest: an entry whose blob has no file is passed over in silence.
Materialize(j) ==
    /\ job[j].is = "start"
    /\ job' = [job EXCEPT ![j] = IF Listed[job[j].ref] \subseteq files THEN NoJob
                                 ELSE [@ EXCEPT !.is = "short"]]
    /\ UNCHANGED <<refs, idle, files, upload, roots, crashes>>

\* insertVersion with seed_manifest_ref and seed_namespace.
InsertVersion(j) ==
    /\ job[j].is = "register"
    /\ roots' = roots \cup {<<job[j].ns, job[j].ref>>}
    /\ job' = [job EXCEPT ![j] = NoJob]
    /\ UNCHANGED <<refs, idle, files, upload, crashes>>

\* A start or registration that is refused after its wait.
JobRefused(j) ==
    /\ job[j].is \in {"start", "register"}
    /\ job' = [job EXCEPT ![j] = NoJob]
    /\ UNCHANGED <<refs, idle, files, upload, roots, crashes>>

\* The last version with this seed is deregistered.
Deregister(root) ==
    /\ root \in roots /\ roots' = roots \ {root}
    /\ UNCHANGED <<refs, idle, files, upload, job, crashes>>

-----------------------------------------------------------------------------
\* seedManifestRoots and what their manifests list, as far as these can be read.
Rooted(root) == {root[2]} \cup (IF root[2] \in files THEN Listed[root[2]] ELSE {})
Protect(ns) == UNION {Rooted(r) : r \in {r \in roots : r[1] = ns}}
KeepFiles == UNION {Rooted(r) : r \in roots}

\* Mutant: only the manifests are protected, not what they list.
UnlistedVictims(ns, days) ==
    {b \in Held(ns) : idle[<<ns, b>>] > days /\ b \notin {r[2] : r \in {r \in roots : r[1] = ns}}}

\* The rows that CasStore.prune removes.
Victims(ns, days) == {b \in Held(ns) : idle[<<ns, b>>] > days /\ b \notin Protect(ns)}

\* Mutant: the file goes with the row, whoever else refers to it.
UnlinkedAnyway(kept, gone) == gone \ KeepFiles

\* The files it unlinks after that: those of rows removed that no row left refers to.
Unlinked(kept, gone) == {b \in gone \ KeepFiles : \A ns \in Namespaces : <<ns, b>> \notin kept}

Forgotten(kept) == [r \in Rows |-> IF r \in kept THEN idle[r] ELSE 0]

\* workspace_prune_blobs, not as a dry run.
Prune(ns, days) ==
    LET gone == Victims(ns, days)
        kept == refs \ ({ns} \X gone) IN
    /\ gone # {}
    /\ refs' = kept /\ idle' = Forgotten(kept) /\ files' = files \ Unlinked(kept, gone)
    /\ UNCHANGED <<upload, job, roots, crashes>>

\* What a crash takes with it: uploads, starts and registrations under way.
Restarted ==
    /\ crashes < MaxCrashes /\ crashes' = crashes + 1
    /\ upload' = [u \in Uploads |-> NoUpload] /\ job' = [j \in Jobs |-> NoJob]
    /\ UNCHANGED roots

\* The engine dies, at any time, before the row of a file that it has renamed, or before the
\* files of rows that it has removed.
Crash == Restarted /\ UNCHANGED <<refs, idle, files>>
CrashInPut(b) == Restarted /\ files' = files \cup {b} /\ UNCHANGED <<refs, idle>>
CrashInPrune(ns, days) ==
    LET kept == refs \ ({ns} \X Victims(ns, days)) IN
    /\ Restarted /\ kept # refs
    /\ refs' = kept /\ idle' = Forgotten(kept) /\ UNCHANGED files

\* A day goes by; starts and registrations do not wait that long.
Day ==
    /\ \A j \in Jobs : job[j].is \in {"start", "register"} => job[j].wait < MaxWait
    /\ idle' = [r \in Rows |-> IF r \in refs /\ idle[r] < MaxIdle THEN idle[r] + 1 ELSE idle[r]]
    /\ job' = [j \in Jobs |-> IF job[j].is \in {"start", "register"}
                              THEN [job[j] EXCEPT !.wait = @ + 1] ELSE job[j]]
    /\ UNCHANGED <<refs, files, upload, roots, crashes>>

Next ==
    \/ \E ns \in Namespaces, b \in Blobs :
         \/ Put(ns, b) \/ LoadRefused(ns, b)
         \/ \E u \in Uploads : UploadBegin(u, ns, b)
         \/ \E j \in Jobs, kind \in {"start", "register"} : JobBegin(j, kind, ns, b)
    \/ \E ns \in Namespaces, shas \in SUBSET Blobs : Missing(ns, shas)
    \/ \E u \in Uploads : UploadFails(u) \/ UploadEnds(u)
    \/ \E j \in Jobs : Materialize(j) \/ InsertVersion(j) \/ JobRefused(j)
    \/ \E root \in roots : Deregister(root)
    \/ \E ns \in Namespaces, days \in Graces : Prune(ns, days) \/ CrashInPrune(ns, days)
    \/ Crash \/ (\E b \in Blobs : CrashInPut(b)) \/ Day

Spec == Init /\ [][Next]_vars

-----------------------------------------------------------------------------
(* Properties *)

\* A row always has its file, whatever the other namespaces prune and wherever the engine
\* dies: what missing() does not ask for can be read.
RowsHaveFiles == \A r \in refs : r[2] \in files

\* However many uploads of a namespace go on at once, what it holds stays within its quota.
WithinQuota == \A ns \in Metered : Usage(ns) <= Limit[ns]

\* The default seed of every registered version is whole: its rows are there for the check
\* of the next start, and its files for the workspace.
SeedsServe == \A r \in roots : Seed(r[1], r[2]) \subseteq refs

\* No run starts with files of its seed left out: what start() has found before its wait is
\* still there after it.
SeedsComplete == \A j \in Jobs : job[j].is # "short"

\* cas-store.ts prune, "delete a blob file once no namespace references it": until a crash comes
\* between a file and its row no other file is left, also when the seed of another principal spared it.
NoFileLeftUntilCrash == crashes = 0 => \A b \in files : \E ns \in Namespaces : <<ns, b>> \in refs

-----------------------------------------------------------------------------
(* The contract (Leases): a waiting start or registration has its seed on loan. *)

lease == [j \in Jobs |-> IF job[j] = NoJob THEN NoJob
                         ELSE [is |-> job[j].is, ns |-> job[j].ns, ref |-> job[j].ref]]

Contract == INSTANCE Leases WITH held <- refs

\* workspace_prune_blobs goes by age and by what versions are seeded from, and looks at no start
\* and no registration.  All the same it never takes what one of them has found and waits with,
\* whatever is uploaded, pruned and registered meanwhile and wherever the engine dies.
SeedsLent == Contract!LSpec
=============================================================================
