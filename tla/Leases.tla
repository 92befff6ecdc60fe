------------------------------- MODULE Leases -------------------------------
(***************************************************************************)
(* What the content store promises those who find a seed in it, without    *)
(* files, days, uploads or quotas: a seed that a start or a registration   *)
(* has found is lent to it, and what is lent, or belongs to a registered   *)
(* version, is not removed.  No clock decides: that the store keeps the    *)
(* promise by the age of its rows is for ContentStore, which implements    *)
(* this module (SeedsLent, ContentStoreProofs).                            *)
(***************************************************************************)
CONSTANTS
    Namespaces, Blobs,
    Listed, \* blob -> the blobs it lists when read as a manifest
    Jobs    \* starts and registrations

VARIABLES
    held,  \* what can be read: <<namespace, blob>>
    lease, \* job -> NoLease, or the seed that is lent to it
    roots  \* seeds of the registered versions

lvars == <<held, lease, roots>>

NoLease == [is |-> "idle"]
Seed(ns, ref) == {ns} \X ({ref} \cup Listed[ref])

\* What must stay.
Lent == UNION {Seed(lease[j].ns, lease[j].ref) : j \in {j \in Jobs : lease[j] # NoLease}}
Rooted == UNION {Seed(r[1], r[2]) : r \in roots}

LInit == held = {} /\ lease = [j \in Jobs |-> NoLease] /\ roots = {}

Add(row) == held' = held \cup {row} /\ UNCHANGED <<lease, roots>>

Lend(j, kind, ns, ref) ==
    /\ lease[j] = NoLease /\ Seed(ns, ref) \subseteq held
    /\ lease' = [lease EXCEPT ![j] = [is |-> kind, ns |-> ns, ref |-> ref]]
    /\ UNCHANGED <<held, roots>>

\* Jobs are done, or given up: their leases end.
Return(js) ==
    /\ lease' = [j \in Jobs |-> IF j \in js THEN NoLease ELSE lease[j]]
    /\ UNCHANGED <<held, roots>>

\* The registration is done: what was lent to it belongs to its version.
Register(j) ==
    /\ lease[j] # NoLease /\ lease[j].is = "register"
    /\ lease' = [lease EXCEPT ![j] = NoLease]
    /\ roots' = roots \cup {<<lease[j].ns, lease[j].ref>>}
    /\ UNCHANGED held

Deregister(root) == roots' = roots \ {root} /\ UNCHANGED <<held, lease>>

\* Nothing lent goes, but to jobs that are given up in the same step.
Remove(rows) ==
    /\ rows \cap (Lent \cup Rooted) = {}
    /\ held' = held \ rows
    /\ \E js \in SUBSET Jobs : lease' = [j \in Jobs |-> IF j \in js THEN NoLease ELSE lease[j]]
    /\ UNCHANGED roots

LNext ==
    \/ \E ns \in Namespaces, b \in Blobs :
         Add(<<ns, b>>) \/ \E j \in Jobs, kind \in {"start", "register"} : Lend(j, kind, ns, b)
    \/ \E js \in SUBSET Jobs : Return(js)
    \/ \E j \in Jobs : Register(j)
    \/ \E root \in roots : Deregister(root)
    \/ \E rows \in SUBSET held : Remove(rows)

LSpec == LInit /\ [][LNext]_lvars

-----------------------------------------------------------------------------
\* What is lent or belongs to a version can be read.
Kept == Lent \cup Rooted \subseteq held
=============================================================================
