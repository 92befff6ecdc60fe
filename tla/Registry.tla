------------------------------ MODULE Registry ------------------------------
(***************************************************************************)
(* What the catalog of workflows promises, as if it were one store: a      *)
(* version gets a number that was never given before under its name and    *)
(* takes triggers that no other workflow declares; what a channel points   *)
(* to, and what a run on record is pinned to, is not withdrawn, but with   *)
(* the whole workflow.  There are no claims, no waits and no half of a     *)
(* handler here.  WorkflowCatalog implements this module (ActsAsRegistry,  *)
(* WorkflowCatalogProofs).                                                 *)
(***************************************************************************)
EXTENDS Naturals, FiniteSets

CONSTANTS Names, Triggers, Scripts, Channels, Runs

VARIABLES
    listed,   \* name -> its versions
    highest,  \* name -> the highest number given
    channels, \* name -> channel -> a number, or 0
    held,     \* run -> None, or the version it began with
    recorded  \* the runs that are on record

rvars == <<listed, highest, channels, held, recorded>>

None == [is |-> "none"]
Of(n, v) == [is |-> "run", name |-> n, number |-> v.number, script |-> v.script]
Declared(n) == UNION {v.triggers : v \in listed[n]}
Given(n) == {v.number : v \in listed[n]}

RInit ==
    /\ listed = [n \in Names |-> {}] /\ highest = [n \in Names |-> 0]
    /\ channels = [n \in Names |-> [c \in Channels |-> 0]]
    /\ held = [r \in Runs |-> None] /\ recorded = {}

Issue(n, v) ==
    /\ v.number > highest[n]
    /\ \A m \in Names \ {n} : v.triggers \cap Declared(m) = {}
    /\ listed' = [listed EXCEPT ![n] = @ \cup {v}]
    /\ highest' = [highest EXCEPT ![n] = v.number]
    /\ UNCHANGED <<channels, held, recorded>>

Point(n, c, number) ==
    /\ number \in Given(n) \cup {0}
    /\ channels' = [channels EXCEPT ![n][c] = number]
    /\ UNCHANGED <<listed, highest, held, recorded>>

Begin(r, n, v) ==
    /\ held[r] = None /\ v \in listed[n]
    /\ held' = [held EXCEPT ![r] = Of(n, v)]
    /\ UNCHANGED <<listed, highest, channels, recorded>>

Record(r) ==
    /\ held[r] # None
    /\ recorded' = recorded \cup {r}
    /\ UNCHANGED <<listed, highest, channels, held>>

\* Runs are over, or were never recorded and are lost.
Drop(rs) ==
    /\ held' = [r \in Runs |-> IF r \in rs THEN None ELSE held[r]]
    /\ recorded' = recorded \ rs

End(r) == Drop({r}) /\ UNCHANGED <<listed, highest, channels>>

Lost(rs) == rs \cap recorded = {} /\ Drop(rs)

Lose(rs) == Lost(rs) /\ UNCHANGED <<listed, highest, channels>>

\* A version goes, which may lose runs, but none on record that is pinned to it.
Withdraw(n, v, rs) ==
    /\ v \in listed[n] /\ listed[n] # {v}
    /\ \A c \in Channels : channels[n][c] # v.number
    /\ \A r \in recorded : ~(held[r].name = n /\ held[r].number = v.number)
    /\ listed' = [listed EXCEPT ![n] = @ \ {v}]
    /\ Lost(rs) /\ UNCHANGED <<highest, channels>>

\* A workflow goes; the numbers it had stay given.
WithdrawAll(n, rs) ==
    /\ listed' = [listed EXCEPT ![n] = {}]
    /\ channels' = [channels EXCEPT ![n] = [c \in Channels |-> 0]]
    /\ Lost(rs) /\ UNCHANGED highest

RNext ==
    \/ \E n \in Names, number \in Nat \ {0}, s \in Scripts, ts \in SUBSET Triggers :
         Issue(n, [number |-> number, script |-> s, triggers |-> ts])
    \/ \E n \in Names, c \in Channels : \E number \in Given(n) \cup {0} : Point(n, c, number)
    \/ \E r \in Runs, n \in Names : \E v \in listed[n] : Begin(r, n, v)
    \/ \E r \in Runs : Record(r) \/ End(r)
    \/ \E rs \in SUBSET Runs : Lose(rs)
    \/ \E n \in Names, rs \in SUBSET Runs :
         WithdrawAll(n, rs) \/ \E v \in listed[n] : Withdraw(n, v, rs)

RSpec == RInit /\ [][RNext]_rvars

-----------------------------------------------------------------------------
\* A number means one script: what a run began with and what its number resolves to agree.
OneMeaning ==
    \A r \in Runs, n \in Names : \A v \in listed[n] :
       held[r] # None /\ held[r].name = n /\ held[r].number = v.number => held[r].script = v.script

\* No trigger serves two workflows.
OneOwner == \A m, n \in Names : m # n => Declared(m) \cap Declared(n) = {}
=============================================================================
