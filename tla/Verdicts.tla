------------------------------ MODULE Verdicts ------------------------------
(***************************************************************************)
(* What the webhook registry promises about a delivery id, without rows,   *)
(* awaits or crashes: the id comes to one verdict, whoever asks is told    *)
(* it, and it stands for ever.  Two ids are never accepted as one run.     *)
(* WebhookDelivery implements it (VerdictsStand, WebhookDeliveryProofs).   *)
(***************************************************************************)
EXTENDS Naturals

CONSTANTS
    Ids,    \* ids of deliveries
    Runs    \* numbers of runs

VARIABLES
    fate,   \* id -> what it has come to
    told    \* id -> what its senders have been told of it

vvars == <<fate, told>>

Open == [said |-> "open", run |-> 0]
Refused == [said |-> "refused", run |-> 0]
Accepted(k) == [said |-> "accepted", run |-> k]

\* Some ids were accepted by a release that did not store the run.
VInit ==
    /\ fate \in [Ids -> {Open, Accepted(0)}]
    /\ told = [d \in Ids |-> {}]

Tell(d, v) == told' = [told EXCEPT ![d] = @ \cup {v}]

Decide(d, v) ==
    /\ fate[d] = Open
    /\ fate' = [fate EXCEPT ![d] = v]
    /\ Tell(d, v)

Refuse(d) == Decide(d, Refused)
Accept(d, k) == (\A e \in Ids : fate[e].run # k) /\ Decide(d, Accepted(k))

Repeat(d) ==
    /\ fate[d] # Open
    /\ Tell(d, fate[d])
    /\ UNCHANGED fate

VNext == \E d \in Ids : Refuse(d) \/ Repeat(d) \/ \E k \in Runs : Accept(d, k)

VSpec == VInit /\ [][VNext]_vvars
=============================================================================
