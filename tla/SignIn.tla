------------------------------- MODULE SignIn -------------------------------
(***************************************************************************)
(* What the engine promises about a visit of its sign-in page: the visit   *)
(* is worth one thing at a time, and each of them is had for the one       *)
(* before it.  It says nothing of tables, repeated requests or expiry      *)
(* times; AccessControl implements it (SignInsFollow,                      *)
(* AccessControlProofs).                                                   *)
(***************************************************************************)
CONSTANTS
    SignIns,   \* visits
    Dashboard  \* those that ask for a session of the dashboard

VARIABLE place \* visit -> what it is worth

Places == {"none", "asked", "waiting", "code", "refresh", "session"}

SInit == place = [s \in SignIns |-> "none"]

Move(s, from, to) == place[s] = from /\ place' = [place EXCEPT ![s] = to]

Visit(s) == Move(s, "none", "asked")
Return(s) == Move(s, "asked", "waiting")
Vouched(s) == Move(s, "waiting", IF s \in Dashboard THEN "session" ELSE "code")
Redeem(s) == Move(s, "code", "refresh")
Lose(s) == \E from \in Places : Move(s, from, "none")

\* The process dies: visits that wait for Google are lost, and one code or refresh token may be
\* taken without being answered.
Left == [s \in SignIns |-> IF place[s] = "waiting" THEN "none" ELSE place[s]]
Die ==
    \/ place' = Left
    \/ \E s \in SignIns : place[s] \in {"code", "refresh"} /\ place' = [Left EXCEPT ![s] = "none"]

SNext ==
    \/ \E s \in SignIns : \/ Visit(s) \/ Return(s) \/ Vouched(s) \/ Redeem(s) \/ Lose(s)
    \/ Die

SSpec == SInit /\ [][SNext]_place
=============================================================================
