------------------------------ MODULE Timetable ------------------------------
(***************************************************************************)
(* What the scheduler promises, without rows, ticks, crashes or outcomes:  *)
(* a cron schedule rings at instants of its expression that have come,     *)
(* each later than the last, and a one-shot as often as it was allowed at  *)
(* most.  ScheduleFiring implements it (OnTime, ScheduleFiringProofs).     *)
(***************************************************************************)
EXTENDS Naturals

CONSTANTS
    Crons, Onces,   \* schedules
    Instants        \* when the cron expression fires

VARIABLES
    clock,
    rung,           \* cron schedule -> the instants it has rung for
    shots,          \* one-shot -> how often it has fired
    allowed         \* ... and how often it was allowed to

tvars == <<clock, rung, shots, allowed>>

TInit ==
    /\ clock = 0
    /\ rung = [s \in Crons |-> {}]
    /\ shots = [s \in Onces |-> 0]
    /\ allowed \in [Onces -> {0, 1}]

Pass ==
    /\ clock' = clock + 1
    /\ UNCHANGED <<rung, shots, allowed>>

Ring(s, t) ==
    /\ t <= clock /\ \A u \in rung[s] : u < t
    /\ rung' = [rung EXCEPT ![s] = @ \cup {t}]
    /\ UNCHANGED <<clock, shots, allowed>>

Shoot(s) ==
    /\ shots[s] < allowed[s]
    /\ shots' = [shots EXCEPT ![s] = @ + 1]
    /\ UNCHANGED <<clock, rung, allowed>>

Allow(s) ==
    /\ allowed' = [allowed EXCEPT ![s] = @ + 1]
    /\ UNCHANGED <<clock, rung, shots>>

TNext ==
    \/ Pass
    \/ \E s \in Crons, t \in Instants : Ring(s, t)
    \/ \E s \in Onces : Shoot(s) \/ Allow(s)

TSpec == TInit /\ [][TNext]_tvars
=============================================================================
