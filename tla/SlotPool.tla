------------------------------- MODULE SlotPool -------------------------------
(***************************************************************************)
(* What the engine's counting locks promise (run-guard.ts,                 *)
(* agent-semaphore.ts), without their counters: there are Width slots; who *)
(* asks while one is free and nobody waits has it at once, who asks later  *)
(* waits in line, and a slot that is given back goes to the first of the   *)
(* line.  Nobody overtakes, nobody loses a place or a slot but with the    *)
(* process.  AgentDispatch and NestedWorkflows implement it (SlotsInOrder).*)
(***************************************************************************)
EXTENDS Naturals, Sequences, FiniteSets

CONSTANTS
    Clients,    \* who may ask for a slot
    Width       \* how many slots there are

VARIABLES
    holding,    \* who has a slot
    line        \* who waits for one, the first to be served first

pvars == <<holding, line>>

PInit == holding = {} /\ line = <<>>

Stranger(c) == c \in Clients \ holding /\ \A i \in DOMAIN line : line[i] # c

Take(c) ==
    /\ Stranger(c) /\ line = <<>> /\ Cardinality(holding) < Width
    /\ holding' = holding \cup {c}
    /\ UNCHANGED line

Wait(c) ==
    /\ Stranger(c) /\ Cardinality(holding) = Width
    /\ line' = Append(line, c)
    /\ UNCHANGED holding

Give(c) ==
    /\ c \in holding /\ line = <<>>
    /\ holding' = holding \ {c}
    /\ UNCHANGED line

Hand(c) ==
    /\ c \in holding /\ line # <<>>
    /\ holding' = (holding \ {c}) \cup {Head(line)}
    /\ line' = Tail(line)

\* The process dies.
Reset == holding' = {} /\ line' = <<>>

PNext ==
    \/ \E c \in Clients : Take(c) \/ Wait(c) \/ Give(c) \/ Hand(c)
    \/ Reset

PStep == PNext \/ UNCHANGED pvars

PSpec == PInit /\ [][PNext]_pvars
=============================================================================
