--------------------------- MODULE MCAgentDispatch ---------------------------
(* Small instances of AgentDispatch for TLC. *)
EXTENDS AgentDispatch, TLC

CONSTANTS r1, r2

OneRun == {r1}
TwoRuns == {r1, r2}
SymmetricRuns == Permutations(TwoRuns)
=============================================================================
