------------------------- MODULE MCWorkflowCatalog -------------------------
\* Small instances of WorkflowCatalog for TLC.
EXTENDS WorkflowCatalog, TLC

CONSTANTS alpha, beta, cron, hook, Old, New

OneSpare == [n \in Names |-> IF n = alpha THEN 2 ELSE 1]
\* As far as numbers go in these instances.
SmallNat == 0..2
Alike == Permutations({cron, hook}) \cup Permutations({Old, New})
=============================================================================
