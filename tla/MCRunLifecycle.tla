---------------------------- MODULE MCRunLifecycle ----------------------------
(***************************************************************************)
(* Small instances of RunLifecycle for TLC.                                *)
(***************************************************************************)
EXTENDS RunLifecycle

CONSTANTS r1, r2, c1, c2

OneRun == {r1}
TwoRuns == {r1, r2}
OneCaller == {c1}
TwoCallers == {c1, c2}
OneEntry == {1}
TwoEntries == {1, 2}
TwoExecs == {1, 2}
NoRuns == {}
=============================================================================
