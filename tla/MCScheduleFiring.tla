--------------------------- MODULE MCScheduleFiring ---------------------------
EXTENDS ScheduleFiring

CONSTANTS c1, o1
OneCron == {c1}
OneOnce == {o1}
NoSchedule == {}
ThreeInstants == {1, 2, 4}
=============================================================================
