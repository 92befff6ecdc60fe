--------------------------- MODULE MCContentStore ---------------------------
\* A small instance of ContentStore for TLC.
EXTENDS ContentStore, TLC

CONSTANTS alice, bob, \* two principals
          file, tree, other, \* a file, a manifest that lists it, and another file
          u1, u2, j1

Principals == {alice, bob}
Contents == {file, tree, other}
OneByte == [b \in Contents |-> 1]
Lists == [b \in Contents |-> IF b = tree THEN {file} ELSE {}]
Quotas == [n \in Principals |-> IF n = alice THEN 2 ELSE 1]
OneDay == {1}
TwoUploads == {u1, u2}
OneJob == {j1}
Alike == Permutations(TwoUploads)
=============================================================================
