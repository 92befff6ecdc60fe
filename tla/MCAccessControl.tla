-------------------------- MODULE MCAccessControl --------------------------
\* Small instances of AccessControl for TLC.
EXTENDS AccessControl, TLC

CONSTANTS ann, bob, key1, key2, key3

\* Nobody is an admin by the configuration; bob is a user.
BobUser == bob :> "user"
Alike == Permutations({key1, key2, key3})
=============================================================================
