---------------------------- MODULE MCRequestAuth ----------------------------
\* Values of RequestAuth's constants for TLC.
EXTENDS RequestAuth, TLC

CONSTANTS a1, a2, r1, r2

TwoAccounts == {a1, a2}
OnlyA2 == {a2}
Untargeted == {None}
MaybeA2 == {None, a2}

RequestSymmetry == Permutations(Request)
=============================================================================
