---------------------------- MODULE MCDailyQuota ----------------------------
\* Values of DailyQuota's constants for TLC.
EXTENDS DailyQuota

CONSTANTS a1, a2

TwoAccounts == {a1, a2}
OneRemovable == {a2}
OnlyTwo == {2}
OnlyThree == {3}
OffTwoAndThree == {0, 2, 3}
=============================================================================
