---------------------------- MODULE MCChatRecords ----------------------------
\* Values of ChatRecords' constants for TLC.
EXTENDS ChatRecords, TLC

SameRequests == Permutations(Request)
=============================================================================
