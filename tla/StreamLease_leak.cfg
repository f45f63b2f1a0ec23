CONSTANTS
  Account = {a1, a2}
  Stream = {s1, s2}
  None = None
  Cap = 1
  TTL = 1
SPECIFICATION FairSpec
PROPERTY SlotsComeBack
CHECK_DEADLOCK FALSE
