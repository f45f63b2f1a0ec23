CONSTANTS
  a1 = a1
  a2 = a2
  r1 = r1
  r2 = r2
  None = None
  Account <- TwoAccounts
  Request = {r1}
  Targets <- MaybeA2
  MaxSlots = 1
  MaxAttempts = 2
  Rejectable <- OnlyA2
  Expirable <- TwoAccounts
  Restable <- OnlyA2
SPECIFICATION FairSpec
PROPERTIES
  EveryRequestEnds
CHECK_DEADLOCK FALSE
