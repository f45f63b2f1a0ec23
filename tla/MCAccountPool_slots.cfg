CONSTANTS
  a1 = a1
  a2 = a2
  r1 = r1
  r2 = r2
  r3 = r3
  r4 = r4
  None = None
  Account <- TwoAccounts
  Request = {r1, r2, r3, r4}
  Admin = {d1}
  Position <- ConfigOrder
  TokenSets <- TokenOfA2
  Wants <- MixedWants
  NonBlocking = {r4}
  Cancellable = {}
  Removable = {}
  Restable <- OnlyA1
  Settings <- ManyLimits
  Pollers = FALSE
  MaxWrites = 1
  MaxDay = 1
  FailingDays = {}
SPECIFICATION FairSpec
INVARIANTS
  NoStrandedWaiter
  LimitedAccountRecovers
PROPERTIES
  EveryCallReturns
  GlobalLimitKept
  NeverQueuesBesideFreeAccount
CHECK_DEADLOCK FALSE
