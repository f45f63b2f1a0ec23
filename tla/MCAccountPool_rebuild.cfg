CONSTANTS
  a1 = a1
  a2 = a2
  r1 = r1
  r2 = r2
  r3 = r3
  r4 = r4
  None = None
  Account <- TwoAccounts
  Request = {r1, r2, r3}
  Admin = {d1, d2}
  Position <- ConfigOrder
  TokenSets <- NoTokens
  Wants <- AnyAccount
  NonBlocking = {}
  Cancellable = {r1, r2, r3}
  Removable <- OnlyA2
  Restable <- OnlyA1
  Settings <- TwoSlotsTwoADay
  Pollers = TRUE
  MaxWrites = 3
  MaxDay = 2
  FailingDays = {}
SPECIFICATION Spec
SYMMETRY RequestSymmetry
INVARIANTS
  NeverOversold
PROPERTIES
  SlotsAsPromised
CHECK_DEADLOCK FALSE
