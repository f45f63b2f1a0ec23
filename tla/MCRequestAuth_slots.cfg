CONSTANTS
  a1 = a1
  a2 = a2
  r1 = r1
  r2 = r2
  None = None
  Account <- TwoAccounts
  Request = {r1, r2}
  Targets <- Untargeted
  MaxSlots = 1
  MaxAttempts = 1
  Rejectable <- OnlyA2
  Expirable = {}
  Restable = {}
SPECIFICATION Spec
SYMMETRY RequestSymmetry
INVARIANTS
  NothingLeftBehind
PROPERTIES
  SlotsGivenBackOnce
  OnlyFailuresInARow
CHECK_DEADLOCK FALSE
