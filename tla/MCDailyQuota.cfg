CONSTANTS
  a1 = a1
  a2 = a2
  Account <- TwoAccounts
  Removable <- OneRemovable
  Maxima <- OffTwoAndThree
  FailingDays = {2}
  MaxDay = 3
  MaxGrants = 4
  MaxCrashes = 2
SPECIFICATION Spec
INVARIANTS
  NeverOvercharged
  ExhaustedStaysLimited
PROPERTIES
  QueuedQuotaKept
  FileCatchesUp
CHECK_DEADLOCK FALSE
