CONSTANTS
  a1 = a1
  a2 = a2
  n1 = n1
  n2 = n2
  None = None
  Account <- TwoAccounts
  Node <- TwoNodes
  Editor = {e1}
  Watcher = watcher
  Boot = boot
  Starting <- ByHand
  Busy = {a1}
  FailThreshold = 1
  MaxEdits = 1
  MaxFaults = 1
SPECIFICATION FairSpec
INVARIANTS
  BridgeFollowsConfig
PROPERTIES
  CrashIsRepaired
  ListenersCatchUp
  DeadNodesAreLeft
CHECK_DEADLOCK FALSE
