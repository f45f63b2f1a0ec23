CONSTANTS
  a1 = a1
  a2 = a2
  a3 = a3
  s1 = s1
  s2 = s2
  Subscriptions = {s1, s2}
  None = None
  Torn = Torn
  Account <- ThreeAccounts
  PoolType <- OneType
  Position <- ConfigOrder
  w1 = w1
  w2 = w2
  Writer <- TwoWriters
  Updates <- Few
  FirstConfigs <- Configs
  EmptyConfig <- NoConfig
  MaxUpdates = 3
  MaxCrashes = 1
  MaxTime = 1
SPECIFICATION Spec
INVARIANTS
  UnsavedIsDirty
  StandbyTakesOver
  QueueFollowsConfig
PROPERTIES
  SavedIsDurable
  FilesSound
  ElasticAsPromised
SYMMETRY SameWriters
CHECK_DEADLOCK FALSE
