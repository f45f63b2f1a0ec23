SPECIFICATION Spec
CONSTANTS
  None = None
  Request = {r1, r2}
  Limits = {0, 1, 2}
  DefaultLimit = 2
  MaxEntries = 3
  MaxFaults = 1
INVARIANTS
  PendingCoversFiles
  LostOnlyByDeletion
  OneEntryPerRequest
  FinishedIsFinal
  NeverCountedTwice
PROPERTIES
  EntriesSurvive
SYMMETRY SameRequests
