\* Two proxies on one capture directory, pruning and saving within and across a second, and replays.
CONSTANTS
  None = None  Empty = Empty  Garbled = Garbled
  s1 = s1  s2 = s2
  Procs = {p1, p2}
  Who <- Callers
  Dir <- TaskDir
  Prefix <- NodePrefix
  Bodies <- Requests
  Moments <- Times
  RetentionArgs <- Retentions
  SinceArgs <- Sinces
  Models <- TwoModels
  SampleSize = 1
  Faults = {"killed", "disk_full"}
  MaxRequests = 2
SPECIFICATION Spec
SYMMETRY StoreSymmetry
INVARIANTS SavedIsStored LoadFailureIsExplained LoadSeesWhatStays ReplayTakesTheNewest
PROPERTY PruneSparesTheYoung
