SPECIFICATION ThrowSpec
CONSTANTS
  NonExistLeaf = NonExistLeaf
  NoDate = NoDate
  Nothing = Nothing
  KeptDate <- Same
  ReturnedDate <- Same
  Callers = {c1}
  Mounters = {m1}
  Volumes = {v1, v2}
  Priority <- SignedPriorities
  PrioritySize = 4
  InitialStores <- Dated
  Paths <- OnePath
  Catalogs <- OneCatalog
  Keys <- OneKey
  Values = {"new"}
  Dates = {0}
  MaxCalls = 2
  MaxMounts = 2
  MaxClock = 1
  MaxFailures = 0
INVARIANT
  SuccessIsServed
CHECK_DEADLOCK FALSE
