SPECIFICATION FairSpec
CONSTANTS
  Threads = {t1, t2}
  Files = {"file", "other"}
  Paths = {"file", "link", "other"}
  Canonical <- LinkToFile
  Nothing = Nothing
  MaxCalls = 4
  MaxFailures = 1
  MaxProcesses = 2
INVARIANTS
  TypeOK
  OneManagerPerFile
  
PROPERTIES
  NothingIsTruncated
  EveryCallReturns
CHECK_DEADLOCK FALSE
