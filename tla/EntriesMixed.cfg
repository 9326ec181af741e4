SPECIFICATION Spec
CONSTANTS
  OffsetSize = 8
  kBinCount = 4
  kDefaultClusterSize = 256
  kMaximumTypeSize = 1000
  Times = {}
  Values <- MixedValues
  kFreelistLimits <- WideLimits
  LastSmallBin = 2
  MaxExtend = 256
  ClusterSize = 256
  Junk = {0, 1000000}
  MaxDeviceEnd = 836
  MaxHeld = 3
  MaxCrashes = 0
INVARIANTS
  HeldReadBack
  NothingOverwritten
  ReadsStayOnDevice
  NoDoubleReference
  FreeListsSeparate
CHECK_DEADLOCK FALSE
