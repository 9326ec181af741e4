SPECIFICATION Spec
CONSTANTS
  OffsetSize = 4
  kBinCount = 4
  kDefaultClusterSize = 60
  kMaximumTypeSize = 1000
  Times = {7}
  Values <- SimpleValues
  kFreelistLimits <- NarrowLimits
  LastSmallBin = 2
  MaxExtend = 60
  ClusterSize = 60
  Junk = {0, 1000000}
  MaxDeviceEnd = 164
  MaxHeld = 2
  MaxCrashes = 0
INVARIANTS
  TypeOK
  HeldReadBack
  FreeListsSeparate
  NothingOverwritten
  ReadsStayOnDevice
  NoDoubleReference
  FixedSizeInv
  FiledInv
PROPERTIES
  DeletedIsReachable
  FreeStaysReachable
  ImplementsEntryStore
CHECK_DEADLOCK FALSE
