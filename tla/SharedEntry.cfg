SPECIFICATION Spec
CONSTANTS
  OffsetSize = 8
  kBinCount = 4
  kDefaultClusterSize = 128
  kMaximumTypeSize = 1000
  Times = {}
  Values <- SplitValues
  kFreelistLimits <- HalfLimits
  LastSmallBin = 2
  MaxExtend = 128
  ClusterSize = 128
  Junk = {0, 1000000}
  MaxDeviceEnd = 580
  MaxHeld = 3
  MaxCrashes = 0
INVARIANT
  HeldReadBack
CHECK_DEADLOCK FALSE
