SPECIFICATION Spec
CONSTANTS
  NonExistLeaf = NonExistLeaf
  NoOffset = NoOffset
  NoDate = NoDate
  Nothing = Nothing
  Keys <- TwoKeys
  Values <- OneNumber
  Behind = {0,1}
  ByteSize = 2
  Dates = {1}
  Offsets = {o1,o2,o3}
  MaxClock = 0
  MaxCrashes = 0
  HighSize = 4
SYMMETRY AnyOffset
INVARIANT
  ClosedIsLoadable
CHECK_DEADLOCK FALSE
