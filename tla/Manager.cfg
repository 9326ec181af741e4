SPECIFICATION Spec
CONSTANTS
  NonExistLeaf = NonExistLeaf
  NoOffset = NoOffset
  NoDate = NoDate
  Nothing = Nothing
  Keys <- TwoKeys
  Values <- TwoNumbers
  Behind = {1}
  ByteSize = 2
  Dates = {3,8}
  Offsets = {o1,o2,o3}
  MaxClock = 4
  MaxCrashes = 0
  HighSize = 2
SYMMETRY AnyOffset
INVARIANTS
  TypeOK
  EntriesAreOwned
PROPERTY
  ImplementsKeyValueStore
CHECK_DEADLOCK FALSE
