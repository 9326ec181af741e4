SPECIFICATION Spec
CONSTANTS
  NonExistLeaf = NonExistLeaf
  Keys <- SomeKeys
  Leaves = {1, 2}
INVARIANTS
  RemembersKeys
PROPERTIES
  RoundTrip
  ChangesAreFlagged
  CatalogsStay
CHECK_DEADLOCK FALSE
