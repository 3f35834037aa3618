SPECIFICATION MCSpec
CONSTANTS
  Keys = {1, 2, 3, 4, 5, 6, 7, 8, 9, 10, 11, 12}
  FullKeys = 9
INVARIANTS
  SearchTree
  SelfChecksHold
PROPERTIES
  ImplementsOrderedSet
