SPECIFICATION SearchSpec
CONSTANTS
  MaxAddr = 3
  PrefixSize <- Sizes
  EntryLists <- RangeInputs
  RangeLists <- NoPool
  Hashes <- NoHash
INVARIANT NothingIsAdded
CHECK_DEADLOCK FALSE
