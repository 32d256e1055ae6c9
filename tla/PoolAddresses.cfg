SPECIFICATION SearchSpec
CONSTANTS
  MaxAddr = 3
  PrefixSize <- Sizes
  EntryLists <- AllInputs
  RangeLists <- CanonicalLists
  Hashes <- AllHashes
INVARIANTS MergedExactly ExcludedRangesAreOut NothingIsLost PoolIsCanonical OverlapFound ContainsIsExact InOrder OffersEveryAddress
PROPERTY Finishes
CHECK_DEADLOCK FALSE
