SPECIFICATION FairSpec
CONSTANTS
  p1 = p1
  a1 = a1
  a2 = a2
  Pool = {p1}
  Alloc = {a1, a2}
  IP = {1, 2}
  AddressSets <- Contents
  PoolName <- OneNamed
  NoName = NoName
  NoPool = NoPool
  MaxOps = 3
  MaxFaults = 1
INVARIANTS StatusIsCurrent UnmarkedIsMoved
PROPERTY PoolDeletionCompletes
CHECK_DEADLOCK FALSE
