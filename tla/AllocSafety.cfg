SPECIFICATION Spec
CONSTANTS
  a1 = a1
  a2 = a2
  Alloc = {a1, a2}
  NoAlloc = NoAlloc
  IP = {1, 2}
  Pool = {1}
  PoolSpecs <- ShrinkingPools
  Request <- MixedRequests
  Hash <- OneHash
  AllocationTimeout = 1
  TicksPerSecond = 3
  MaxClock = 5
  MaxOps = 4
  MaxFaults = 1
INVARIANTS TypeOK UniqueAddress ProgrammedIsAdvertised NeverForgotten
CHECK_DEADLOCK FALSE
