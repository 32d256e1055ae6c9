SPECIFICATION Spec
CONSTANTS
  a1 = a1
  a2 = a2
  Alloc = {a1}
  NoAlloc = NoAlloc
  IP = {1, 2}
  Pool = {1}
  PoolSpecs <- DeletedPool
  Request <- DynamicRequests
  Hash <- NoHash
  AllocationTimeout = 1
  TicksPerSecond = 3
  MaxClock = 8
  MaxOps = 3
  MaxFaults = 0
PROPERTY WithdrawnBeforeForgotten
CHECK_DEADLOCK FALSE
