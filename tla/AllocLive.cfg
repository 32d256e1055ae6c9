SPECIFICATION LiveSpec
CONSTANTS
  a1 = a1
  a2 = a2
  Alloc = {a1, a2}
  NoAlloc = NoAlloc
  IP = {1}
  Pool = {1}
  PoolSpecs <- OneAddress
  Request <- OneFixedRequest
  Hash <- NoHash
  AllocationTimeout = 1
  TicksPerSecond = 3
  MaxClock = 6
  MaxOps = 3
  MaxFaults = 1
INVARIANT UniqueInv
PROPERTIES ImplementsLedger DeletionCompletes FreedAddressIsGranted
CHECK_DEADLOCK FALSE
