SPECIFICATION FairSpec
CONSTANTS
  e1 = e1
  e2 = e2
  Key = {e1, e2}
  Body <- Bodies
  RequestLists <- ScaledLists
  Edited = TRUE
  MaxOps = 2
  MaxFaults = 2
  MaxId = 7
INVARIANTS SyncedExactly
PROPERTIES ForeignKept RepeatedSyncIsQuiet Converges
CHECK_DEADLOCK FALSE
