SPECIFICATION Spec
CONSTANTS
  e1 = e1
  e2 = e2
  Key = {e1, e2}
  Body <- Bodies
  RequestLists <- ReorderedLists
  Edited = FALSE
  MaxOps = 1
  MaxFaults = 0
  MaxId = 7
INVARIANTS FallbackIsLast
CHECK_DEADLOCK FALSE
