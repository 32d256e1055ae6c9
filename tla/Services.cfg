SPECIFICATION FairSpec
CONSTANTS
  s1 = s1
  p = p
  t1 = t1
  t2 = t2
  Svc <- Services
  Address <- Addresses
  Pool <- Pools
  FamilyOf <- Families
  PoolOf <- OnePool
  Configs <- SomeConfigs
  Targets <- Contents
  MaxOps = 2
  MaxFaults = 1
  MaxEvents = 2
INVARIANTS TypeOK QuietIsExact NothingLeftBehind StrayRouteIsBusy GuardedByFinalizer
PROPERTY ComesToRest
CHECK_DEADLOCK FALSE
