SPECIFICATION FairSpec
CONSTANTS
  s1 = s1
  s2 = s2
  x4 = x4
  z4 = z4
  y6 = y6
  e4 = e4
  g4 = g4
  e6 = e6
  http = http
  dns = dns
  Svc <- Services
  Address <- Addresses
  Endpoint <- Endpoints
  Port <- PortSet
  FamilyOf <- Families
  Models <- ModelSet
  MaxChanges = 3
  MaxFaults = 1
INVARIANTS ForwardedExactly TranslatedExactly DeletedLeavesNothing GuardedBeforeListed
PROPERTY Converges
CHECK_DEADLOCK FALSE
