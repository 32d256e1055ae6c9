SPECIFICATION AdvSpec
CONSTANTS
  Bits = {0, 24}
  Distances = {0, 1}
  Interfaces = {ether1, ether2}
  NoInterface = none
  MaxRoutes = 3
INVARIANTS LongestPrefixWins AdvertisementIsExact AnnouncedIsAdvertised
CHECK_DEADLOCK FALSE
