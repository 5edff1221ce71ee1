SPECIFICATION Spec
CONSTANTS
  Users = {u1, u2}
  NumItems = 1
  StartDay <- MCStartDay
  EndDay <- MCEndDay
  InitialBid <- MCInitialBid
  SeedRooms <- MCSeedRooms
  Prices = {1, 2}
  MaxDay = 1
  BidIds = {b1, b2}
  OrderNumbers = {}
  Instances = {s1, s2}
INVARIANT HighestIsKept
