SPECIFICATION FairSpec
CONSTANTS
  Users = {u1}
  NumItems = 1
  StartDay <- MCStartDay
  EndDay <- MCEndDay
  InitialBid <- MCInitialBid
  SeedRooms <- MCSeedRooms
  Prices = {1, 2}
  MaxDay = 1
  BidIds = {b1}
  OrderNumbers = {o1, o2}
  Instances = {s1}
INVARIANT OrderedOnce
