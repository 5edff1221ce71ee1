SPECIFICATION FairSpec
CONSTANTS
  Users = {u1}
  NumItems = 2
  StartDay <- MCStartDay
  EndDay <- MCEndDay
  InitialBid <- MCInitialBid
  SeedRooms <- MCSeedRooms
  Prices = {1, 2}
  MaxDay = 2
  BidIds = {}
  OrderNumbers = {}
  Instances = {s1}
PROPERTY RoomsAreDeleted
