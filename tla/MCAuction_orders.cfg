SPECIFICATION Spec
CONSTANTS
  Users = {u1, u2}
  NumItems = 2
  StartDay <- MCStartDay
  EndDay <- MCEndDay
  InitialBid <- MCInitialBid
  SeedRooms <- MCSeedRooms
  Prices = {1}
  MaxDay = 2
  BidIds = {b1, b2}
  OrderNumbers = {o1, o2}
  Instances = {s1}
SYMMETRY Symmetry
INVARIANTS OrderedItemsAreClosed OrderedOnceInTurn
PROPERTY ImplementsLedger
