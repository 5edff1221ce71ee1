SPECIFICATION FairSpec
CONSTANTS
  Users = {u1}
  NumItems = 3
  StartDay <- MCStartDay
  EndDay <- MCEndDay
  InitialBid <- MCInitialBid
  SeedRooms <- MCSeedButLast
  Prices = {1, 2}
  MaxDay = 2
  BidIds = {b1}
  OrderNumbers = {}
  Instances = {s1, s2}
PROPERTIES MidnightDropsRooms NoRoomForgotten
