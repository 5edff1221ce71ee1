SPECIFICATION Spec
CONSTANTS
  w1 = w1
  Users = {u1, u2}
  NoUser = NoUser
  Browsers = {w1}
  Pages = {p1, p2}
  BrowserOf <- MCBrowserOf
  Prices = {1}
  BidIds = {b1, b2}
  Instances = {s1}
SYMMETRY Symmetry
CHECK_DEADLOCK FALSE
INVARIANTS TypeOK OwnAccountBids MineIsMine AnnouncedIsAccountedFor
PROPERTY ImplementsBoard
