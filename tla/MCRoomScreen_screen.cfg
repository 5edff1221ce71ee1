SPECIFICATION ScreenSpec
CONSTANTS
  w1 = w1
  Users = {u1}
  NoUser = NoUser
  Browsers = {w1}
  Pages = {p1}
  BrowserOf <- MCBrowserOf
  Prices = {1}
  BidIds = {b1}
  Instances = {s1}
CHECK_DEADLOCK FALSE
PROPERTY ShownCatchesUp
