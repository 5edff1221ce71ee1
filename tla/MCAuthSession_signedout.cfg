SPECIFICATION Spec
CONSTANTS
  Emails = {e1}
  NoUser = nobody
  Browsers = {b1}
  RequestIds = {r1, r2}
  AccessLife = 2
  RefreshLife = 3
  RenewEvery = 1
SYMMETRY Symmetry
INVARIANT SignedOutStaysOut
