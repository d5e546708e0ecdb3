\* The moves the routes of app.ts ask for.
SPECIFICATION ComponentsSpec
CONSTANTS
  Sku = {k1, k2}
  Price = {1, 3}
  Quantity = {2}
  Po = {p1}
  Request = {r1, r2}
  Asked = {"SUBMITTED", "APPROVED", "REJECTED"}
  NoPrice = 0
  NoPo = NoPo
  MaxUpserts = 3
  Order = {o1, o2}
  Call = {}
  Amount = {1, 6, 11}
  Fraction = Fraction
  NoOrder = NoOrder
  MaxFails = 1
  Sold = {}
  s1 = s1
  s2 = s2
  s3 = s3
  Places <- MCPlaces
  SitesOf <- MCSitesOf
  Statuses = 2
  Window = 1
  Unit = 2
  Lookback = 2
  PageSize = 1
  MaxPages = 2
  MaxNow = 0
PROPERTY TerminalIsFinal
CHECK_DEADLOCK FALSE
