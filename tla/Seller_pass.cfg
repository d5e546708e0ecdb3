\* Two connections with two credentials each, a failure or exit; an order of
\* two lines and one of one; two calls of the page at once; two uploads; books
\* of up to four lines; two runs of a script.
SPECIFICATION SellerSpec
CONSTANTS
  s1 = s1
  Seller = {s1}
  Market = {"naver_smartstore", "coupang"}
  Timer = timer
  m1 = m1
  Manual = {m1}
  NoCycle = NoCycle
  MaxSecret = 2
  MaxRequests = 2
  MaxCalls = 1
  MaxFaults = 1
  a1 = a1
  a2 = a2
  b1 = b1
  Line = {a1, a2, b1}
  Orders <- MCOrders
  Window = 2
  Lookback = 3
  BatchSize = 2
  MaxPages = 2
  MaxClock = 5
  MaxFails = 1
  o1 = o1
  o2 = o2
  Order = {o1, o2}
  Markets <- MCMarkets
  RawStatus = {"DELIVERING"}
  Filter = {All, "DISPATCHED"}
  Pick = {"CANCELLED"}
  None = None
  All = All
  MaxInFlight = 2
  MaxClicks = 3
  MaxSyncPages = 1
  OrderNo = {"a", "b"}
  Sheets <- MCSheets
  Blank = Blank
  Spaces = Spaces
  MaxUploads = 2
  q1 = q1
  q2 = q2
  Quote = {q1, q2}
  Entries <- MCEntries
  Starts <- MCStarts
  AsOf = 100
  Bounds <- MCBounds
  Months = 3
  MonthDays = 30
  Grain = 100
  Margin = 4000
  Speed = Null
  Null = Null
  MaxPosts = 1
  MaxMoves = 2
  Run = {1, 2}
  Pages = 2
  Lists <- MCLists
  Envs <- MCEnvs
  MaxPullFaults = 1
INVARIANTS SellerTypeOK SweptMeansFiled StoredWasVerified StaleOnlyUnderWay
INVARIANTS SavedAsShown TableIsOfFilter ImportedIsItsSheet AgingIsFifo
INVARIANTS ThrowsOnlyWhenRaced HealthWithinAxes PulledIsKept
PROPERTIES ReconnectHeals EveryChangeFiled
CHECK_DEADLOCK FALSE
