\* PurchaseOrders: one order, two skus, two prices, three requests at a time.
\* SalesJournal: two orders, two calls at a time, one of which throws; totals
\* that are split and totals that are refused.
\* StatusSweep: three orders on two sites, a run that fails.
SPECIFICATION ComponentsSpec
CONSTANTS
  Sku = {k1, k2}
  Price = {1, 3}
  Quantity = {2}
  Po = {p1}
  Request = {r1, r2, r3}
  Asked = {"SUBMITTED", "APPROVED", "REJECTED", "FULFILLED", "CANCELLED"}
  NoPrice = 0
  NoPo = NoPo
  MaxUpserts = 3
  Order = {o1, o2}
  Call = {c1, c2}
  Amount <- MCAmount
  Fraction = Fraction
  NoOrder = NoOrder
  MaxFails = 1
  Sold = {s1, s2, s3}
  s1 = s1
  s2 = s2
  s3 = s3
  Places <- MCPlaces
  SitesOf <- MCSitesOf
  Statuses = 2
  Window = 1
  Unit = 2
  Lookback = 2
  PageSize = 1
  MaxPages = 2
  MaxNow = 2
INVARIANTS TypeOK PricedFromOneList ApprovalTrail RequestInv JournalTypeOK OneEntryUnlessRaced PostedInFull SweepTypeOK SweptMeansStored
PROPERTY LegalUnlessRaced
CHECK_DEADLOCK FALSE
