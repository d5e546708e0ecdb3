\* A connection that works and one that always fails, an order of two versions
\* (an overlapping manual call can put the older one back), a fault and a
\* crash, under fairness.
SPECIFICATION FairSpec
CONSTANTS
  c1 = c1
  c2 = c2
  c3 = c3
  o1 = o1
  o2 = o2
  t1 = t1
  t2 = t2
  m1 = m1
  None = None
  Conn = {c1, c2}
  Order = {o1}
  Home <- HomeOne
  Tick = {t1}
  Manual = {m1}
  Lookback = 1
  MaxPages = 1
  NoAdapter = {}
  Broken = {c2}
  Corrupt = {}
  MaxNow = 1
  MaxVersion = 2
  MaxFaults = 1
  MaxCalls = 1
PROPERTIES ConvergesToMarketplace LostRunIsSuperseded
