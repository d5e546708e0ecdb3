\* One credential that does not decrypt, another connection that works.
SPECIFICATION FairSpec
CONSTANTS
  c1 = c1
  c2 = c2
  c3 = c3
  o1 = o1
  o2 = o2
  t1 = t1
  t2 = t2
  m1 = m1
  None = None
  Conn = {c1, c2}
  Order = {o1}
  Home <- HomeOne
  Tick = {t1}
  Manual = {}
  Lookback = 2
  MaxPages = 2
  NoAdapter = {}
  Broken = {}
  Corrupt = {c2}
  MaxNow = 3
  MaxVersion = 2
  MaxFaults = 0
  MaxCalls = 1
PROPERTY ConvergesToMarketplace
