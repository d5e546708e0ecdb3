\* A manual run beside the scheduler.
SPECIFICATION Spec
CONSTANTS
  c1 = c1
  c2 = c2
  c3 = c3
  o1 = o1
  o2 = o2
  t1 = t1
  t2 = t2
  m1 = m1
  None = None
  Conn = {c1}
  Order = {o1}
  Home <- HomeOne
  Tick = {t1, t2}
  Manual = {m1}
  Lookback = 2
  MaxPages = 2
  NoAdapter = {}
  Broken = {}
  Corrupt = {}
  MaxNow = 3
  MaxVersion = 2
  MaxFaults = 0
  MaxCalls = 1
PROPERTY StoredNeverRegresses
