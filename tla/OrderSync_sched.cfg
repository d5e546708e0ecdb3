\* Scheduler only: one connection, two orders, faults and crashes.
SPECIFICATION Spec
CONSTANTS
  c1 = c1
  c2 = c2
  c3 = c3
  o1 = o1
  o2 = o2
  t1 = t1
  t2 = t2
  m1 = m1
  None = None
  Conn = {c1, c3}
  Order = {o1, o2}
  Home <- HomeOne
  Tick = {t1, t2}
  Manual = {}
  Lookback = 2
  MaxPages = 2
  NoAdapter = {c3}
  Broken = {}
  Corrupt = {}
  MaxNow = 3
  MaxVersion = 2
  MaxFaults = 2
  MaxCalls = 1
SYMMETRY TickSymmetry
INVARIANTS TypeOK TicksNeverOverlap ResumeSkipsNothing ScanInv
PROPERTY ImplementsMirror
