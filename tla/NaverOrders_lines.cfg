\* An order of two lines, no failure.
SPECIFICATION Spec
CONSTANTS
  a1 = a1
  a2 = a2
  b1 = b1
  Line = {a1, a2}
  OrderOf <- Orders
  Window = 2
  Lookback = 3
  BatchSize = 2
  MaxPages = 2
  MaxClock = 4
  MaxFails = 0
PROPERTY LinesStayOnFile
