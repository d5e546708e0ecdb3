SPECIFICATION ServicesSpec
CONSTANTS
  Email = {e1, e2}
  Code = {c1, c2}
  NoEmail = NoEmail
  NoCode = NoCode
  Draws = 2
  Ttl = 1
  Window = 2
  RequestLimit = 2
  ResetLimit = 2
  MaxRequests = 4
  MaxNow = 2
  Key = {k1, k2}
  Hits = 2
  AlertWindow = 2
  MaxTick = 3
  MaxAttempts = 2
  MaxDelay = 2
  Hints = {0, 9}
  EsmHint = 1
  Skew = 2
  Lifetimes = {1, 6}
  MaxTime = 7
  MaxCalls = 2
CHECK_DEADLOCK FALSE
SYMMETRY Symmetry
INVARIANT ServicesTypeOK
INVARIANT SignupsAreDistinct
INVARIANT LatestCodeStands
INVARIANT OneResetUnlessRaced
INVARIANT CodeExpires
INVARIANT WindowBound
INVARIANT RefusedOnlyWhenFull
INVARIANT OneAlertPerWindow
INVARIANT ExpiresOnlyWhenLate
INVARIANT CallIsBounded
