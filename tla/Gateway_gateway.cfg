SPECIFICATION Spec
CONSTANTS
  l1 = l1
  l2 = l2
  a = a
  b = b
  t1 = t1
  t2 = t2
  Library = {l1, l2}
  Default = l2
  Startup <- MCStartup
  Claim = {a, b}
  Earlier = {b}
  Anonymous = anonymous
  None = None
  Quota = 1
  Window = 2
  Extractor = TRUE
  MaxCalls = 2
  MaxClock = 3
CHECK_DEADLOCK FALSE
INVARIANTS ScopeConfines SignedByItsHolder QuotaHolds
