SPECIFICATION AssertOnlySpec
CONSTANTS
  x = x
  y = y
  z = z
  a1 = a1
  a2 = a2
  p1 = p1
  p2 = p2
  None = None
  Object = {x, y}
  Agent = {a1}
  Process = {p1}
  ProcessOf <- Alone
  Mode = "chat_only"
  Registrations = {"temporal_single"}
  Backfill = {}
  MonthsPerTick = 12
  MaxClock = 2
  MaxConfirmations = 3
  Faults = {}
  MaxFaults = 0
SYMMETRY Two
INVARIANT AsOfIsOneValue
