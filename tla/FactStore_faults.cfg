SPECIFICATION InferringSpec
CONSTANTS
  x = x
  y = y
  z = z
  a1 = a1
  a2 = a2
  p1 = p1
  p2 = p2
  None = None
  Object = {x, y}
  Agent = {a1, a2}
  Process = {p1}
  ProcessOf <- AgentsTogether
  Mode = "chat_only"
  Registrations = {"single", "temporal_single", "multi"}
  Backfill = {}
  MonthsPerTick = 24
  MaxClock = 1
  MaxConfirmations = 2
  Faults = {"abort", "crash", "read"}
  MaxFaults = 1
SYMMETRY Two
PROPERTY AxisKeepsAValue
