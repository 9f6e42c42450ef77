SPECIFICATION NoRestoreSpec
CONSTANTS
  x = x
  y = y
  z = z
  a1 = a1
  a2 = a2
  p1 = p1
  p2 = p2
  None = None
  Object = {x, y}
  Agent = {a1, a2}
  Process = {p1, p2}
  ProcessOf <- AgentsApart
  Mode = "chat_only"
  Registrations = {"single"}
  Backfill = {20}
  MonthsPerTick = 24
  MaxClock = 0
  MaxConfirmations = 2
  Faults = {}
  MaxFaults = 0
INVARIANTS OneActive ViewsAgree CorrectedIsNoSequence
PROPERTIES EveryAssertionCounts RedoLeavesOneValue InvalidateIsFinal KeepsPromise FactsLockIsReleased
