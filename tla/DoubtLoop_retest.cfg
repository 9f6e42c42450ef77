SPECIFICATION Spec
CONSTANTS
  Mode <- MCMode
  Memory = {1}
  Procedure = {1}
  Key <- MCTestKeys
  TestKey <- MCTestKeys
  ProcedureKey <- MCTestKeys
  Server = {s1}
  Task = {h1}
  FailThreshold = 1
  EditCap = 2
  MaxCalls = 2
  Faults = {"abort", "crash", "read"}
  MaxFaults = 1
  Fact = {11, 12}
  Window = 2
  TickCap = 2
  CadenceMin = 1
  CadenceMax = 2
  CadenceDefault = 1
  Dependants = {0, 3}
  None = None
INVARIANTS CadenceInRange
PROPERTIES YieldsToCalls FlagsSurvive
