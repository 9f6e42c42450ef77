SPECIFICATION Spec
CONSTANTS
  Mode <- MCMode
  Memory = {1, 2}
  Procedure = {1}
  Key <- MCKeys
  TestKey <- MCTestKeys
  ProcedureKey <- MCTestKeys
  Server = {s1}
  Task = {}
  FailThreshold = 2
  EditCap = 0
  MaxCalls = 3
  Faults = {"abort", "crash"}
  MaxFaults = 1
  Fact = {}
  Window = 2
  TickCap = 2
  CadenceMin = 1
  CadenceMax = 1
  CadenceDefault = 1
  Dependants = {0, 3}
  None = None
INVARIANTS NoDoubleCount
PROPERTIES FlagIsTakenUp
