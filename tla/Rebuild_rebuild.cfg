SPECIFICATION SparingSpec
CONSTANTS
  l1 = l1
  l2 = l2
  x = x
  y = y
  s1 = s1
  s2 = s2
  k1 = k1
  Library = {l1, l2}
  Text = {x}
  Server = {s1, s2}
  Terminal = {k1}
  None = None
  MaxCalls = 3
  Faults = {"stop", "read", "write"}
  MaxFaults = 1
  Kept = {"archived", None}
SYMMETRY AlikeCallers
CHECK_DEADLOCK FALSE
INVARIANTS SoleWriterKeeps ReindexKeepsText
PROPERTY MigrateKeepsText
