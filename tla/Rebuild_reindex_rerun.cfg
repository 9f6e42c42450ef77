SPECIFICATION Spec
CONSTANTS
  l1 = l1
  l2 = l2
  x = x
  y = y
  s1 = s1
  s2 = s2
  k1 = k1
  Library = {l1}
  Text = {x, y}
  Server = {}
  Terminal = {k1}
  None = None
  MaxCalls = 3
  Faults = {"stop", "read", "write"}
  MaxFaults = 1
  Kept = {"live", "archived", "quarantined", None}
SYMMETRY AlikeTexts
CHECK_DEADLOCK FALSE
INVARIANT ReindexIsRecoverable
