SPECIFICATION Spec
CONSTANTS
  p1 = p1
  s1 = s1
  c1 = c1
  c2 = c2
  Procedure = {p1}
  Skill = {s1}
  Client = {c1, c2}
  None = None
  Legacy <- MCLegacy
  MaxCalls = 4
  MaxFaults = 1
SYMMETRY Alike
CHECK_DEADLOCK FALSE
INVARIANTS TrustIsEarned
PROPERTIES RewritingKeepsTrust ReportMovesTrust
