SPECIFICATION Spec
CONSTANTS
  m1 = m1
  m2 = m2
  h1 = h1
  h2 = h2
  k1 = k1
  k2 = k2
  a = a
  b = b
  n1 = n1
  n2 = n2
  x = x
  u = u
  w = w
  Mcp = {m1}
  Task = {h1, h2}
  Terminal = {k1, k2}
  None = None
  Agent = {a}
  IdleTicks = 2
  MaxClock = 2
  Legacy = 2
  Old = n1
  New = n2
  Name = {n1, n2}
  Value = {x}
  Secret = {n1}
  Password = {u, w}
  FlushEvery = 2
  Mixes <- MCMixes
  MaxBlocks = 1
  MaxCalls = 3
  MaxFaults = 1
SYMMETRY Alike
CHECK_DEADLOCK FALSE
INVARIANTS NoNewBreak ReanchorSettles NoAccessInvented
PROPERTIES LiveIsNotClosed StartIsActive VaultKeepsItsKey
