SPECIFICATION Spec
CONSTANTS
  s1 = s1
  k1 = k1
  c1 = c1
  c2 = c2
  Server = {s1}
  Terminal = {k1}
  None = None
  Chunk = {c1, c2}
  QueueCap = 1
  MaxPolls = 2
  MaxCalls = 3
  MaxFaults = 1
  Scenes <- MCScenes
CHECK_DEADLOCK FALSE
INVARIANTS ServingIsNamed InstalledIsWhole OneChild DownloadsAreWhole
PROPERTY QueuedIsSettled
