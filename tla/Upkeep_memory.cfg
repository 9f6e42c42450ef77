SPECIFICATION Spec
CONSTANTS
  Library = {l1, l2}
  Text <- MCText
  Length <- MCEqual
  Cosine <- MCCosine
  Weak = {}
  Wordless = {2}
  None = None
  Caller = {c1, c2}
  Named = {c1}
  MaxCalls = 2
  Faults = {"stop", "swallow"}
  MaxFaults = 1
  Kept <- MCKept
CHECK_DEADLOCK FALSE
PROPERTIES ReassertionEndsKept OfferedIsFindable ExpireSparesKept MoveLosesNothing MergeKeepsOne ResumeFinishes
