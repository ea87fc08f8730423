\* Two processes that ingest one file of one agent at the same time; one of them may die, or its
\* scan may fail.
CONSTANTS
  f1 = f1  f2 = f2  a1 = a1  a2 = a2
  None = None
  Files = {f1}
  Agents = {a1}
  AgentOf <- OneFile
  Processes = {p1, p2}
  Malformed = {}
  Filtered = {}
  SkipSets <- Nobody
  QuietEdits = FALSE
  Threshold = 2
  MaxContent = 1
  MaxAck = 2
  MaxCrashes = 1
SYMMETRY Interchangeable
SPECIFICATION Spec
INVARIANTS AcksIncrease QuarantineEarned
PROPERTIES NeverRegresses
