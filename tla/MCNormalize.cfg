\* Every agent, up to four facts, calls with delegated tasks, results that fail.
CONSTANTS
  c1 = c1
  c2 = c2
  t1 = t1
  t2 = t2
  short = short
  long = long
  None = None
  Long = {long}
  Agents <- AllAgents
  Vocabulary <- WordsOf
  MaxFacts <- FactsOf
  QuietEdits = FALSE
  Loose = FALSE
SPECIFICATION NormalizeSpec
INVARIANTS EachSaidOnce ChecksAccept SnapshotCovers PrintCovers
PROPERTIES GrowthKeeps
CHECK_DEADLOCK FALSE
