\* Two processes that open, switch tokenizers, write, reindex, fail and die.
CONSTANTS
  t1 = t1  t2 = t2
  None = None
  Sessions = {s1, s2}
  Streams = {t1, t2}
  KindsOf <- KindsOfStreams
  Gated = {"tool_result", "usage"}
  Long = {t1}
  Tokenizers = {"unicode61", "jieba"}
  Bundled = {"unicode61"}
  Processes = {p1, p2}
  MaxFaults = 1
SYMMETRY Interchangeable
SPECIFICATION Spec
INVARIANTS IndexVerified ExactInPeace
PROPERTIES ReindexRepairs
