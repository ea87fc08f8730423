\* Previews after a reindex that was cut short.
CONSTANTS
  t1 = t1  t2 = t2
  None = None
  Sessions = {s1}
  Streams = {t1, t2}
  KindsOf <- KindsOfStreams
  Gated = {"tool_result", "usage"}
  Long = {t1}
  Tokenizers = {"unicode61", "jieba"}
  Bundled = {"unicode61"}
  Processes = {p1}
  MaxFaults = 1
SPECIFICATION Spec
INVARIANTS DriftDetected
