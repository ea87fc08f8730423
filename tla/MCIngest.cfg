\* One process that keeps ingesting two files of one agent: batch, fallback, quarantine, filtered
\* sessions, requests that leave a file out, an agent without files, failed scans and crashes.
CONSTANTS
  f1 = f1  f2 = f2  a1 = a1  a2 = a2
  None = None
  Files = {f1, f2}
  Agents = {a1, a2}
  AgentOf <- OneAgent
  Processes = {p1}
  Malformed <- Rejected
  Filtered <- LeftOut
  SkipSets <- MaySkip
  QuietEdits = FALSE
  Threshold = 2
  MaxContent = 2
  MaxAck = 1
  MaxCrashes = 1
SPECIFICATION FairSpec
INVARIANTS UnchangedIsCurrent
PROPERTIES EventuallyArchived AckCoversRun
