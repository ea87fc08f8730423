\* One process that keeps ingesting two rollouts, of which either may spawn the other.
CONSTANTS
  None = None
  Rollouts = {r1, r2}
  Processes = {p1}
  MaxVersion = 3
  MaxFaults = 1
  Deletions = TRUE
SPECIFICATION FairSpec
INVARIANTS CacheCoversArchived
PROPERTIES LineageConverges LinkKept
