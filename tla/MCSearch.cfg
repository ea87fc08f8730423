\* Every lineage of three sessions, and a commit at any moment of the search.
CONSTANTS
  Null = Null
  Ids = {1, 2, 3}
  CandidateLimit = 3
  Limit = 2
  ContextLimit = 2
  Scores = {10, 11}
  MaxWrites = 1
SPECIFICATION SearchSpec
INVARIANTS OneSlotPerLineage ContextFromLineage
CHECK_DEADLOCK FALSE
