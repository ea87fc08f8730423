\* The text of a match before and after it is fetched again.
CONSTANTS
  Null = Null
  Ids = {1, 2, 3}
  CandidateLimit = 3
  Limit = 2
  ContextLimit = 2
  Scores = {10, 11}
  MaxWrites = 1
SPECIFICATION SearchSpec
INVARIANTS SnippetUnaltered
CHECK_DEADLOCK FALSE
