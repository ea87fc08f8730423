\* One client that pages through up to three sessions, one or two rows a page.
CONSTANTS
  None = None
  Sessions = {1, 2, 3}
  Times = {1, 2}
  Parents <- RootOrFirst
  Labels = {"a", "b"}
  Clients = {c1}
  Requests <- SomeRequests
  MaxCommits = 4
SPECIFICATION Spec
INVARIANTS WalkExact
