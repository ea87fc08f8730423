\* Two connections that interleave their transactions on one archive file.
CONSTANTS
  a = a  b = b  c = c
  l1 = l1  l2 = l2  o1 = o1  o2 = o2
  t1 = t1  t2 = t2  f1 = f1  f2 = f2
  None = None
  Sessions = {a, b, c}
  Locators = {l1, l2}
  Contents = {o1, o2}
  Streams = {t1, t2}
  Prints = {f1, f2}
  Connections = {w1, w2}
  Batches <- MixedBatches
SYMMETRY Interchangeable
SPECIFICATION Spec
INVARIANTS ChildCountExact SnapshotsRestorable ProjectionsAgree
PROPERTIES SnapshotsRetained ImplementsArchive
