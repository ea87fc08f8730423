CONSTANTS
  None = None
  Long <- NoLong
  s1 = s1
  s2 = s2
  p1 = p1
  p2 = p2
  a1 = a1
  a2 = a2
  m1 = m1
  b1 = b1
  b2 = b2
  Sessions = {s1, s2}
  Transcript <- Grown
  Bytes <- Lengths
  Garbled = {b2}
  Paths = {p1, p2}
  Windows <- Asks
  Foreign = Foreign
  MaxDamage = 1
  MaxCalls <- Calls
  MaxOthers = 1
SPECIFICATION Spec
INVARIANTS ShowResolves AlarmIsReal VerifiedServes TargetsWhole
PROPERTIES NoClobber
CHECK_DEADLOCK FALSE
