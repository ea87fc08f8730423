\* The smallest pool, more readers than permits, two writers, faults enough to
\* lose every permit.
CONSTANTS
  Readers = {r1, r2, r3}
  Writers = {w1, w2}
  Permits = 2
  MaxIdle = 2
  MaxFaults = 3
SPECIFICATION FairSpec
INVARIANTS PoolAccounted
PROPERTIES ReadsAnswered
