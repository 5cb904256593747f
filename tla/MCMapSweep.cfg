SPECIFICATION Spec
CONSTANTS
  k1 = k1
  k2 = k2
  k3 = k3
  MapKeys = {k1, k2, k3}
  Never = Never
  Deadlines = {1, 2, Never}
  MaxTime = 2
  SweepBatch = 2
INVARIANTS
  SweepIsAsAssumed
PROPERTY
  ExpiredRecordsAreReclaimed
