SPECIFICATION Spec
CONSTANTS
  s1 = s1
  s2 = s2
  s3 = s3
  alice = alice
  bob = bob
  op = op
  sid = sid
  key = key
  Never = Never
  Undefined = Undefined
  SessionIds = {s1, s2, s3}
  LogicalIds = {s1, s2, s3}
  Subjects = {alice, bob}
  Sids = {sid}
  Providers = {op}
  Keys = {key}
  Deadlines = {1, Never}
  MaxTime = 1
  SweepBatch = 1
  Inputs <- MCInputs
INVARIANTS
  TypeOK
  NoIdHasTwoMeanings
  EveryAliasHasItsLineage
PROPERTY
  RevocationHandlesSurvive
