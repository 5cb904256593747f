CONSTANTS
  b1 = b1  b2 = b2  b3 = b3  p1 = p1  p2 = p2  alice = alice  s1 = s1
  Logins = {l1}
  Callbacks = {c1}
  Exchanges = {e1}
  Refreshes = {r1}
  Logouts = {}
  Backchannels = {b1, b2, b3}
  Subjects = {alice}
  Sids = {s1}
  Providers = {p1, p2}
  Keys = {}
  Undefined = Undefined
  Never = Never
  MaxTime = 2
  TxnTtl = 2
  CodeTtl = 2
  SessionTtl = Never
  HookDeadlines = {2}
  SweepBatch = 1
  Deadlines <- MCDeadlines
  Config <- MCConfig
  Token <- MCToken
SPECIFICATION Spec
INVARIANTS
  OneRevocationOwner
PROPERTY
  EndedLineagesStayEnded
