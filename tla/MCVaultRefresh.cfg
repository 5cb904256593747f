CONSTANTS
  l1 = l1  c1 = c1  e1 = e1  r1 = r1  r2 = r2  o1 = o1  p1 = p1
  Logins = {l1}
  Callbacks = {c1}
  Exchanges = {e1}
  Refreshes = {r1, r2}
  Logouts = {o1}
  Backchannels = {}
  Subjects = {alice}
  Sids = {}
  Providers = {p1}
  Keys = {k1, k2}
  Undefined = Undefined
  Never = Never
  MaxTime = 2
  TxnTtl = 1
  CodeTtl = 1
  SessionTtl = 2
  HookDeadlines = {}
  SweepBatch = 1
  Deadlines <- MCDeadlines
  Config <- MCConfig
  Token <- MCToken
SPECIFICATION Spec
INVARIANTS
  TypeOK
  OneSessionPerLineage
  GrantMatchesLogin
  LifetimeIsAbsolute
  FailureLeavesNoSession
  LogoutIsTotal
PROPERTY
  EndedLineagesStayEnded
