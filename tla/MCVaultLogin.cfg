CONSTANTS
  l1 = l1  l2 = l2  c1 = c1  c2 = c2  e1 = e1  e2 = e2  p1 = p1  p2 = p2
  Logins = {l1, l2}
  Callbacks = {c1, c2}
  Exchanges = {e1, e2}
  Refreshes = {}
  Logouts = {}
  Backchannels = {}
  Subjects = {alice}
  Sids = {}
  Providers = {p1, p2}
  Keys = {k1}
  Undefined = Undefined
  Never = Never
  MaxTime = 2
  TxnTtl = 1
  CodeTtl = 1
  SessionTtl = 2
  HookDeadlines = {1, 4}
  SweepBatch = 1
  Deadlines <- MCDeadlines
  Config <- MCConfig
  Token <- MCToken
SPECIFICATION Spec
INVARIANTS
  LoginIsCarriedThroughOnce
  GrantMatchesLogin
  LifetimeIsAbsolute
  FailureLeavesNoSession
