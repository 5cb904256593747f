CONSTANTS
  b1 = b1  b2 = b2  b3 = b3  p1 = p1  p2 = p2  alice = alice  s1 = s1
  Logins = {l1}
  Callbacks = {c1}
  Exchanges = {}
  Refreshes = {}
  Logouts = {}
  Backchannels = {b1, b2}
  Subjects = {alice}
  Sids = {s1}
  Providers = {p1, p2}
  Keys = {}
  Undefined = Undefined
  Never = Never
  MaxTime = 1
  TxnTtl = 1
  CodeTtl = 1
  SessionTtl = Never
  HookDeadlines = {}
  SweepBatch = 1
  Deadlines <- MCDeadlines
  Config <- MCConfig
  Token <- MCToken
SPECIFICATION Spec
INVARIANT SequentialReplayIsSilent
