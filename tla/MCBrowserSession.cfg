SPECIFICATION Spec
CONSTANTS
  t1 = t1  t2 = t2
  Tabs = {t1, t2}
  None = None
  MaxCalls = 3
  MaxReloads = 1
SYMMETRY Symmetry
INVARIANTS
  TypeOK
  ClearedStaysCleared
  LogoutReachesEveryTab
PROPERTY
  ClearIsAboutItsEntry
