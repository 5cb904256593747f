SPECIFICATION Spec
CONSTANTS
  c1 = c1  c2 = c2  id1 = id1  id2 = id2  l1 = l1  l2 = l2  s1 = s1  p1 = p1  p2 = p2
  Calls = {c1}
  Deleters = {c1}
  Ids = {id1, id2}
  Lineages = {l1, l2}
  Subjects = {s1}
  Providers = {p1}
  None = None
  MaxTime = 1
  MaxWrites = 4
PROPERTY
  AliasesOutlastOtherLogouts
