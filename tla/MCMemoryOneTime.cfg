SPECIFICATION Spec
CONSTANTS
  key = key
  browser = browser
  sess1 = sess1
  sess2 = sess2
  st = st
  c1 = c1
  c2 = c2
  jti = jti
  p1 = p1  p2 = p2  p3 = p3
  n1 = n1  n2 = n2  n3 = n3  n4 = n4  n5 = n5  n6 = n6  n7 = n7
  Never = Never
  Undefined = Undefined
  States = {st}
  Codes = {c1, c2}
  Jtis = {jti}
  ProofKeys = {p1, p2, p3}
  TicketIds = {n1, n2, n3, n4, n5, n6, n7}
  MaxProofs = 2
  MaxTickets = 6
  ProofWindow = 1
  TicketWindow = 2
  CleanBatch = 1
  Records <- MCRecords
  Matches <- MCMatches
  Deadlines = {1, 2}
  MaxTime = 2
  SweepBatch = 1
CONSTRAINT HeapsAlone
VIEW View
SYMMETRY Symmetry
INVARIANT
  TypeOK
PROPERTY
  KeepsItsPromise
