SPECIFICATION Spec
CONSTANTS
  c1 = c1  c2 = c2  c3 = c3
  Calls = {c1, c2, c3}
  Archivers = {a1}
  Actions = {approve, reject}
  Notifying = {approve}
  None = None
  LeaseTime = 1
  MaxTime = 2
SYMMETRY Symmetry
INVARIANTS
  TypeOK
  EffectsShareOneAttempt
  OneOwnerCommits
  MessageIsInOnePlace
  SenderIsToldOnce
PROPERTY
  LeaseIsHonoured
