SPECIFICATION Spec
CONSTANTS
  Calls = {c1, c2}
  MaxItems = 2
  None = None
  LeaseTime = 1
  WaitTime = 2
  PollTime = 1
  MaxTime = 3
INVARIANTS
  TypeOK
  OneBatch
  AnswersAgree
  SessionsSettled
PROPERTY
  EveryCallIsAnswered
