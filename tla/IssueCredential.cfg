SPECIFICATION Spec
CONSTANTS
  t1 = t1
  t2 = t2
  NoThread = NoThread
  Threads <- MCThreads
  Scenarios <- MCScenarios
  MaxAttempts <- MCAttempts
  StatePolls = 2
INVARIANTS
  TypeOK
  FailsOnlyWhenLate
  CredoPostsInState
  PassMeansIssued
  OnlyThisAttempt
PROPERTIES
  AttemptEnds
  IssuanceSpec
CHECK_DEADLOCK FALSE
