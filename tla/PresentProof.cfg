SPECIFICATION Spec
CONSTANTS
  t1 = t1
  t2 = t2
  t3 = t3
  t4 = t4
  NoThread = NoThread
  Threads <- MCThreads
  Scenarios <- MCScenarios
  MaxAttempts <- MCAttempts
  StatePolls = 4
INVARIANTS
  TypeOK
  FailsOnlyWhenLate
  VerifiedInState
  PassMeansVerified
  OnlyThisAttempt
PROPERTY AttemptEnds
\* The last attempt ends.
CHECK_DEADLOCK FALSE
