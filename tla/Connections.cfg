SPECIFICATION Spec
CONSTANTS
  Acme = Acme
  Bob = Bob
  Mallory = Mallory
  x1 = x1
  x2 = x2
  None = None
  Agents <- MCAgents
  Exchanges <- MCExchanges
  Scenarios <- MCScenarios
  MaxRuns = 2
INVARIANTS
  TypeOK
  PassMeansConnected
  OnlyThisScenario
  FailureHasCause
PROPERTY ScenarioEnds
\* The last scenario ends.
CHECK_DEADLOCK FALSE
