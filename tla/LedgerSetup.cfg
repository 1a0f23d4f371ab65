SPECIFICATION Spec
CONSTANTS
  i1 = i1
  i2 = i2
  n1 = n1
  n2 = n2
  d1 = d1
  d2 = d2
  d3 = d3
  d4 = d4
  tag1 = tag1
  tag2 = tag2
  None = None
  Issuers = {i1, i2}
  Names = {n1, n2}
  Dids = {d1, d2, d3, d4}
  Tags = {tag1, tag2}
  Scenarios <- MCScenarios
  MaxScenarios = 3
  MaxFaults = 2
INVARIANTS
  TypeOK
  PassMeansReady
  CleanRetry
  OneSchema
\* The last scenario ends.
CHECK_DEADLOCK FALSE
