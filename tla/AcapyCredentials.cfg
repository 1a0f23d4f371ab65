SPECIFICATION Spec
CONSTANTS
  x1 = x1
  x2 = x2
  Exchanges = {x1, x2}
  Protocol <- TwoCredentials
  Revocable = {x1}
  V2 = {x1, x2}
  Anoncreds = {x1}
  AutoRespond = {}
  Polls <- RevocationPolls
  Implicit = FALSE
  MaxTimeout = 2
  WaitTime = 2
  StatePolls = 2
  MaxRequests = 1
  NoThread = NoThread
  Nothing = Nothing
INVARIANTS
  PostsToItsOwnRecord
  HandedOnce
\* The harness stops after MaxRequests requests and the agent after its last move.
CHECK_DEADLOCK FALSE
