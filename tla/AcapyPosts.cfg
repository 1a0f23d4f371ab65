SPECIFICATION Spec
CONSTANTS
  x1 = x1
  x2 = x2
  Exchanges = {x1}
  Protocol <- OneCredential
  Revocable = {x1}
  V2 = {}
  Anoncreds = {}
  AutoRespond = {}
  Polls <- RevocationPolls
  Implicit = FALSE
  MaxTimeout = 2
  WaitTime = 2
  StatePolls = 2
  MaxRequests = 4
  NoThread = NoThread
  Nothing = Nothing
INVARIANTS
  TypeOK
  NotBeforeItsMessage
  NoIndexError
PROPERTIES
  PostsLeaveWebhooks
  EveryRequestAnswered
\* The harness stops after MaxRequests requests and the agent after its last move.
CHECK_DEADLOCK FALSE
