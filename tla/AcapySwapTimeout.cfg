SPECIFICATION Spec
CONSTANTS
  x1 = x1
  x2 = x2
  Exchanges = {x1}
  Protocol <- OneCredential
  Revocable = {}
  V2 = {}
  Anoncreds = {}
  AutoRespond = {}
  Polls = {}
  Implicit = FALSE
  MaxTimeout = 2
  WaitTime = 2
  StatePolls = 2
  MaxRequests = 2
  NoThread = NoThread
  Nothing = Nothing
PROPERTIES
  TimeoutMeansNoWebhook
\* The harness stops after MaxRequests requests and the agent after its last move.
CHECK_DEADLOCK FALSE
