SPECIFICATION Spec
CONSTANTS
  x1 = x1
  x2 = x2
  Exchanges = {x1, x2}
  Protocol <- DidExchangeAndInvitation
  Revocable = {}
  V2 = {}
  Anoncreds = {}
  AutoRespond = {}
  Polls = {}
  Implicit = TRUE
  MaxTimeout = 2
  WaitTime = 2
  StatePolls = 2
  MaxRequests = 2
  NoThread = NoThread
  Nothing = Nothing
PROPERTIES
  ImplicitFindsWaiting
\* The harness stops after MaxRequests requests and the agent after its last move.
CHECK_DEADLOCK FALSE
