SPECIFICATION Spec
CONSTANTS
  x1 = x1
  x2 = x2
  Exchanges = {x1, x2}
  Protocol <- ConnectionAndNotification
  Revocable = {}
  V2 = {}
  Anoncreds = {}
  AutoRespond = {"connection"}
  Polls <- ConnectionPolls
  Implicit = TRUE
  MaxTimeout = 2
  WaitTime = 2
  StatePolls = 2
  MaxRequests = 2
  NoThread = NoThread
  Nothing = Nothing
PROPERTY MailboxSpec
INVARIANTS
  HandedOnce
\* The harness stops after MaxRequests requests and the agent after its last move.
CHECK_DEADLOCK FALSE
