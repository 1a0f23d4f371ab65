SPECIFICATION Spec
CONSTANTS
  i1 = i1
  i2 = i2
  p1 = p1
  Invitations = {i1}
  Proofs = {p1}
  NoId = NoId
  NoBox = NoBox
  Nothing = Nothing
  PerExchange = 2
  MaxPolls = 3
INVARIANTS
  TypeOK
  OneTaker
PROPERTIES
  LossyMailboxSpec
\* The agent sends its last webhook and the harness stops polling.
CHECK_DEADLOCK FALSE
