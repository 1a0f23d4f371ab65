SPECIFICATION Spec
CONSTANTS
  i1 = i1
  i2 = i2
  p1 = p1
  Invitations = {i1}
  Proofs = {}
  NoId = NoId
  NoBox = NoBox
  Nothing = Nothing
  PerExchange = 2
  MaxPolls = 3
INVARIANT LaterPollFindsIt
CHECK_DEADLOCK FALSE
