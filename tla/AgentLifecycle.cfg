SPECIFICATION Spec
CONSTANTS
  MaxStarts = 3
  MaxLooks = 2
INVARIANTS
  TypeOK
  OneAgent
  AnsweredForItsOwn
  NoneOutOfReach
  ExitStopsAgent
PROPERTY EveryStartEnds
CHECK_DEADLOCK FALSE
