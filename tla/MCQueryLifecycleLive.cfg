SPECIFICATION LiveSpec
CONSTANTS
  q1 = q1
  q2 = q2
  p1 = p1
  Queries <- MCQueries
  Owners <- MCOne
  OwnerOf <- MCSameOwner
  StaleAfter = 1
  MaxNow = 0
PROPERTIES
  KillsArrive
  EveryExecutionEnds
CHECK_DEADLOCK FALSE
