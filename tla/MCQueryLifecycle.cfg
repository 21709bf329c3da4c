SPECIFICATION Spec
CONSTANTS
  q1 = q1
  q2 = q2
  p1 = p1
  Queries <- MCQueries
  Owners <- MCOne
  OwnerOf <- MCSameOwner
  StaleAfter = 1
  MaxNow = 2
SYMMETRY Symmetry
INVARIANTS
  EverythingIsAccountedFor
  
PROPERTIES
  LogPromise
CHECK_DEADLOCK FALSE
