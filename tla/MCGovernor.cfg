SPECIFICATION LiveSpec
CONSTANTS
  r1 = r1
  r2 = r2
  r3 = r3
  r4 = r4
  ann = ann
  bob = bob
  cy = cy
  warehouse = warehouse
  Requests <- MCRequests
  Users <- MCUsers
  Connections <- MCConnections
  UserOf <- MCUserOf
  ConnOf <- MCConnOf
  MaxPerUser = 1
  MaxPerConnection = 2
  Wait = 1
INVARIANTS
  SlotAccounting
  WorkConserving
  NobodyTakesAConnectionAlone
PROPERTIES
  Refinement
  CallsAreServed
