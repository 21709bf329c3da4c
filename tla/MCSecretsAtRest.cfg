SPECIFICATION Spec
CONSTANTS
  p1 = p1
  p2 = p2
  k1 = k1
  k2 = k2
  k3 = k3
  idp1 = idp1
  idp2 = idp2
  warehouse = warehouse
  NoKey = NoKey
  Blank = Blank
  Plain = Plain
  Processes <- MCProcesses
  Keys <- MCKeys
  Providers <- MCProviders
  Connections <- MCConnections
  MaxWrites = 1
  MaxVersion = 3
SYMMETRY Symmetry
INVARIANTS
  
  NoSecretIsTurnedBack
