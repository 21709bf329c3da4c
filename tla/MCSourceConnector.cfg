SPECIFICATION LiveSpec
CONSTANTS
  c1 = c1
  c2 = c2
  s1 = s1
  s2 = s2
  Nobody = Nobody
  NoSession = NoSession
  Calls <- MCCalls
  Sessions <- MCSessions
  MaxOpenConns = 2
INVARIANTS
  KillsHitTheirOwn
  NoConnectionLeaks
  
PROPERTIES
  EveryCallReturns
  KillsGoThrough
