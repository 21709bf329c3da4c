SPECIFICATION Spec
CONSTANTS
  c1 = c1
  c2 = c2
  s1 = s1
  s2 = s2
  NoSession = NoSession
  Calls <- MCCalls
  SessionIds <- MCSessionIds
  IdleTimeout = 4
  AbsoluteTimeout = 4
  TouchInterval = 1
  Slowest = 1
  MaxNow = 5
  MaxPasswords = 2
SYMMETRY Symmetry
INVARIANTS
  OnlyStraddlersSurvive
  WindowFollowsUse
