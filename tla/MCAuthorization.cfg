SPECIFICATION Spec
CONSTANTS
  ann = ann
  team = team
  staff = staff
  c1 = c1
  h1 = h1
  h2 = h2
  NoGroup = NoGroup
  Users <- MCUsers
  Groups <- MCGroups
  Parent <- MCParent
  MaxDepth = 2
  Founder = ann
  Checks <- MCChecks
  Handlers <- MCHandlers
  TTL = 1
  Slowest = 1
  MaxNow = 2
  MaxWrites = 2
SYMMETRY Symmetry
INVARIANTS
  CachedIsTrue
  AnsweredChangesAreSeen
  ChangesTakeEffect
PROPERTIES
  TheLastNeedsARace
