SPECIFICATION Spec
CONSTANTS
  x1 = x1
  x2 = x2
  c1 = c1
  p1 = p1
  p2 = p2
  q1 = q1
  Conns <- MCConn
  Prints <- MCPrints
  Questions <- MCQuestion
  Executions <- MCTwo
  Sizes = {1, 2, 3}
  MaxBytes = 2
  MaxEntryBytes = 2
  TTL = 1
  MaxNow = 2
  MaxVersion = 2
SYMMETRY Symmetry
INVARIANTS
  BookkeepingAgrees
  
  AnnouncedEditsHide
  
