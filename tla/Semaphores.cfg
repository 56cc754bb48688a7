SPECIFICATION Spec
CONSTANTS
  Conn = {c1, c2}
  Name = {n1, n2, n3, n4}
  NoName = NoName
  InitValues = {1}
  MaxSemas = 3
  MaxSemaConn = 2
  MaxOpen = 2
  MaxValue = 1
INVARIANTS
  NamesUnique
  OpencountCovers
PROPERTY
  HandleStable
