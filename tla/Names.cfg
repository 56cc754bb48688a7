SPECIFICATION NamesSpec
CONSTANTS
  Proc = {p1, p2}
  BaseUsers = {p1}
  DirUsers = {p1}
  Dir = {a, b}
  Kid = {x}
  Ino = {i1, i2, i3}
  Root = Root
  NoIno = NoIno
  MaxBase = 3
  TouchFrom = 0
  FileFrom = 1
  MaxDirs = 2
  MaxChanges = 2
INVARIANTS
  BaseHandleTrue
  ShortHandleTrue
  SourceAlive
CHECK_DEADLOCK FALSE
SYMMETRY Symmetric
