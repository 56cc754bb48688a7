SPECIFICATION SearchesSpec
CONSTANTS
  s1 = s1
  s2 = s2
  a = a
  b = b
  Search = {s1, s2}
  Match <- MCMatch
  Dir = {a, b}
  Files <- MCFiles
  Spare = {5}
  MaxSearchH = 2
  MaxDirH = 1
  MaxIdle = 5
  MaxChanges = 2
INVARIANTS
  NothingSkipped
  NothingTwice
CHECK_DEADLOCK FALSE
CONSTRAINT OneKind
