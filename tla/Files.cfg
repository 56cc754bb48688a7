SPECIFICATION Spec
CONSTANTS
  Proc = {p1, p2}
  File = {f1}
  Task = {1}
  Opens <- MCOpens
  MaxFileHandles = 2
  Top = 2
  Starts = {0, 1}
  Lens = {0, 1}
  MaxLocks <- MCMaxLocks
  MaxCount = 2
  r1 = r1
  r2 = r2
  r3 = r3
  Rec = {r1, r2, r3}
  LockFile <- MCLockFile
  NoFile = NoFile
SYMMETRY MCSymmetry
INVARIANTS
  RecordExclusive
  EntriesLive
  RefusedOpenHarmless
  LogicalExclusive
CHECK_DEADLOCK FALSE
