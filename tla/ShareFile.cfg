SPECIFICATION FairSpec
CONSTANTS
  Proc = {p1, p2}
  NoProc = NoProc
  Inode = {i1}
  Handle = {h1,h2}
  OpenModes <- MCModes
  MaxFileLock = 1
INVARIANTS
  TypeOK
  DenyModesHold
  LocksMirrorHandles
PROPERTIES
  ImplementsService
  SemaphorFreed
