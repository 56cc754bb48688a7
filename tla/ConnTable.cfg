SPECIFICATION FairSpec
CONSTANTS
  Client = {a, b}
  Leaver = {a}
  NoClient = NoClient
  MaxConn = 2
  MaxTries = 1
  MaxPid = 2
  MaxSends = 2
  Lossy = {1}
  Cap = 1
INVARIANTS
  OneSlotPerClient
  NoStrayProcess
  BindFollows
  NoInheritedLogin
PROPERTY
  VanishedCleared
