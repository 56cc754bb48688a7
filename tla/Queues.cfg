SPECIFICATION Spec
CONSTANTS
  c1 = c1
  c2 = c2
  sup = sup
  usr = usr
  Conn = {c1, c2}
  LoginAs <- MCLoginAs
  Restarts = {TRUE}
  Creators = {c1}
  Queue = {q1}
  User = {sup, usr}
  Sup = sup
  Servers = {sup}
  NoUser = NoUser
  NoConn = NoConn
  Task = {t1}
  MaxJobId = 2
  MaxPage = 1
  MaxClock = 3
INVARIANTS
  JobIdsUnique
  ServedNotWritten
  OneReader
PROPERTY
  DataKept
CHECK_DEADLOCK FALSE
