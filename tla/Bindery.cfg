SPECIFICATION Spec
CONSTANTS
  Conn = {c1}
  Name = {sup, ev, a}
  Supervisor = sup
  Everyone = ev
  Server = {a}
  NetAddress = net
  PropName = {gm, gi, se, net}
  ClientProp = {se, net}
  GroupMembers = gm
  GroupsImIn = gi
  SecurityEquals = se
  ObjSecurity <- MCObjSecurity
  PropSecurity <- MCPropSecurity
  Dynamic = {TRUE}
  Written <- MCWritten
  MaxId = 3
  MaxWrites = 4
  KillCost = 2
  LoginName = {sup}
  MaxPropId = 2
  SegSize = 2
  MaxSeg = 2
INVARIANTS
  NoOrphans
  ObjectFound
PROPERTY
  MembersKept
CHECK_DEADLOCK FALSE
