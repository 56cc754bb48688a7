SPECIFICATION Spec
CONSTANTS
  sup = sup
  usr = usr
  user = user
  Proc = {sup, usr}
  Supervisor = {sup}
  Asking = {usr}
  Id = {user}
  IdsOf <- MCIdsOf
  Depth = 2
  Grant <- MCGrant
  Mask <- MCMask
  MaxCache = 3
  MaxWrites = 2
INVARIANTS
  CacheCurrent
CHECK_DEADLOCK FALSE
CONSTRAINT Announced
