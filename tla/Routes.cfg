SPECIFICATION Spec
CONSTANTS
  r1 = r1
  r2 = r2
  r3 = r3
  i1 = i1
  i2 = i2
  i3 = i3
  n12 = n12
  na = na
  nb = nb
  v1 = v1
  v2 = v2
  Node = {v1, v2}
  MaxCopies = 2
  MaxQueue = 2
  Router = {r1, r2, r3}
  Net = {i1, i2, i3, n12, na, nb}
  NoNet = NoNet
  Young = {r3}
  Serves = {r1, r2}
  Internal <- MCInternal
  Configured <- MCConfigured
  AutoNets <- MCAuto
  Ticks <- MCTicks
  SlowTicks = 7
  MaxRip = 100
  Budgets <- MCBudgets
SYMMETRY Symmetric
INVARIANTS
  BindKnowsServers
  RouteOverDevice
  LoopFree
CHECK_DEADLOCK FALSE
