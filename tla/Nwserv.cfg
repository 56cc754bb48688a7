SPECIFICATION NwservSpec
CONSTANTS
  Signals = {"hup", "usr1", "usr2", "term"}
  ChildSigs = {"hup", "usr2"}
  Deaths = 2
INVARIANTS
  WaitNeverBlocks
  NoChildLeft
PROPERTIES
  ChildLossNoticed
  StopEnds
CHECK_DEADLOCK FALSE
