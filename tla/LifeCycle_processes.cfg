\* The compositor and its children from start to end.
SPECIFICATION LifeSpec
CONSTANTS
  p1 = p1
  p2 = p2
  p3 = p3
  o1 = o1
  d1 = d1
  NoPid = NoPid
  Pids <- ThreePids
  SlotCount = 6
  Outputs <- OneOutput
  Devices <- OneDevice
INVARIANTS NoMissedExit NothingDangles StopLeavesOnlyChildren
PROPERTIES StopSparesOthers ExitedAreReaped
CHECK_DEADLOCK FALSE
