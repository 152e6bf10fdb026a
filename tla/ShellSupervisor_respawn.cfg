\* README.md:103-105 against an uncounted shell.
SPECIFICATION Spec
CONSTANTS
  p1 = p1
  p2 = p2
  p3 = p3
  NoPid = NoPid
  Pids <- ThreePids
  SlotCount = 6
PROPERTIES ReapedShellIsRespawned
CHECK_DEADLOCK FALSE
