\* Two fingers over a window, with the drawer and the keyboard.
SPECIFICATION Spec
CONSTANTS
  f1 = f1
  f2 = f2
  w1 = w1
  w2 = w2
  None = None
  Fingers <- TwoFingers
  Windows <- OneWindow
  AutoShow <- OneWindow
  Zones <- BottomZone
  Flags <- DrawerAndKeyboard
  Depth = 1
SYMMETRY Symmetry
PROPERTIES FingersAreRouted LeavingIsTold
CHECK_DEADLOCK FALSE
