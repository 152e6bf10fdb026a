\* Two windows, their text inputs, OSK keys, the drawer and its query.
SPECIFICATION Spec
CONSTANTS
  w1 = w1
  w2 = w2
  Shell = Shell
  NoFocus = NoFocus
  SerialMod = 1
  Windows <- TwoWindows
  AutoShow <- OtherWindow
  Multi <- OneWindow
  TextClients <- OneWindow
  Zones = {}
  Keys = {"letter", "shift", "page", "esc"}
CONSTRAINT WindowsOnly
INVARIANTS TypeOK AutoShownIsVisible SearchEndsWithDrawer
PROPERTIES ChangesAreAnnounced
CHECK_DEADLOCK FALSE
