\* The shell's own interface: every panel, gesture and request, no window.
SPECIFICATION Spec
CONSTANTS
  w1 = w1
  w2 = w2
  Shell = Shell
  NoFocus = NoFocus
  SerialMod = 2
  Windows <- NoWindows
  AutoShow <- NoWindows
  Multi <- NoWindows
  TextClients <- NoWindows
  Zones = {"notification", "time", "quick"}
  Keys = {}
INVARIANTS HitboxesFresh NoGhostHitbox ResizeHandshake OnePanelAtMost
PROPERTIES ChangesAreAnnounced SidebarAutoHides LayersSettle
CHECK_DEADLOCK FALSE
