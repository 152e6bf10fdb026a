\* The OSK surface from its creation to its first buffer.
SPECIFICATION Spec
CONSTANTS
  w1 = w1
  w2 = w2
  Shell = Shell
  NoFocus = NoFocus
  SerialMod = 1
  Windows <- NoWindows
  AutoShow <- NoWindows
  Multi <- NoWindows
  TextClients <- NoWindows
  Zones = {}
  Keys = {}
INVARIANTS HiddenOskTakesNoTouch
CHECK_DEADLOCK FALSE
