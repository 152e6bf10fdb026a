\* One finger anywhere, with all of the interface.
SPECIFICATION Spec
CONSTANTS
  f1 = f1
  f2 = f2
  w1 = w1
  w2 = w2
  None = None
  Fingers <- OneFinger
  Windows <- OneWindow
  AutoShow <- OneWindow
  Zones <- AllZones
  Flags <- UiFlags
  Depth = 2
INVARIANTS WaitingHasTimer
PROPERTIES HeldTouchIsReplayed HiddenKeyboardHearsNothing
CHECK_DEADLOCK FALSE
