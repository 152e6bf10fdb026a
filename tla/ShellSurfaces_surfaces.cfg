\* Drawer, keyboard and handle under every order of frames and answers.
SPECIFICATION Spec
CONSTANTS
  Modes <- DrawerAndKeys
  Announced <- FewViews
  Unknown = "unknown"
  Usable = "usable"
INVARIANTS TargetFollowsState HiddenRests LayoutFollowsOutput RegionFollowsState
PROPERTIES AnimationsEnd
CHECK_DEADLOCK FALSE
