\* Touches and a pointer on three surfaces.
SPECIFICATION Spec
CONSTANTS
  f1 = f1
  f2 = f2
  NoFinger = NoFinger
  Fingers <- TwoFingers
  Modes <- Touched
  Spots <- FewSpots
  LastPage = 1
  MaxApps = 1
  Announced <- FewViews
CONSTRAINT OneHand
PROPERTIES RequestsEndAPress DragsLaunchNothing KeysAreTyped
CHECK_DEADLOCK FALSE
