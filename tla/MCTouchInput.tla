---------------------------- MODULE MCTouchInput ----------------------------
EXTENDS TouchInput, TLC
CONSTANTS f1, f2, w1, w2

OneFinger == {f1}
TwoFingers == {f1, f2}
OneWindow == {w1}
TwoWindows == {w1, w2}
AllZones == {"top", "left", "right", "bottom"}
BottomZone == {"bottom"}
DrawerAndKeyboard == {"launcher", "keyboard"}

\* Fingers are told apart by nothing but their state.
Symmetry == Permutations(Fingers)
=============================================================================
