--------------------------- MODULE MCShellInput ---------------------------
(* Two fingers and a pointer over the drawer, the keyboard and the sidebar *)
(* on an output of 1280 by 800.                                            *)
EXTENDS ShellInput, FiniteSets

CONSTANTS f1, f2

TwoFingers == {f1, f2}

Touched == {"launcher", "osk", "sidebar"}

Spot(on, index, col, panel) == [on |-> on, index |-> index, col |-> col, panel |-> panel]

\* Tiles at the left and at the right edge, the left one below the search
\* bar.  The quick settings cover the right half, of a surface as low as the
\* keyboard with the buttons over the fourth row.
FewSpots ==
  [m \in {"launcher", "osk", "sidebar"} |->
     CASE m = "launcher" -> {Spot("tile", 0, 0, "weather"), Spot("search", 0, 0, None),
                             Spot("tile", 0, 2, "set_volume")}
       [] m = "osk"      -> {Spot("key", 0, 2, "reload_session")}
       [] m = "sidebar"  -> {Spot("app", 0, 0, None), Spot("drawer", 0, 0, None)}]

Desktop == Nothing("output")

\* The states the compositor can be in, as far as touches tell them apart;
\* the drawer opens under a panel that is shown.
FewViews ==
  {Desktop, [Desktop EXCEPT !.launcher = TRUE],
   [Desktop EXCEPT !.launcher = TRUE, !.panel = "quick"],
   [Desktop EXCEPT !.panel = "quick", !.keyboard = TRUE]}

\* A second finger, or a pointer.
OneHand == pointer.valid => Cardinality(down) <= 1
=============================================================================
