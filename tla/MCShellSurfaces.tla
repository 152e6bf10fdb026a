-------------------------- MODULE MCShellSurfaces --------------------------
(* The drawer's surface, which has the same layout on every output, the    *)
(* keyboard's, whose layout depends on it, and one that is never hidden.   *)
EXTENDS ShellSurfaces

DrawerAndKeys == {"launcher", "osk", "gesture"}

Home == Nothing("wide")

\* Drawer, panel and keyboard in the states the compositor can be in, the
\* keyboard also on a turned output.
FewViews ==
  {Home, [Home EXCEPT !.launcher = TRUE], [Home EXCEPT !.keyboard = TRUE],
   [Home EXCEPT !.panel = "quick"], [Home EXCEPT !.launcher = TRUE, !.panel = "quick"],
   [Nothing("tall") EXCEPT !.keyboard = TRUE]}
=============================================================================
