----------------------------- MODULE MCShellUi -----------------------------
(* Constants and state constraints of the runs of ShellUi.                 *)
EXTENDS ShellUi

CONSTANTS w1, w2   \* two windows

NoWindows == {}
OneWindow == {w1}
OtherWindow == {w2}
TwoWindows == {w1, w2}

(***************************************************************************)
(* Each run explores one side of the state and keeps the others at rest.   *)
(* What a constraint cuts off is explored by another run.                  *)
(***************************************************************************)
PanelsAtRest == ui.panels = {} /\ ~ui.sidebar /\ ~ui.audit

OutputAtRest == ~ui.output /\ ui.oskSurface = "none"

\* Windows, focus, text inputs, keys, the drawer and its query.
WindowsOnly ==
  PanelsAtRest /\ OutputAtRest /\ closing = {} /\ ui.message # "toast"
  /\ (ui.scrim = "modal" => ui.launcher)
=============================================================================
