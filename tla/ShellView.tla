----------------------------- MODULE ShellView -----------------------------
(***************************************************************************)
(* What the shell process has read of the compositor's state, and what it  *)
(* derives from it for each of its surfaces                                *)
(* (src/compositor/src/shell/shell_client_internal.h, shell_client.c).     *)
(***************************************************************************)
EXTENDS Naturals

\* Surfaces that are never hidden.
Static == {"gesture", "status", "background"}

AllModes == Static \cup {"launcher", "osk", "sidebar"}

\* The compositor_* fields, as far as surfaces and touches depend on them.
Views(outputs) ==
  [launcher : BOOLEAN, keyboard : BOOLEAN, sidebar : BOOLEAN, audit : BOOLEAN,
   panel : {"none", "quick", "time", "notification"}, output : outputs]

Nothing(output) ==
  [launcher |-> FALSE, keyboard |-> FALSE, sidebar |-> FALSE, audit |-> FALSE,
   panel |-> "none", output |-> output]

\* The launcher's surface also carries the panels and the touch audit.
ShouldBeVisible(m, v) ==
  CASE m = "launcher" -> v.launcher \/ v.audit \/ v.panel # "none"
    [] m = "osk"      -> v.keyboard
    [] m = "sidebar"  -> v.sidebar
    [] m \in Static   -> TRUE

\* Where the surface takes touches; elsewhere they go to what is below it.
InputRegion(m, v) ==
  CASE m = "launcher"   -> IF v.launcher THEN IF v.audit THEN {} ELSE {"drawer"}
                           ELSE {v.panel} \ {"none"}
    [] m = "osk"        -> {"keys"}
    [] m = "gesture"    -> {"handle"}
    [] m = "status"     -> IF v.panel # "none" THEN {"bar"} ELSE {}
    [] m = "sidebar"    -> {"icons"}
    [] m = "background" -> {}
=============================================================================
