------------------------- MODULE MCShellSupervisor -------------------------
(* Three process ids: the shell and two others, or a reuse of its id.      *)
EXTENDS ShellSupervisor

CONSTANTS p1, p2, p3

ThreePids == {p1, p2, p3}
=============================================================================
