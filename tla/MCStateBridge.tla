---------------------------- MODULE MCStateBridge ----------------------------
(* One or two windows and one or two shells.                               *)
EXTENDS StateBridge

CONSTANTS w1, w2, c1, c2

OneWindow == {w1}
TwoWindows == {w1, w2}
OneClient == {c1}
TwoClients == {c1, c2}
=============================================================================
