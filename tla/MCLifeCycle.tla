----------------------------- MODULE MCLifeCycle -----------------------------
(* Three process ids, an output and a device.                              *)
EXTENDS LifeCycle

CONSTANTS p1, p2, p3, o1, d1

ThreePids == {p1, p2, p3}
OneOutput == {o1}
OneDevice == {d1}
=============================================================================
