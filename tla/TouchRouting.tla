---------------------------- MODULE TouchRouting ----------------------------
(***************************************************************************)
(* What touch input promises about every finger, whatever surfaces,        *)
(* gestures, timers and other fingers do meanwhile: from the moment it     *)
(* comes down it either waits, or is kept by the compositor, or belongs to *)
(* one surface.  Only a finger that waits is given to a surface later, and *)
(* only to one that exists; what the compositor has taken stays taken      *)
(* until the finger is lifted.  TouchInput implements this.                *)
(***************************************************************************)
CONSTANTS Fingers, Surfaces

VARIABLES
  owner,  \* of each finger: "off", "waiting", "kept" or a surface
  alive   \* the surfaces there are

vars == <<owner, alive>>

\* What may become of a finger in one step, A being the surfaces after it.
Successors(o, A) ==
  CASE o = "off"     -> {"off", "waiting", "kept"} \cup A
    [] o = "waiting" -> {"waiting", "kept", "off"} \cup A
    [] o = "kept"    -> {"kept", "off"}
    [] OTHER         -> ({o} \cap A) \cup {"kept", "off"}

Init == owner = [i \in Fingers |-> "off"] /\ alive \subseteq Surfaces

\* A step may move several fingers: a pinch, a timeout, a surface that goes.
Next ==
  /\ alive' \subseteq Surfaces
  /\ owner' \in [Fingers -> {"off", "waiting", "kept"} \cup Surfaces]
  /\ \A i \in Fingers : owner'[i] \in Successors(owner[i], alive')

Spec == Init /\ [][Next]_vars
=============================================================================
