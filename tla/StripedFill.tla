---------------------------- MODULE StripedFill ----------------------------
(***************************************************************************)
(* What drawing the animated background promises: each pass is drawn       *)
(* stripe by stripe in any order, every stripe once, and the second pass   *)
(* begins when the first is complete.                                      *)
(***************************************************************************)
CONSTANT Workers

VARIABLES phase, done

Init == phase = "idle" /\ done = Workers

\* The waves, and then the gradient with the waves on it.
Begin ==
  \/ phase = "idle" /\ phase' = "glow" /\ done' = {}
  \/ phase = "between" /\ phase' = "blend" /\ done' = {}

Stripe(w) ==
  /\ phase \in {"glow", "blend"} /\ w \notin done
  /\ done' = done \cup {w} /\ UNCHANGED phase

End ==
  /\ done = Workers /\ UNCHANGED done
  /\ \/ phase = "glow" /\ phase' = "between"
     \/ phase = "blend" /\ phase' = "idle"

\* The last stripe may end the pass.
LastStripe(w) ==
  /\ phase \in {"glow", "blend"} /\ w \notin done
  /\ done \cup {w} = Workers /\ done' = Workers
  /\ phase' = IF phase = "glow" THEN "between" ELSE "idle"

Next == Begin \/ End \/ \E w \in Workers : Stripe(w) \/ LastStripe(w)

Spec == Init /\ [][Next]_<<phase, done>>
=============================================================================
