-------------------------- MODULE TouchInputProofs --------------------------
(***************************************************************************)
(* TouchInput implements TouchRouting, for any number of fingers and       *)
(* windows.  Every handler moves some points and may leave the hitboxes of *)
(* the others stale; what a finger's owner is depends on neither.  So each *)
(* step is examined finger by finger, on the points before the hitboxes    *)
(* are refreshed (Refreshed), and a step is good when every finger's point *)
(* stays well formed and its owner goes where TouchRouting lets it go.     *)
(***************************************************************************)
EXTENDS TouchInput, WellFoundedInduction, TLAPS

\* What is always true of one point: on, pinched and A say whether its finger
\* is down, is of the pinch, and which surfaces there are.
PointOK(p, on, pinched, A) ==
  /\ p \in Point
  /\ ~on => p.phase = "off"
  /\ p.phase = "off" => p.surface = None /\ p.listens = None
  /\ p.surface \in A \cup {None}
  /\ p.listens \in A \cup {None}
  /\ p.surface = p.listens \/ {p.surface, p.listens} \subseteq Shell
  /\ p.phase = "delivered" => p.surface # None
  /\ pinched => p.phase \in {"off", "plain"} \/ p.triggered

OwnerOf(p, on) ==
  IF ~on THEN "off"
  ELSE IF p.phase \in {"off", "plain"} \/ p.triggered THEN "kept"
  ELSE IF p.phase = "captured" THEN "waiting"
  ELSE p.surface

\* The inductive invariant.
IInv ==
  /\ TypeOK
  /\ \A j \in Fingers : PointOK(points[j], j \in fingers, j \in pinch, Alive)

\* What a step has to do for one finger.
Good(j) ==
  /\ PointOK(points'[j], j \in fingers', j \in pinch', Alive')
  /\ OwnerOf(points'[j], j \in fingers') \in
       Routing!Successors(OwnerOf(points[j], j \in fingers), Alive')

USE TouchAssumption

\* A surface that is there is a surface, and only the shell's are strings.
LEMMA AliveFacts ==
  ASSUME TypeOK
  PROVE  /\ Alive \subseteq Surfaces /\ None \notin Alive
         /\ Alive \cap {"off", "waiting", "kept"} = {}
         /\ "osk" \in Alive => Shell \subseteq Alive
         /\ shell # "up" => Alive \cap Shell = {}
BY DEF TypeOK, Alive, Surfaces, Shell

\* Two points that differ in what they read only.
Alike(p, q) ==
  /\ p.phase = q.phase /\ p.surface = q.surface
  /\ p.listens = q.listens /\ p.triggered = q.triggered

\* Refreshing the hitboxes changes what a point reads, and nothing else.
LEMMA Refreshed ==
  ASSUME NEW P \in [Fingers -> Point], NEW v
  PROVE  /\ With(P, v) \in [Fingers -> Point]
         /\ \A j \in Fingers : Alike(With(P, v)[j], P[j])
<1>1. Staled(P) \in [Fingers -> Point]
  BY DEF Staled, Point, Hitboxes
<1>2. \A j \in Fingers : Alike(Staled(P)[j], P[j])
  BY DEF Staled, Point, Alike
<1>3. With(P, v) \in {Staled(P), P}
  BY DEF With
<1>4. \A j \in Fingers : Alike(P[j], P[j])
  BY DEF Alike
<1> QED BY <1>1, <1>2, <1>3, <1>4

\* As Good, for the points P before the hitboxes are refreshed.
GoodAs(P, j) ==
  /\ PointOK(P[j], j \in fingers', j \in pinch', Alive')
  /\ OwnerOf(P[j], j \in fingers') \in
       Routing!Successors(OwnerOf(points[j], j \in fingers), Alive')

LEMMA GoodWith ==
  ASSUME NEW P \in [Fingers -> Point], NEW v, points' = With(P, v),
         \A j \in Fingers : GoodAs(P, j)
  PROVE  points' \in [Fingers -> Point] /\ \A j \in Fingers : Good(j)
<1>1. points' \in [Fingers -> Point]
  BY Refreshed
<1>2. ASSUME NEW j \in Fingers PROVE Good(j)
  <2>1. GoodAs(P, j)
    OBVIOUS
  <2>2. Alike(points'[j], P[j]) /\ points'[j] \in Point
    BY Refreshed
  <2>3. PointOK(points'[j], j \in fingers', j \in pinch', Alive')
    BY <2>1, <2>2 DEF GoodAs, PointOK, Alike
  <2>4. OwnerOf(points'[j], j \in fingers') = OwnerOf(P[j], j \in fingers')
    BY <2>2 DEF OwnerOf, Alike
  <2> QED BY <2>1, <2>3, <2>4 DEF Good, GoodAs
<1> QED BY <1>1, <1>2

\* The point and the finger stay as they are, and so do its surfaces.
LEMMA Stays ==
  ASSUME IInv, NEW P, NEW j \in Fingers, P[j] = points[j],
         (j \in fingers') = (j \in fingers), j \in pinch' => j \in pinch,
         P[j].surface \in Alive' \cup {None}, P[j].listens \in Alive' \cup {None},
         Alive' \cap {"off", "waiting", "kept"} = {}
  PROVE  GoodAs(P, j)
<1>1. PointOK(points[j], j \in fingers, j \in pinch, Alive)
  BY DEF IInv
<1>2. PointOK(P[j], j \in fingers', j \in pinch', Alive')
  BY <1>1 DEF PointOK
<1>3. OwnerOf(points[j], j \in fingers) \in {"off", "waiting", "kept"} \cup Alive'
  BY <1>1 DEF PointOK, OwnerOf, Point
<1> QED BY <1>2, <1>3 DEF GoodAs, Routing!Successors, OwnerOf

\* The same, while no surface comes or goes.
LEMMA StaysHere ==
  ASSUME IInv, NEW P, NEW j \in Fingers, P[j] = points[j], UNCHANGED world,
         (j \in fingers') = (j \in fingers), j \in pinch' => j \in pinch
  PROVE  GoodAs(P, j)
<1>1. Alive' = Alive
  BY DEF world, Alive
<1>2. PointOK(points[j], j \in fingers, j \in pinch, Alive)
  BY DEF IInv
<1> QED BY <1>1, <1>2, Stays, AliveFacts DEF IInv, PointOK

\* The point is not tracked afterwards, whether or not its finger is lifted.
LEMMA Leaves ==
  ASSUME NEW P, NEW j \in Fingers, P[j] \in Point, P[j].phase = "off",
         P[j].surface = None, P[j].listens = None
  PROVE  GoodAs(P, j)
<1>1. PointOK(P[j], j \in fingers', j \in pinch', Alive')
  BY DEF PointOK
<1>2. OwnerOf(P[j], j \in fingers') \in {"off", "kept"}
  BY DEF OwnerOf
<1> QED BY <1>1, <1>2 DEF GoodAs, Routing!Successors

LEMMA OffFacts ==
  /\ Off \in Point /\ Off.phase = "off" /\ Off.surface = None /\ Off.listens = None
  /\ Plain \in Point /\ Plain.phase = "plain"
  /\ Plain.surface = None /\ Plain.listens = None
BY DEF Off, Plain, Point, Hitboxes, LiveHitboxes, Edges

LEMMA TriggeredFacts ==
  ASSUME NEW p \in Point
  PROVE  /\ Triggered(p) \in Point /\ Triggered(p).phase = p.phase
         /\ Triggered(p).triggered = TRUE
         /\ Triggered(p).surface = p.surface /\ Triggered(p).listens = p.listens
<1>1. "none" \in Hitboxes /\ "none" \in Edges
  BY DEF Hitboxes, LiveHitboxes, Edges
<1> QED BY <1>1 DEF Triggered, Point

LEMMA LateFacts ==
  ASSUME NEW p \in Point
  PROVE  [p EXCEPT !.late = TRUE] \in Point /\ Alike([p EXCEPT !.late = TRUE], p)
<1>1. [p EXCEPT !.late = TRUE] \in Point
  BY DEF Point
<1> QED BY <1>1 DEF Point, Alike

\* The finger is not waiting any more: its gesture is triggered, or the finger
\* is the second one of a pinch.
LEMMA Triggers ==
  ASSUME IInv, NEW P, NEW j \in Fingers, P[j] = Triggered(points[j]),
         j \in fingers, j \in fingers', Alive' = Alive
  PROVE  GoodAs(P, j)
<1>1. PointOK(points[j], j \in fingers, j \in pinch, Alive)
  BY DEF IInv
<1>2. points[j] \in Point /\ Triggered(points[j]) \in Point
  BY <1>1, TriggeredFacts DEF PointOK
<1>3. /\ P[j].phase = points[j].phase /\ P[j].surface = points[j].surface
      /\ P[j].listens = points[j].listens /\ P[j].triggered = TRUE
  BY <1>2, TriggeredFacts
<1>4. PointOK(P[j], j \in fingers', j \in pinch', Alive')
  BY <1>1, <1>2, <1>3 DEF PointOK
<1>5. OwnerOf(P[j], j \in fingers') = "kept"
  BY <1>3 DEF OwnerOf
<1> QED BY <1>4, <1>5 DEF GoodAs, Routing!Successors
-----------------------------------------------------------------------------
(* The interface keeps its type.                                           *)

LEMMA FocusTypes ==
  ASSUME NEW u \in Ui, NEW s
  PROVE  FocusUi(u, s) \in Ui
BY DEF FocusUi, Ui, UiFlags

LEMMA NamedFlagTypes ==
  ASSUME NEW u \in Ui, NEW b \in BOOLEAN
  PROVE  /\ [u EXCEPT !.launcher = b] \in Ui
         /\ [u EXCEPT !.panel = b] \in Ui
         /\ [u EXCEPT !.sidebar = b] \in Ui
         /\ [u EXCEPT !.audit = b] \in Ui
         /\ [u EXCEPT !.keyboard = b] \in Ui
BY DEF Ui, UiFlags

LEMMA EdgeTypes ==
  ASSUME NEW u \in Ui, NEW e
  PROVE  EdgeUi(u, e) \subseteq Ui
<1>1. CASE e = "top"
  <2>1. ASSUME NEW b \in BOOLEAN
        PROVE  [u EXCEPT !.launcher = FALSE, !.panel = b] \in Ui
    BY DEF Ui, UiFlags
  <2> QED BY <1>1, <2>1 DEF EdgeUi
<1>2. CASE e = "left"
  BY <1>2, NamedFlagTypes DEF EdgeUi
<1>3. CASE e = "right"
  <2> DEFINE v == [u EXCEPT !.panel = FALSE, !.sidebar = FALSE]
  <2>1. v \in Ui
    BY DEF Ui, UiFlags
  <2> HIDE DEF v
  <2>2. /\ [u EXCEPT !.audit = FALSE] \in Ui /\ [v EXCEPT !.keyboard = FALSE] \in Ui
        /\ [v EXCEPT !.launcher = FALSE] \in Ui
    BY <2>1, NamedFlagTypes
  <2> QED BY <1>3, <2>2 DEF EdgeUi, v
<1>4. CASE e = "bottom"
  <2> DEFINE v == [u EXCEPT !.audit = FALSE, !.keyboard = FALSE]
  <2>1. v \in Ui
    BY DEF Ui, UiFlags
  <2> HIDE DEF v
  <2>2. [v EXCEPT !.sidebar = FALSE] \in Ui /\ [v EXCEPT !.launcher = FALSE] \in Ui
    BY <2>1, NamedFlagTypes
  <2> QED BY <1>4, <2>2 DEF EdgeUi, v
<1>5. CASE e \notin {"top", "left", "right", "bottom"}
  BY <1>5 DEF EdgeUi
<1> QED BY <1>1, <1>2, <1>3, <1>4, <1>5

LEMMA FlagTypes ==
  ASSUME NEW u \in Ui, NEW f \in UiFlags
  PROVE  [u EXCEPT ![f] = ~@] \in Ui
BY DEF Ui

LEMMA InitTypes == [f \in UiFlags |-> FALSE] \in Ui
BY DEF Ui
-----------------------------------------------------------------------------
(* The touch handlers.                                                     *)

\* What each handler has to establish.
Kept == TypeOK' /\ \A j \in Fingers : Good(j)

\* A finger that comes down is off before.
LEMMA ComesDown ==
  ASSUME IInv, NEW i \in Fingers, i \notin fingers
  PROVE  /\ points[i] \in Point /\ points[i].phase = "off"
         /\ points[i].surface = None /\ points[i].listens = None
         /\ OwnerOf(points[i], i \in fingers) = "off"
BY DEF IInv, PointOK, OwnerOf

\* The other fingers, when one comes down.
LEMMA OthersStay ==
  ASSUME IInv, NEW P, NEW i \in Fingers, NEW j \in Fingers, j # i,
         P[j] = points[j], fingers' = fingers \cup {i}, UNCHANGED world,
         j \in pinch' => j \in pinch
  PROVE  GoodAs(P, j)
BY StaysHere

LEMMA ForgetStep ==
  ASSUME IInv, NEW i \in Fingers, i \notin fingers, fingers' = fingers \cup {i},
         UNCHANGED <<world, pinch>>, NEW v \in Ui, Forget(i, v),
         told' \in Surfaces \cup {None}
  PROVE  Kept
<1>1. GoodAs(points, i)
  BY ComesDown, Leaves
<1>2. \A j \in Fingers : GoodAs(points, j)
  BY <1>1, OthersStay
<1>3. points' \in [Fingers -> Point] /\ \A j \in Fingers : Good(j)
  BY <1>2, GoodWith DEF Forget, IInv, TypeOK
<1> QED BY <1>3 DEF Kept, Forget, IInv, TypeOK, world

LEMMA DeliverStep ==
  ASSUME IInv, NEW i \in Fingers, i \notin fingers, fingers' = fingers \cup {i},
         UNCHANGED world, pinch = {}, NEW s \in Alive, NEW v \in Ui, Deliver(i, s, v),
         told' \in Surfaces \cup {None}
  PROVE  Kept
<1> DEFINE p == [Plain EXCEPT !.phase = "delivered", !.surface = s, !.listens = s]
           P == [points EXCEPT ![i] = p]
<1>1. /\ p \in Point /\ p.phase = "delivered" /\ p.surface = s /\ p.listens = s
      /\ p.triggered = FALSE
  BY AliveFacts DEF IInv, Plain, Off, Point, Hitboxes, LiveHitboxes, Edges
<1>2. P \in [Fingers -> Point] /\ P[i] = p /\ \A j \in Fingers \ {i} : P[j] = points[j]
  BY <1>1 DEF IInv, TypeOK
<1>3. points' = With(P, v)
  BY DEF Deliver
<1> HIDE DEF p, P
<1>4. Alive' = Alive
  BY DEF world, Alive
<1>5. GoodAs(P, i)
  <2>1. PointOK(P[i], i \in fingers', i \in pinch', Alive')
    BY <1>1, <1>2, <1>4, AliveFacts DEF PointOK, IInv, Deliver
  <2>2. OwnerOf(P[i], i \in fingers') = s
    BY <1>1, <1>2 DEF OwnerOf
  <2> QED BY <2>1, <2>2, <1>4, ComesDown DEF GoodAs, Routing!Successors
<1>6. \A j \in Fingers : GoodAs(P, j)
  BY <1>2, <1>5, OthersStay DEF Deliver
<1>7. points' \in [Fingers -> Point] /\ \A j \in Fingers : Good(j)
  BY <1>2, <1>3, <1>6, GoodWith
<1> QED BY <1>7 DEF Kept, Deliver, IInv, TypeOK, world

LEMMA CaptureStep ==
  ASSUME IInv, NEW i \in Fingers, i \notin fingers, fingers' = fingers \cup {i},
         UNCHANGED world, pinch = {}, NEW t, t.hitbox \in LiveHitboxes,
         NEW s \in Alive \cup {None}, NEW e \in Edges,
         NEW v \in Ui, Capture(i, t, s, e, v), told' \in Surfaces \cup {None}
  PROVE  Kept
<1> DEFINE p == [phase |-> "captured", surface |-> s, listens |-> s,
                 hitbox |-> t.hitbox, edge |-> e, triggered |-> FALSE, late |-> FALSE]
           P == [points EXCEPT ![i] = p]
<1>1. /\ p \in Point /\ p.phase = "captured" /\ p.surface = s /\ p.listens = s
      /\ p.triggered = FALSE
  BY AliveFacts DEF IInv, Point, Hitboxes
<1>2. P \in [Fingers -> Point] /\ P[i] = p /\ \A j \in Fingers \ {i} : P[j] = points[j]
  BY <1>1 DEF IInv, TypeOK
<1>3. points' = With(P, v)
  BY DEF Capture
<1> HIDE DEF p, P
<1>4. Alive' = Alive
  BY DEF world, Alive
<1>5. GoodAs(P, i)
  <2>1. PointOK(P[i], i \in fingers', i \in pinch', Alive')
    BY <1>1, <1>2, <1>4 DEF PointOK, Capture
  <2>2. OwnerOf(P[i], i \in fingers') = "waiting"
    BY <1>1, <1>2 DEF OwnerOf
  <2> QED BY <2>1, <2>2, ComesDown DEF GoodAs, Routing!Successors
<1>6. \A j \in Fingers : GoodAs(P, j)
  BY <1>2, <1>5, OthersStay DEF Capture
<1>7. points' \in [Fingers -> Point] /\ \A j \in Fingers : Good(j)
  BY <1>2, <1>3, <1>6, GoodWith
<1>8. timer' \in BOOLEAN
  BY DEF Capture, StartTimer
<1> QED BY <1>7, <1>8 DEF Kept, Capture, IInv, TypeOK, world

LEMMA PinchStep ==
  ASSUME IInv, NEW i \in Fingers, i \notin fingers, fingers' = fingers \cup {i},
         UNCHANGED world, NEW j \in Fingers, NEW t, PinchPartner(i, j, t),
         NEW u \in Ui, PinchBegins(i, j, u), told' \in Surfaces \cup {None}
  PROVE  Kept
<1> DEFINE P == [points EXCEPT ![i] = Triggered(Plain), ![j] = Triggered(@)]
<1>1. i # j /\ points[j].phase = "delivered" /\ points[j] \in Point
  BY DEF PinchPartner, IInv, TypeOK
<1>2. j \in fingers
  BY <1>1 DEF IInv, PointOK
<1>3. /\ Triggered(Plain) \in Point /\ Triggered(Plain).phase = "plain"
      /\ Triggered(Plain).surface = None /\ Triggered(Plain).listens = None
      /\ Triggered(points[j]) \in Point
  BY <1>1, OffFacts, TriggeredFacts
<1>4. /\ P \in [Fingers -> Point]
      /\ P[i] = Triggered(Plain) /\ P[j] = Triggered(points[j])
      /\ \A k \in Fingers \ {i, j} : P[k] = points[k]
  BY <1>1, <1>3 DEF IInv, TypeOK
<1>5. points' = With(P, ui')
  BY DEF PinchBegins
<1> HIDE DEF P
<1>6. GoodAs(P, i)
  <2>1. PointOK(P[i], i \in fingers', i \in pinch', Alive')
    BY <1>3, <1>4 DEF PointOK
  <2>2. OwnerOf(P[i], i \in fingers') = "kept"
    BY <1>3, <1>4 DEF OwnerOf
  <2> QED BY <2>1, <2>2, ComesDown DEF GoodAs, Routing!Successors
<1>7. GoodAs(P, j)
  <2>1. Alive' = Alive
    BY DEF world, Alive
  <2> QED BY <1>2, <1>4, <2>1, Triggers
<1>8. \A k \in Fingers \ {i, j} : GoodAs(P, k)
  BY <1>4, OthersStay DEF PinchBegins
<1>9. points' \in [Fingers -> Point] /\ \A k \in Fingers : Good(k)
  BY <1>4, <1>5, <1>6, <1>7, <1>8, GoodWith
<1>10. ui' \in Ui
  BY NamedFlagTypes DEF PinchBegins
<1> QED BY <1>9, <1>10 DEF Kept, PinchBegins, IInv, TypeOK, world

LEMMA RouteStep ==
  ASSUME IInv, NEW i \in Fingers, i \notin fingers, fingers' = fingers \cup {i},
         UNCHANGED world, pinch = {}, NEW t \in Landing,
         NEW target \in Alive \cup {None}, NEW u \in Ui, Route(i, t, target, u),
         told' \in Surfaces \cup {None}
  PROVE  Kept
<1>1. t.hitbox \in LiveHitboxes /\ t.edge \in Edges
  BY TouchAssumption DEF Landing, Edges
<1>2. CASE \E e \in Edges : Capture(i, t, target, e, u)
  BY <1>1, <1>2, CaptureStep
<1>3. CASE \E s \in Alive : DeliverAndFocus(i, s, u)
  <2>1. PICK s \in Alive : Deliver(i, s, FocusUi(u, s))
    BY <1>3 DEF DeliverAndFocus
  <2> QED BY <2>1, FocusTypes, DeliverStep
<1>4. CASE Forget(i, u)
  BY <1>4, ForgetStep DEF Forget
<1>5. toplevels \subseteq Alive
  BY DEF Alive
<1>6. target \in Shell \cup Windows => target \in Alive
  BY TouchAssumption DEF Surfaces
<1>7. \/ Capture(i, t, target, IF u.audit /\ t.edge # "left" THEN "none" ELSE t.edge, u)
      \/ Capture(i, t, target, "none", u)
      \/ Capture(i, t, target, HitboxEdge(t.hitbox), u)
      \/ \E w \in toplevels : DeliverAndFocus(i, w, u)
      \/ target \in Shell \cup Windows /\ DeliverAndFocus(i, target, u)
      \/ Forget(i, u)
  BY DEF Route
<1> QED BY <1>1, <1>2, <1>3, <1>4, <1>5, <1>6, <1>7 DEF HitboxEdge, Edges

LEMMA DismissalsStep ==
  ASSUME IInv, NEW i \in Fingers, i \notin fingers, fingers' = fingers \cup {i},
         UNCHANGED world, pinch = {}, NEW t \in Landing,
         NEW target \in Alive \cup {None}, NEW u \in Ui,
         Dismissals(i, t, target, u), told' \in Surfaces \cup {None}
  PROVE  Kept
<1>1. CASE \E v \in Ui : Forget(i, v)
  BY <1>1, ForgetStep DEF Forget
<1>2. CASE target # None /\ Deliver(i, target, u)
  BY <1>2, DeliverStep
<1>3. CASE Route(i, t, target, u)
  BY <1>3, RouteStep
<1> QED BY <1>1, <1>2, <1>3, NamedFlagTypes DEF Dismissals

LEMMA TouchDownStep ==
  ASSUME IInv, NEW i \in Fingers, TouchDown(i)
  PROVE  Kept
<1>1. /\ i \notin fingers /\ fingers' = fingers \cup {i} /\ UNCHANGED world
      /\ told' \in Surfaces \cup {None}
  BY DEF TouchDown
<1>2. PICK t \in Landing, u \in {ui, [ui EXCEPT !.audit = FALSE]} :
        LET target == IF u.audit /\ t.surface \in Shell THEN None ELSE t.surface IN
        \/ \E j \in Fingers : PinchPartner(i, j, t) /\ PinchBegins(i, j, u)
        \/ /\ \A j \in Fingers : ~PinchPartner(i, j, t)
           /\ IF pinch # {} THEN Forget(i, u) ELSE Dismissals(i, t, target, u)
  BY DEF TouchDown
<1>3. u \in Ui
  BY <1>2, NamedFlagTypes DEF IInv, TypeOK
<1>4. t.surface \in Alive \cup {None}
  BY DEF Landing
<1>5. CASE \E j \in Fingers : PinchPartner(i, j, t) /\ PinchBegins(i, j, u)
  BY <1>1, <1>3, <1>5, PinchStep
<1>6. CASE pinch # {} /\ Forget(i, u)
  BY <1>1, <1>3, <1>6, ForgetStep DEF Forget
<1>7. CASE pinch = {} /\ \E s \in Alive \cup {None} : Dismissals(i, t, s, u)
  BY <1>1, <1>3, <1>7, DismissalsStep
<1> QED BY <1>2, <1>4, <1>5, <1>6, <1>7

\* A step that refreshes nothing.
LEMMA GoodPlain ==
  ASSUME NEW P, points' = P, \A j \in Fingers : GoodAs(P, j)
  PROVE  \A j \in Fingers : Good(j)
BY DEF Good, GoodAs

\* A point of which only the deadline or the hitbox changes.
LEMMA AlikeStays ==
  ASSUME IInv, NEW P, NEW j \in Fingers, P[j] \in Point, Alike(P[j], points[j]),
         UNCHANGED <<fingers, pinch, world>>
  PROVE  GoodAs(P, j)
<1>1. Alive' = Alive
  BY DEF world, Alive
<1>2. PointOK(points[j], j \in fingers, j \in pinch, Alive)
  BY DEF IInv
<1>3. PointOK(P[j], j \in fingers', j \in pinch', Alive')
  BY <1>1, <1>2 DEF PointOK, Alike
<1>4. OwnerOf(P[j], j \in fingers') = OwnerOf(points[j], j \in fingers)
  BY DEF OwnerOf, Alike
<1>5. OwnerOf(points[j], j \in fingers) \in {"off", "waiting", "kept"} \cup Alive
  BY <1>2 DEF PointOK, OwnerOf, Point
<1> QED BY <1>1, <1>3, <1>4, <1>5, AliveFacts DEF GoodAs, Routing!Successors, IInv

LEMMA SwipeEdgeStep ==
  ASSUME IInv, NEW i \in Fingers, SwipeEdge(i)
  PROVE  Kept
<1> DEFINE P == [points EXCEPT ![i] = Triggered(@)]
<1>1. points[i] \in Point /\ i \in fingers /\ i \in fingers'
  BY DEF SwipeEdge, IInv, TypeOK
<1>2. Triggered(points[i]) \in Point
  BY <1>1, TriggeredFacts
<1>3. P \in [Fingers -> Point] /\ P[i] = Triggered(points[i])
      /\ \A j \in Fingers \ {i} : P[j] = points[j]
  BY <1>2 DEF IInv, TypeOK
<1>4. points' = With(P, ui')
  BY DEF SwipeEdge
<1> HIDE DEF P
<1>5. Alive' = Alive
  BY DEF SwipeEdge, world, Alive
<1>6. GoodAs(P, i)
  BY <1>1, <1>3, <1>5, Triggers
<1>7. \A j \in Fingers \ {i} : GoodAs(P, j)
  BY <1>3, StaysHere DEF SwipeEdge
<1>8. points' \in [Fingers -> Point] /\ \A j \in Fingers : Good(j)
  BY <1>3, <1>4, <1>6, <1>7, GoodWith
<1>9. ui' \in Ui /\ timer' \in BOOLEAN
  BY EdgeTypes DEF SwipeEdge, EdgeAction, StartTimer, IInv, TypeOK
<1> QED BY <1>8, <1>9 DEF Kept, SwipeEdge, IInv, TypeOK, world

\* The points of some fingers are removed, one of which may be lifted.
LEMMA Removal ==
  ASSUME IInv, NEW P \in [Fingers -> Point], NEW i \in Fingers, NEW D,
         \A j \in Fingers : P[j] = IF j \in D THEN Off ELSE points[j],
         i \in D \/ points[i].phase = "off", fingers' \in {fingers, fingers \ {i}},
         pinch' \subseteq pinch, UNCHANGED world
  PROVE  \A j \in Fingers : GoodAs(P, j)
<1>1. ASSUME NEW j \in D, j \in Fingers PROVE GoodAs(P, j)
  BY <1>1, OffFacts, Leaves
<1>2. ASSUME points[i].phase = "off", i \notin D PROVE GoodAs(P, i)
  <2>1. points[i].surface = None /\ points[i].listens = None
    BY <1>2 DEF IInv, PointOK
  <2> QED BY <1>2, <2>1, Leaves
<1>3. ASSUME NEW j \in Fingers \ D, j # i PROVE GoodAs(P, j)
  BY <1>3, StaysHere
<1> QED BY <1>1, <1>2, <1>3

LEMMA SwipeClosesDrawerStep ==
  ASSUME IInv, NEW i \in Fingers, SwipeClosesDrawer(i)
  PROVE  Kept
<1> DEFINE P == [points EXCEPT ![i] = Off]
<1>1. /\ P \in [Fingers -> Point]
      /\ \A j \in Fingers : P[j] = IF j \in {i} THEN Off ELSE points[j]
  BY OffFacts DEF IInv, TypeOK
<1>2. points' = With(P, ui')
  BY DEF SwipeClosesDrawer
<1> HIDE DEF P
<1>3. \A j \in Fingers : GoodAs(P, j)
  BY <1>1, Removal DEF SwipeClosesDrawer
<1>4. points' \in [Fingers -> Point] /\ \A j \in Fingers : Good(j)
  BY <1>1, <1>2, <1>3, GoodWith
<1>5. ui' \in Ui
  BY NamedFlagTypes DEF SwipeClosesDrawer, IInv, TypeOK
<1> QED BY <1>4, <1>5 DEF Kept, SwipeClosesDrawer, IInv, TypeOK, world

LEMMA MoveCapturedStep ==
  ASSUME IInv, NEW i \in Fingers, MoveCaptured(i)
  PROVE  Kept
<1>1. \A j \in Fingers : GoodAs(points, j)
  BY StaysHere DEF MoveCaptured
<1>2. \A j \in Fingers : Good(j)
  BY <1>1, GoodPlain DEF MoveCaptured
<1> QED BY <1>2 DEF Kept, MoveCaptured, StartTimer, IInv, TypeOK, world

LEMMA DeadlineStep ==
  ASSUME IInv, NEW i \in Fingers, Deadline(i)
  PROVE  Kept
<1> DEFINE P == [points EXCEPT ![i].late = TRUE]
<1>1. P \in [Fingers -> Point] /\ \A j \in Fingers : Alike(P[j], points[j])
  <2>1. points \in [Fingers -> Point]
    BY DEF IInv, TypeOK
  <2> DEFINE q == [points[i] EXCEPT !.late = TRUE]
  <2>2. P = [points EXCEPT ![i] = q]
    OBVIOUS
  <2>3. q \in Point /\ Alike(q, points[i])
    BY <2>1, LateFacts
  <2>4. \A j \in Fingers : Alike(points[j], points[j])
    BY DEF Alike
  <2> HIDE DEF P, q
  <2> QED BY <2>1, <2>2, <2>3, <2>4
<1>2. points' = P
  BY DEF Deadline
<1> HIDE DEF P
<1>3. \A j \in Fingers : GoodAs(P, j)
  BY <1>1, AlikeStays DEF Deadline
<1>4. \A j \in Fingers : Good(j)
  BY <1>2, <1>3, GoodPlain
<1> QED BY <1>1, <1>2, <1>4 DEF Kept, Deadline, IInv, TypeOK, world

\* What a lifted touch leads to is a surface, or none, and an interface.
LEMMA LiftedTypes ==
  ASSUME TypeOK, NEW p \in Point, NEW h, NEW r \in Lifted(p, h)
  PROVE  r.to \in Surfaces \cup {None} /\ r.ui \in Ui
<1> DEFINE Result == [to : Surfaces \cup {None}, ui : Ui]
           replayed == [to |-> ReplaySurface(p, ui), ui |-> FocusUi(ui, p.surface)]
           nowhere(v) == [to |-> None, ui |-> v]
           reserved ==
             CASE h = "osk" /\ shell = "up" ->
                    [to |-> IF ui.keyboard THEN "osk" ELSE "launcher", ui |-> ui]
               [] h = "scrim" /\ shell = "up" -> [to |-> "launcher", ui |-> ui]
               [] OTHER -> nowhere(ui)
<1>1. ui \in Ui /\ p.surface \in Surfaces \cup {None}
      /\ {"osk", "launcher"} \subseteq Surfaces
  BY DEF TypeOK, Point, Surfaces, Shell
<1>2. replayed \in Result
  BY <1>1, FocusTypes DEF ReplaySurface
<1>3. \A v \in Ui : nowhere(v) \in Result
  OBVIOUS
<1>4. reserved \in Result
  BY <1>1, <1>3
<1>5. EdgeAction(p.edge) \subseteq Ui
  BY <1>1, EdgeTypes DEF EdgeAction
<1>6. r \in {nowhere(v) : v \in EdgeAction(p.edge)} \cup {replayed, reserved, nowhere(ui)}
  BY DEF Lifted
<1> HIDE DEF Result, replayed, reserved, nowhere
<1>7. r \in Result
  BY <1>1, <1>2, <1>3, <1>4, <1>5, <1>6
<1> QED BY <1>7 DEF Result

LEMMA TouchUpStep ==
  ASSUME IInv, NEW i \in Fingers, TouchUp(i)
  PROVE  Kept
<1>1. fingers' = fingers \ {i} /\ UNCHANGED world
  BY DEF TouchUp
<1>2. CASE i \in Tracked /\ PinchEnds(i)
  <2> DEFINE P == [j \in Fingers |-> IF j \in pinch THEN Off ELSE points[j]]
  <2>1. /\ P \in [Fingers -> Point]
        /\ \A j \in Fingers : P[j] = IF j \in pinch THEN Off ELSE points[j]
    BY OffFacts DEF IInv, TypeOK
  <2>2. points' = P
    BY <1>2 DEF PinchEnds
  <2> HIDE DEF P
  <2>3. \A j \in Fingers : GoodAs(P, j)
    BY <1>1, <1>2, <2>1, Removal DEF PinchEnds
  <2>4. \A j \in Fingers : Good(j)
    BY <2>2, <2>3, GoodPlain
  <2> QED BY <1>1, <1>2, <2>1, <2>2, <2>4 DEF Kept, PinchEnds, IInv, TypeOK, world
<1>3. CASE i \in Tracked /\ CapturedEnds(i)
  <2> DEFINE P == [points EXCEPT ![i] = Off]
  <2>1. PICK h \in Reads(points[i]) : \E r \in Lifted(points[i], h) :
          /\ ui' = r.ui /\ told' = r.to
          /\ points' = With(P, r.ui)
    BY <1>3 DEF CapturedEnds
  <2>2. PICK r \in Lifted(points[i], h) :
          ui' = r.ui /\ told' = r.to /\ points' = With(P, r.ui)
    BY <2>1
  <2>3. /\ P \in [Fingers -> Point]
        /\ \A j \in Fingers : P[j] = IF j \in {i} THEN Off ELSE points[j]
    BY OffFacts DEF IInv, TypeOK
  <2> HIDE DEF P
  <2>4. \A j \in Fingers : GoodAs(P, j)
    BY <1>1, <1>3, <2>3, Removal DEF CapturedEnds
  <2>5. points' \in [Fingers -> Point] /\ \A j \in Fingers : Good(j)
    BY <2>2, <2>3, <2>4, GoodWith
  <2>6. ui' \in Ui /\ told' \in Surfaces \cup {None}
    BY <2>2, LiftedTypes DEF IInv, TypeOK
  <2> QED BY <1>1, <1>3, <2>5, <2>6
          DEF Kept, CapturedEnds, StartTimer, IInv, TypeOK, world
<1>4. CASE i \in Tracked /\ OtherEnds(i)
  <2> DEFINE P == [points EXCEPT ![i] = Off]
  <2>1. /\ P \in [Fingers -> Point]
        /\ \A j \in Fingers : P[j] = IF j \in {i} THEN Off ELSE points[j]
    BY OffFacts DEF IInv, TypeOK
  <2>2. points' = P
    BY <1>4 DEF OtherEnds
  <2> HIDE DEF P
  <2>3. \A j \in Fingers : GoodAs(P, j)
    BY <1>1, <1>4, <2>1, Removal DEF OtherEnds
  <2>4. \A j \in Fingers : Good(j)
    BY <2>2, <2>3, GoodPlain
  <2> QED BY <1>1, <1>4, <2>1, <2>2, <2>4
          DEF Kept, OtherEnds, StartTimer, IInv, TypeOK, world
<1>5. CASE /\ i \notin Tracked /\ told' = None
           /\ UNCHANGED <<points, pinch, timer, seat, ui>>
  <2>1. points[i].phase = "off"
    BY <1>5 DEF Tracked
  <2>2. \A j \in Fingers : GoodAs(points, j)
    BY <1>1, <1>5, <2>1, Removal DEF IInv, TypeOK
  <2>3. \A j \in Fingers : Good(j)
    BY <1>5, <2>2, GoodPlain
  <2> QED BY <1>1, <1>5, <2>3 DEF Kept, IInv, TypeOK, world
<1> QED BY <1>2, <1>3, <1>4, <1>5 DEF TouchUp

LEMMA TouchCancelStep ==
  ASSUME IInv, NEW i \in Fingers, TouchCancel(i)
  PROVE  Kept
<1> DEFINE P == [points EXCEPT ![i] = Off]
<1>1. /\ P \in [Fingers -> Point]
      /\ \A j \in Fingers : P[j] = IF j \in {i} THEN Off ELSE points[j]
  BY OffFacts DEF IInv, TypeOK
<1>2. points' = P
  BY DEF TouchCancel
<1> HIDE DEF P
<1>3. \A j \in Fingers : GoodAs(P, j)
  BY <1>1, Removal DEF TouchCancel
<1>4. \A j \in Fingers : Good(j)
  BY <1>2, <1>3, GoodPlain
<1> QED BY <1>1, <1>2, <1>4 DEF Kept, TouchCancel, IInv, TypeOK, world

-----------------------------------------------------------------------------
(* The timer, the surfaces and the interface.                              *)

\* A replayed finger had been waiting; its new owner is there.
LEMMA Delivers ==
  ASSUME IInv, NEW P, NEW i \in Fingers, NEW h, Replayable(points[i], h), NEW v,
         P[i] = Replayed(points[i], v), UNCHANGED <<fingers, pinch, world>>
  PROVE  P[i] \in Point /\ GoodAs(P, i)
<1> DEFINE p == points[i]
           s == ReplaySurface(p, v)
<1>1. /\ PointOK(p, i \in fingers, i \in pinch, Alive) /\ p.phase = "captured"
      /\ ~p.triggered /\ p.surface \in Alive /\ p.listens \in Alive \cup {None}
  BY DEF Replayable, IInv, PointOK
<1>2. Alive' = Alive
  BY DEF world, Alive
<1>3. s \in Alive /\ (s = p.listens \/ {s, p.listens} \subseteq Shell)
  BY <1>1, AliveFacts DEF ReplaySurface, PointOK, IInv, Shell
<1>4. /\ P[i] \in Point /\ P[i].phase = "delivered" /\ P[i].surface = s
      /\ P[i].listens = p.listens /\ P[i].triggered = FALSE
  <2>1. s \in Surfaces \cup {None} /\ p.listens \in Surfaces \cup {None}
    BY <1>1, <1>3, AliveFacts DEF IInv
  <2>2. P[i] = [Plain EXCEPT !.phase = "delivered", !.surface = s, !.listens = p.listens]
    BY DEF Replayed
  <2> HIDE DEF s, p
  <2> QED BY <2>1, <2>2 DEF Plain, Off, Point, Hitboxes, LiveHitboxes, Edges
<1>5. i \in fingers /\ i \notin pinch
  BY <1>1 DEF PointOK
<1> HIDE DEF s
<1>6. PointOK(P[i], i \in fingers', i \in pinch', Alive')
  BY <1>1, <1>2, <1>3, <1>4, <1>5, AliveFacts DEF PointOK, IInv
<1>7. OwnerOf(P[i], i \in fingers') = s
  BY <1>4, <1>5 DEF OwnerOf
<1>8. OwnerOf(points[i], i \in fingers) = "waiting"
  BY <1>1, <1>5 DEF OwnerOf
<1> QED BY <1>2, <1>3, <1>4, <1>6, <1>7, <1>8 DEF GoodAs, Routing!Successors

LEMMA GestureTimeoutStep ==
  ASSUME IInv, GestureTimeout
  PROVE  Kept
<1>1. PICK R \in SUBSET Tracked, u \in Ui :
        /\ \A i \in Tracked :
             \E h \in Reads(points[i]) : (i \in R) = Replayable(points[i], h)
        /\ u = [ui EXCEPT !.keyboard =
                  @ \/ \E i \in R : points[i].surface \in AutoShow /\ ~ui.launcher]
        /\ \E v \in {ui, u} :
             /\ points' = With([i \in Fingers |->
                  IF i \in R THEN Replayed(points[i], v) ELSE points[i]], u)
             /\ seat' = [i \in Fingers |->
                  IF i \in R THEN <<ReplaySurface(points[i], v)>> \o seat[i]
                  ELSE seat[i]]
        /\ ui' = u
  BY DEF GestureTimeout
<1>2. PICK v \in {ui, u} :
        points' = With([i \in Fingers |->
                    IF i \in R THEN Replayed(points[i], v) ELSE points[i]], u)
  BY <1>1
<1> DEFINE P == [i \in Fingers |->
                   IF i \in R THEN Replayed(points[i], v) ELSE points[i]]
<1>3. points' = With(P, u)
  BY <1>2
<1>4. \A i \in Fingers : P[i] = IF i \in R THEN Replayed(points[i], v) ELSE points[i]
  OBVIOUS
<1>5. UNCHANGED <<fingers, pinch, world>> /\ told' = None /\ timer' \in BOOLEAN
  BY DEF GestureTimeout, StartTimer
<1>6. P = [i \in Fingers |-> P[i]]
  OBVIOUS
<1> HIDE DEF P
<1>7. ASSUME NEW i \in Fingers PROVE P[i] \in Point /\ GoodAs(P, i)
  <2>1. CASE i \in R
    <3>1. i \in Tracked
      BY <2>1
    <3>2. PICK h \in Reads(points[i]) : Replayable(points[i], h)
      BY <1>1, <2>1, <3>1
    <3> QED BY <1>4, <1>5, <2>1, <3>2, Delivers
  <2>2. CASE i \notin R
    BY <1>4, <1>5, <2>2, StaysHere DEF IInv, TypeOK
  <2> QED BY <2>1, <2>2
<1>8. P \in [Fingers -> Point]
  BY <1>6, <1>7
<1>9. points' \in [Fingers -> Point] /\ \A j \in Fingers : Good(j)
  BY <1>3, <1>7, <1>8, GoodWith
<1> QED BY <1>1, <1>5, <1>9 DEF Kept, IInv, TypeOK, world

\* Surfaces go, with the points that listen for them; those of the shell go
\* together, so that no other point is bound to one.
LEMMA DestroyedStep ==
  ASSUME IInv, NEW gone, SurfacesDestroyed(gone), Alive' = Alive \ gone,
         gone = Shell \/ gone \cap Shell = {},
         shell' \in {"starting", "up", "gone"}, toplevels' \subseteq Windows
  PROVE  Kept
<1> DEFINE D == {i \in Fingers : Destroyed(i, gone)}
           P == [i \in Fingers |-> IF i \in D THEN Off ELSE points[i]]
<1>1. /\ P \in [Fingers -> Point] /\ points' = P
      /\ \A j \in Fingers : P[j] = IF j \in D THEN Off ELSE points[j]
  BY OffFacts DEF SurfacesDestroyed, IInv, TypeOK
<1>2. UNCHANGED <<fingers, pinch, timer, ui>> /\ told' = None
  BY DEF SurfacesDestroyed
<1>3. ASSUME NEW j \in Fingers PROVE GoodAs(P, j)
  <2>1. CASE j \in D
    BY <1>1, <2>1, OffFacts, Leaves
  <2>2. CASE j \notin D
    <3>1. PointOK(points[j], j \in fingers, j \in pinch, Alive)
      BY DEF IInv
    <3>2. points[j].listens \notin gone \/ points[j].phase = "off"
      BY <2>2 DEF Destroyed
    <3>3. points[j].listens \in Alive' \cup {None} /\ points[j].surface \in Alive' \cup {None}
      BY <3>1, <3>2, AliveFacts DEF PointOK, IInv
    <3>4. Alive' \cap {"off", "waiting", "kept"} = {}
      BY AliveFacts DEF IInv
    <3>5. P[j] = points[j]
      BY <1>1, <2>2
    <3> HIDE DEF P, D
    <3> QED BY <1>2, <3>3, <3>4, <3>5, Stays
  <2> QED BY <2>1, <2>2
<1> HIDE DEF P, D
<1>4. \A j \in Fingers : Good(j)
  BY <1>1, <1>3, GoodPlain
<1> QED BY <1>1, <1>2, <1>4 DEF Kept, IInv, TypeOK

\* A surface comes, and no point changes.
LEMMA SurfacesComeStep ==
  ASSUME IInv, UNCHANGED <<fingers, points, pinch, timer, ui>>, told' = None,
         Alive \subseteq Alive', shell' \in {"starting", "up", "gone"},
         toplevels' \subseteq Windows
  PROVE  Kept
<1>1. Alive' \cap {"off", "waiting", "kept"} = {}
  BY DEF Alive, Shell
<1>2. ASSUME NEW j \in Fingers PROVE GoodAs(points, j)
  <2>1. PointOK(points[j], j \in fingers, j \in pinch, Alive)
    BY DEF IInv
  <2>2. points[j].listens \in Alive' \cup {None} /\ points[j].surface \in Alive' \cup {None}
    BY <2>1 DEF PointOK
  <2> QED BY <1>1, <2>2, Stays
<1>3. \A j \in Fingers : Good(j)
  BY <1>2, GoodPlain
<1> QED BY <1>3 DEF Kept, IInv, TypeOK

LEMMA RefreshStep ==
  ASSUME IInv, UiChanges \/ HitboxRefresh
  PROVE  Kept
<1>1. UNCHANGED <<fingers, pinch, timer, world>> /\ told' = None
  BY DEF UiChanges, HitboxRefresh
<1>2. \A j \in Fingers : GoodAs(points, j)
  BY <1>1, StaysHere
<1>3. CASE UiChanges
  <2>1. ui' \in Ui
    <3>1. PICK f \in Flags : ui' = [ui EXCEPT ![f] = ~@]
      BY <1>3 DEF UiChanges
    <3>2. f \in UiFlags
      BY TouchAssumption
    <3>3. ui \in Ui
      BY DEF IInv, TypeOK
    <3> QED BY <3>1, <3>2, <3>3, FlagTypes
  <2>2. points' \in [Fingers -> Point] /\ \A j \in Fingers : Good(j)
    BY <1>2, <1>3, GoodWith DEF UiChanges, IInv, TypeOK
  <2> QED BY <1>1, <2>1, <2>2 DEF Kept, IInv, TypeOK, world
<1>4. CASE HitboxRefresh
  <2> DEFINE P == Staled(points)
  <2>1. P \in [Fingers -> Point]
    BY DEF Staled, Point, Hitboxes, IInv, TypeOK
  <2>2. \A j \in Fingers : Alike(P[j], points[j])
    BY DEF Staled, Point, Alike, IInv, TypeOK
  <2>3. points' = P
    BY <1>4 DEF HitboxRefresh
  <2> HIDE DEF P
  <2>4. \A j \in Fingers : GoodAs(P, j)
    BY <1>1, <2>1, <2>2, AlikeStays
  <2>5. \A j \in Fingers : Good(j)
    BY <2>3, <2>4, GoodPlain
  <2> QED BY <1>1, <1>4, <2>1, <2>3, <2>5 DEF Kept, HitboxRefresh, IInv, TypeOK, world
<1> QED BY <1>3, <1>4

LEMMA SurfacesStep ==
  ASSUME IInv, NewWindow \/ DestroyWindow \/ ShellUp \/ ShellGone
  PROVE  Kept
<1>0. toplevels \subseteq Windows /\ shell \in {"starting", "up", "gone"}
  BY DEF IInv, TypeOK
<1>1. CASE NewWindow
  <2>1. toplevels' \subseteq Windows /\ Alive \subseteq Alive'
    BY <1>0, <1>1 DEF NewWindow, Alive
  <2> QED BY <1>0, <1>1, <2>1, SurfacesComeStep DEF NewWindow
<1>2. CASE DestroyWindow
  <2>1. PICK w \in toplevels : toplevels' = toplevels \ {w} /\ SurfacesDestroyed({w})
    BY <1>2 DEF DestroyWindow
  <2>2. shell' = shell /\ w \notin Shell
    BY <1>0, <1>2, <2>1 DEF DestroyWindow
  <2>3. Alive' = Alive \ {w} /\ {w} \cap Shell = {}
    BY <2>1, <2>2 DEF Alive
  <2> QED BY <1>0, <2>1, <2>2, <2>3, DestroyedStep
<1>3. CASE ShellUp
  <2>1. Alive \subseteq Alive'
    BY <1>3 DEF ShellUp, Alive
  <2> QED BY <1>0, <1>3, <2>1, SurfacesComeStep DEF ShellUp
<1>4. CASE ShellGone
  <2>1. Alive' = Alive \ Shell
    BY <1>0, <1>4 DEF ShellGone, Alive
  <2> QED BY <1>0, <1>4, <2>1, DestroyedStep DEF ShellGone
<1> QED BY <1>1, <1>2, <1>3, <1>4

LEMMA NextStep ==
  ASSUME IInv, [Next]_vars
  PROVE  Kept \/ UNCHANGED vars
<1>1. CASE UNCHANGED vars
  BY <1>1
<1>2. CASE Next
  BY <1>2, TouchDownStep, SwipeEdgeStep, SwipeClosesDrawerStep, MoveCapturedStep,
     TouchUpStep, TouchCancelStep, DeadlineStep, GestureTimeoutStep, SurfacesStep,
     RefreshStep DEF Next
<1> QED BY <1>1, <1>2

LEMMA InitKept == Init => IInv
<1> SUFFICES ASSUME Init PROVE IInv
  OBVIOUS
<1>1. TypeOK
  BY OffFacts, InitTypes DEF Init, TypeOK
<1>2. \A j \in Fingers : points[j] = Off
  BY DEF Init
<1> QED BY <1>1, <1>2, OffFacts DEF IInv, PointOK, Off

LEMMA StepKept == IInv /\ [Next]_vars => IInv'
<1> SUFFICES ASSUME IInv, [Next]_vars PROVE IInv'
  OBVIOUS
<1>1. CASE Kept
  BY <1>1 DEF Kept, Good, IInv
<1>2. CASE UNCHANGED vars
  BY <1>2 DEF vars, IInv, TypeOK, PointOK, Alive
<1> QED BY <1>1, <1>2, NextStep

(***************************************************************************)
(* Every point the compositor tracks is well formed, however the handlers  *)
(* interleave: its finger is down, its surfaces are there, since the point *)
(* goes before its surface does (input_touch.c:373-398), and a finger that *)
(* pinches is delivered to nobody (input.c:593-627).                       *)
(***************************************************************************)
THEOREM TouchInvariant == Spec => []IInv
<1>1. Init => IInv
  BY InitKept
<1>2. IInv /\ [Next]_vars => IInv'
  BY StepKept
<1> QED BY <1>1, <1>2, PTL DEF Spec

-----------------------------------------------------------------------------
(* TouchInput implements TouchRouting.                                     *)

LEMMA OwnersAre ==
  ASSUME NEW i \in Fingers
  PROVE  Owner(i) = OwnerOf(points[i], i \in fingers)
BY DEF Owner, OwnerOf

LEMMA OwnersType ==
  ASSUME IInv, NEW i \in Fingers
  PROVE  OwnerOf(points[i], i \in fingers) \in {"off", "waiting", "kept"} \cup Surfaces
<1>1. PointOK(points[i], i \in fingers, i \in pinch, Alive)
  BY DEF IInv
<1> QED BY <1>1, AliveFacts DEF PointOK, OwnerOf, Point, IInv

LEMMA RoutingInit == Init => Routing!Init
<1> SUFFICES ASSUME Init PROVE Routing!Init
  OBVIOUS
<1>1. \A i \in Fingers : Owner(i) = "off"
  BY DEF Init, Owner
<1>2. Alive \subseteq Surfaces
  BY InitKept, AliveFacts DEF IInv
<1> QED BY <1>1, <1>2 DEF Routing!Init

LEMMA RoutingStep == IInv /\ IInv' /\ [Next]_vars => [Routing!Next]_Routing!vars
<1> SUFFICES ASSUME IInv, IInv', [Next]_vars PROVE [Routing!Next]_Routing!vars
  OBVIOUS
<1>1. CASE UNCHANGED vars
  BY <1>1 DEF vars, Routing!vars, Owner, Alive
<1>2. CASE Kept
  <2>1. Alive' \subseteq Surfaces
    BY DEF IInv, TypeOK, Alive, Surfaces
  <2>2. ASSUME NEW i \in Fingers
        PROVE  /\ Owner(i)' \in {"off", "waiting", "kept"} \cup Surfaces
               /\ Owner(i)' \in Routing!Successors(Owner(i), Alive')
    <3>1. Good(i)
      BY <1>2 DEF Kept
    <3>2. Owner(i)' = OwnerOf(points'[i], i \in fingers')
      BY DEF Owner, OwnerOf
    <3>3. Owner(i) = OwnerOf(points[i], i \in fingers)
      BY OwnersAre
    <3>4. OwnerOf(points'[i], i \in fingers') \in {"off", "waiting", "kept"} \cup Surfaces
      BY <2>1, <3>1 DEF Good, PointOK, OwnerOf, Point
    <3> QED BY <3>1, <3>2, <3>3, <3>4 DEF Good
  <2>3. [i \in Fingers |-> Owner(i)]' \in [Fingers -> {"off", "waiting", "kept"} \cup Surfaces]
    BY <2>2
  <2>4. \A i \in Fingers : [j \in Fingers |-> Owner(j)]'[i] \in
                             Routing!Successors([j \in Fingers |-> Owner(j)][i], Alive')
    BY <2>2
  <2> QED BY <2>1, <2>3, <2>4 DEF Routing!Next
<1> QED BY <1>1, <1>2, NextStep

(***************************************************************************)
(* For any number of fingers and windows, no finger changes hands twice    *)
(* and none belongs to a surface that is gone: every handler of input.c    *)
(* and input_touch.c is a step of TouchRouting or changes no owner.        *)
(***************************************************************************)
THEOREM TouchesAreRouted == Spec => FingersAreRouted
<1>1. Init => Routing!Init
  BY RoutingInit
<1>2. IInv /\ IInv' /\ [Next]_vars => [Routing!Next]_Routing!vars
  BY RoutingStep
<1> QED BY <1>1, <1>2, TouchInvariant, PTL DEF Spec, FingersAreRouted, Routing!Spec

-----------------------------------------------------------------------------
(* The gesture timer.  A handler either sets it for the points it leaves,  *)
(* or leaves it alone and makes no further point wait.                     *)

FewerWait(P) == \A j \in Fingers : Waits(P[j]) => Waits(points[j])

TimerKept ==
  \/ timer' \in StartTimer(points')
  \/ timer' = timer /\ FewerWait(points')

LEMMA FewerWaitWith ==
  ASSUME NEW P \in [Fingers -> Point], FewerWait(P), NEW v, points' = With(P, v)
  PROVE  FewerWait(points')
<1>1. \A j \in Fingers : Waits(Staled(P)[j]) => Waits(P[j])
  BY DEF Staled, Waits, GestureHitbox, Point
<1>2. points' \in {Staled(P), P}
  BY DEF With
<1>3. CASE points' = P
  BY <1>3
<1>4. CASE points' = Staled(P)
  BY <1>1, <1>4 DEF FewerWait
<1> QED BY <1>2, <1>3, <1>4

\* One point that does not wait, the others as they are.
LEMMA OneChanges ==
  ASSUME TypeOK, NEW i \in Fingers, NEW p \in Point, ~Waits(p)
  PROVE  /\ [points EXCEPT ![i] = p] \in [Fingers -> Point]
         /\ FewerWait([points EXCEPT ![i] = p])
BY DEF TypeOK, FewerWait

LEMMA OffWaitsNot == ~Waits(Off) /\ Off \in Point
BY OffFacts DEF Waits

LEMMA ForgetTimer ==
  ASSUME TypeOK, NEW i, NEW v, Forget(i, v)
  PROVE  TimerKept
<1>1. FewerWait(points)
  BY DEF FewerWait
<1> QED BY <1>1, FewerWaitWith DEF Forget, TimerKept, TypeOK

LEMMA DeliverTimer ==
  ASSUME TypeOK, NEW i \in Fingers, NEW s \in Alive, NEW v, Deliver(i, s, v)
  PROVE  TimerKept
<1> DEFINE p == [Plain EXCEPT !.phase = "delivered", !.surface = s, !.listens = s]
<1>1. p \in Point /\ ~Waits(p)
  BY AliveFacts DEF Plain, Off, Point, Hitboxes, LiveHitboxes, Edges, Waits
<1>2. points' = With([points EXCEPT ![i] = p], v) /\ timer' = timer
  BY DEF Deliver
<1> HIDE DEF p
<1> QED BY <1>1, <1>2, OneChanges, FewerWaitWith DEF TimerKept

LEMMA PinchTimer ==
  ASSUME TypeOK, NEW i \in Fingers, NEW j \in Fingers, NEW u, PinchBegins(i, j, u)
  PROVE  TimerKept
<1> DEFINE P == [points EXCEPT ![i] = Triggered(Plain), ![j] = Triggered(@)]
<1>1. \A p \in Point : Triggered(p) \in Point /\ ~Waits(Triggered(p))
  BY TriggeredFacts DEF Waits
<1>2. P \in [Fingers -> Point]
  BY <1>1, OffFacts DEF TypeOK
<1>3. FewerWait(P)
  <2>1. \A k \in Fingers : P[k] = points[k] \/ \E p \in Point : P[k] = Triggered(p)
    BY OffFacts DEF TypeOK
  <2> HIDE DEF P
  <2> QED BY <1>1, <2>1 DEF FewerWait
<1>4. points' = With(P, ui') /\ timer' = timer
  BY DEF PinchBegins
<1> HIDE DEF P
<1> QED BY <1>2, <1>3, <1>4, FewerWaitWith DEF TimerKept

LEMMA TouchDownTimer ==
  ASSUME TypeOK, NEW i \in Fingers, TouchDown(i)
  PROVE  TimerKept
<1>1. PICK t \in Landing, u \in {ui, [ui EXCEPT !.audit = FALSE]} :
        LET target == IF u.audit /\ t.surface \in Shell THEN None ELSE t.surface IN
        \/ \E j \in Fingers : PinchPartner(i, j, t) /\ PinchBegins(i, j, u)
        \/ /\ \A j \in Fingers : ~PinchPartner(i, j, t)
           /\ IF pinch # {} THEN Forget(i, u) ELSE Dismissals(i, t, target, u)
  BY DEF TouchDown
<1>2. toplevels \subseteq Alive /\ t.surface \in Alive \cup {None}
  BY DEF Landing, Alive
<1>3. ASSUME NEW target \in Alive \cup {None}, Route(i, t, target, u)
      PROVE  TimerKept
  <2>1. CASE \E e : Capture(i, t, target, e, u)
    BY <2>1 DEF Capture, TimerKept
  <2>2. CASE \E s \in Alive : DeliverAndFocus(i, s, u)
    BY <2>2, DeliverTimer DEF DeliverAndFocus
  <2>3. CASE Forget(i, u)
    BY <2>3, ForgetTimer
  <2>4. target \in Shell \cup Windows => target \in Alive
    BY TouchAssumption DEF Surfaces
  <2>5. \/ Capture(i, t, target, IF u.audit /\ t.edge # "left" THEN "none" ELSE t.edge, u)
        \/ Capture(i, t, target, "none", u)
        \/ Capture(i, t, target, HitboxEdge(t.hitbox), u)
        \/ \E w \in toplevels : DeliverAndFocus(i, w, u)
        \/ target \in Shell \cup Windows /\ DeliverAndFocus(i, target, u)
        \/ Forget(i, u)
    BY <1>3 DEF Route
  <2> QED BY <1>2, <2>1, <2>2, <2>3, <2>4, <2>5
<1>4. ASSUME NEW target \in Alive \cup {None}, Dismissals(i, t, target, u)
      PROVE  TimerKept
  <2>1. \/ \E v : Forget(i, v)
        \/ target # None /\ Deliver(i, target, u)
        \/ Route(i, t, target, u)
    BY <1>4 DEF Dismissals
  <2> QED BY <1>3, <2>1, ForgetTimer, DeliverTimer
<1> QED BY <1>1, <1>2, <1>4, PinchTimer, ForgetTimer

LEMMA OtherTimer ==
  ASSUME IInv, [Next]_vars, \A i \in Fingers : ~TouchDown(i)
  PROVE  TimerKept
<1>1. ASSUME NEW i \in Fingers, SwipeClosesDrawer(i) \/ TouchCancel(i)
      PROVE  TimerKept
  <2> DEFINE P == [points EXCEPT ![i] = Off]
  <2>1. P \in [Fingers -> Point] /\ FewerWait(P)
    BY OffWaitsNot, OneChanges DEF IInv
  <2>2. timer' = timer /\ (points' = P \/ points' = With(P, ui'))
    BY <1>1 DEF SwipeClosesDrawer, TouchCancel
  <2> HIDE DEF P
  <2> QED BY <2>1, <2>2, FewerWaitWith DEF TimerKept
<1>2. ASSUME NEW i \in Fingers, Deadline(i) PROVE TimerKept
  BY <1>2 DEF Deadline, TimerKept, FewerWait, Waits, IInv, TypeOK, Point
<1>3. ASSUME NEW i \in Fingers, TouchUp(i) PROVE TimerKept
  <2>1. CASE PinchEnds(i)
    BY <2>1, OffWaitsNot DEF PinchEnds, TimerKept, FewerWait
  <2>2. CASE UNCHANGED <<points, timer>>
    BY <2>2 DEF TimerKept, FewerWait
  <2> QED BY <1>3, <2>1, <2>2 DEF TouchUp, CapturedEnds, OtherEnds, TimerKept
<1>4. ASSUME NEW gone, SurfacesDestroyed(gone) PROVE TimerKept
  BY <1>4, OffWaitsNot DEF SurfacesDestroyed, TimerKept, FewerWait
<1>5. CASE UiChanges \/ HitboxRefresh
  <2>1. FewerWait(points)
    BY DEF FewerWait
  <2>2. \A j \in Fingers : Waits(Staled(points)[j]) => Waits(points[j])
    BY DEF Staled, Waits, GestureHitbox, Point, IInv, TypeOK
  <2>3. CASE UiChanges
    BY <2>1, <2>3, FewerWaitWith DEF UiChanges, TimerKept, IInv, TypeOK
  <2>4. CASE HitboxRefresh
    BY <2>2, <2>4 DEF HitboxRefresh, TimerKept, FewerWait
  <2> QED BY <1>5, <2>3, <2>4
<1>6. CASE UNCHANGED <<points, timer>>
  BY <1>6 DEF TimerKept, FewerWait
<1>7. CASE GestureTimeout \/ \E i \in Fingers : SwipeEdge(i) \/ MoveCaptured(i)
  <2>1. CASE GestureTimeout
    BY <2>1 DEF GestureTimeout, TimerKept
  <2>2. CASE \E i \in Fingers : SwipeEdge(i)
    BY <2>2 DEF SwipeEdge, TimerKept
  <2>3. CASE \E i \in Fingers : MoveCaptured(i)
    BY <2>3 DEF MoveCaptured, TimerKept
  <2> QED BY <1>7, <2>1, <2>2, <2>3
<1> QED BY <1>1, <1>2, <1>3, <1>4, <1>5, <1>6, <1>7
        DEF Next, NewWindow, DestroyWindow, ShellUp, ShellGone, vars

(***************************************************************************)
(* For any number of fingers, whoever's capture, motion, lift or timeout   *)
(* last set or removed the gesture timer, a touch that waits for it finds  *)
(* it armed (input_touch.c:584-680).                                       *)
(***************************************************************************)
THEOREM WaitersHaveTimer == Spec => []WaitingHasTimer
<1>1. Init => WaitingHasTimer
  BY OffFacts DEF Init, WaitingHasTimer, Waits
<1>2. IInv /\ WaitingHasTimer /\ [Next]_vars => WaitingHasTimer'
  <2> SUFFICES ASSUME IInv, WaitingHasTimer, [Next]_vars PROVE WaitingHasTimer'
    OBVIOUS
  <2>1. TimerKept
    BY TouchDownTimer, OtherTimer DEF IInv
  <2>2. CASE timer' \in StartTimer(points')
    BY <2>2 DEF StartTimer, WaitingHasTimer
  <2>3. CASE timer' = timer /\ FewerWait(points')
    BY <2>3 DEF FewerWait, WaitingHasTimer
  <2> QED BY <2>1, <2>2, <2>3 DEF TimerKept
<1> QED BY <1>1, <1>2, TouchInvariant, PTL DEF Spec
-----------------------------------------------------------------------------
(* The hidden keyboard.                                                    *)

\* No waiting finger is given to the keyboard's surface.
NoneGiven(P) ==
  \A j \in Fingers :
    ~(points[j].phase = "captured" /\ P[j].phase = "delivered" /\ P[j].surface = "osk")

\* What a step has to do for the hidden keyboard.
Unheard ==
  /\ told' = "osk" => ui'.keyboard
  /\ NoneGiven(points') \/ ui'.keyboard

LEMMA NoneGivenWith ==
  ASSUME NEW P \in [Fingers -> Point], NoneGiven(P), NEW v, points' = With(P, v)
  PROVE  NoneGiven(points')
BY Refreshed DEF NoneGiven, Alike

LEMMA NoneGivenFacts ==
  ASSUME IInv
  PROVE  /\ NoneGiven(points)
         /\ \A i \in Fingers, p \in Point :
              points[i].phase # "captured" \/ p.phase # "delivered" =>
                /\ [points EXCEPT ![i] = p] \in [Fingers -> Point]
                /\ NoneGiven([points EXCEPT ![i] = p])
BY DEF IInv, TypeOK, NoneGiven

LEMMA ForgetUnheard ==
  ASSUME IInv, NEW i, NEW v, Forget(i, v)
  PROVE  NoneGiven(points')
BY NoneGivenFacts, NoneGivenWith DEF Forget, IInv, TypeOK

LEMMA DeliverUnheard ==
  ASSUME IInv, NEW i \in Fingers, i \notin fingers, NEW s \in Alive, NEW v, Deliver(i, s, v)
  PROVE  NoneGiven(points')
<1> DEFINE p == [Plain EXCEPT !.phase = "delivered", !.surface = s, !.listens = s]
<1>1. p \in Point
  BY AliveFacts DEF IInv, Plain, Off, Point, Hitboxes, LiveHitboxes, Edges
<1>2. points' = With([points EXCEPT ![i] = p], v)
  BY DEF Deliver
<1>3. points[i].phase # "captured"
  BY ComesDown
<1> HIDE DEF p
<1> QED BY <1>1, <1>2, <1>3, NoneGivenFacts, NoneGivenWith

LEMMA CaptureUnheard ==
  ASSUME IInv, NEW i \in Fingers, NEW t, t.hitbox \in LiveHitboxes,
         NEW s \in Alive \cup {None}, NEW e \in Edges, NEW v, Capture(i, t, s, e, v)
  PROVE  NoneGiven(points')
<1> DEFINE p == [phase |-> "captured", surface |-> s, listens |-> s,
                 hitbox |-> t.hitbox, edge |-> e, triggered |-> FALSE, late |-> FALSE]
<1>1. p \in Point /\ p.phase # "delivered"
  BY AliveFacts DEF IInv, Point, Hitboxes
<1>2. points' = With([points EXCEPT ![i] = p], v)
  BY DEF Capture
<1> HIDE DEF p
<1> QED BY <1>1, <1>2, NoneGivenFacts, NoneGivenWith

LEMMA PinchUnheard ==
  ASSUME IInv, NEW i \in Fingers, i \notin fingers, NEW j \in Fingers, NEW t,
         PinchPartner(i, j, t), NEW u, PinchBegins(i, j, u)
  PROVE  NoneGiven(points')
<1> DEFINE P == [points EXCEPT ![i] = Triggered(Plain), ![j] = Triggered(@)]
<1>1. \A p \in Point : Triggered(p) \in Point /\ Triggered(p).phase = p.phase
  BY TriggeredFacts
<1>2. i # j /\ P \in [Fingers -> Point]
      /\ P[i] = Triggered(Plain) /\ P[j] = Triggered(points[j])
      /\ \A k \in Fingers \ {i, j} : P[k] = points[k]
  BY <1>1, OffFacts DEF PinchPartner, IInv, TypeOK
<1>3. points' = With(P, ui')
  BY DEF PinchBegins
<1> HIDE DEF P
<1>4. NoneGiven(P)
  BY <1>1, <1>2, OffFacts DEF NoneGiven, IInv, TypeOK
<1> QED BY <1>2, <1>3, <1>4, NoneGivenWith

LEMMA TouchDownUnheard ==
  ASSUME IInv, NEW i \in Fingers, TouchDown(i)
  PROVE  Unheard
<1>1. i \notin fingers /\ told' = None /\ None # "osk"
  BY DEF TouchDown, Surfaces, Shell
<1>2. PICK t \in Landing, u \in {ui, [ui EXCEPT !.audit = FALSE]} :
        LET target == IF u.audit /\ t.surface \in Shell THEN None ELSE t.surface IN
        \/ \E j \in Fingers : PinchPartner(i, j, t) /\ PinchBegins(i, j, u)
        \/ /\ \A j \in Fingers : ~PinchPartner(i, j, t)
           /\ IF pinch # {} THEN Forget(i, u) ELSE Dismissals(i, t, target, u)
  BY DEF TouchDown
<1>3. /\ toplevels \subseteq Alive /\ t.surface \in Alive \cup {None}
      /\ t.hitbox \in LiveHitboxes /\ t.edge \in Edges
  BY TouchAssumption DEF Landing, Alive, Edges
<1>4. ASSUME NEW target \in Alive \cup {None}, Route(i, t, target, u)
      PROVE  NoneGiven(points')
  <2>1. CASE \E e \in Edges : Capture(i, t, target, e, u)
    BY <1>3, <2>1, CaptureUnheard
  <2>2. CASE \E s \in Alive : DeliverAndFocus(i, s, u)
    BY <1>1, <2>2, DeliverUnheard DEF DeliverAndFocus
  <2>3. CASE Forget(i, u)
    BY <2>3, ForgetUnheard
  <2>4. target \in Shell \cup Windows => target \in Alive
    BY TouchAssumption DEF Surfaces
  <2>5. \/ Capture(i, t, target, IF u.audit /\ t.edge # "left" THEN "none" ELSE t.edge, u)
        \/ Capture(i, t, target, "none", u)
        \/ Capture(i, t, target, HitboxEdge(t.hitbox), u)
        \/ \E w \in toplevels : DeliverAndFocus(i, w, u)
        \/ target \in Shell \cup Windows /\ DeliverAndFocus(i, target, u)
        \/ Forget(i, u)
    BY <1>4 DEF Route
  <2> QED BY <1>3, <2>1, <2>2, <2>3, <2>4, <2>5 DEF HitboxEdge, Edges
<1>5. ASSUME NEW target \in Alive \cup {None}, Dismissals(i, t, target, u)
      PROVE  NoneGiven(points')
  <2>1. \/ \E v : Forget(i, v)
        \/ target # None /\ Deliver(i, target, u)
        \/ Route(i, t, target, u)
    BY <1>5 DEF Dismissals
  <2> QED BY <1>1, <1>4, <2>1, ForgetUnheard, DeliverUnheard
<1>6. NoneGiven(points')
  BY <1>1, <1>2, <1>3, <1>5, PinchUnheard, ForgetUnheard
<1> QED BY <1>1, <1>6 DEF Unheard

\* A lifted touch is told to the keyboard only while that shows, and no
\* replay hides it.
LEMMA LiftedUnheard ==
  ASSUME TypeOK, NEW p, NEW h, NEW r \in Lifted(p, h), r.to = "osk"
  PROVE  r.ui.keyboard
<1> DEFINE replayed == [to |-> ReplaySurface(p, ui), ui |-> FocusUi(ui, p.surface)]
           nowhere(v) == [to |-> None, ui |-> v]
           reserved ==
             CASE h = "osk" /\ shell = "up" ->
                    [to |-> IF ui.keyboard THEN "osk" ELSE "launcher", ui |-> ui]
               [] h = "scrim" /\ shell = "up" -> [to |-> "launcher", ui |-> ui]
               [] OTHER -> nowhere(ui)
<1>1. None # "osk"
  BY DEF Surfaces, Shell
<1>2. replayed.to = "osk" => replayed.ui.keyboard
  BY DEF ReplaySurface, FocusUi, TypeOK, Ui, UiFlags
<1>3. \A v : nowhere(v).to # "osk"
  BY <1>1
<1>4. reserved.to = "osk" => reserved.ui.keyboard
  BY <1>1
<1>5. r \in {nowhere(v) : v \in EdgeAction(p.edge)} \cup {replayed, reserved, nowhere(ui)}
  BY DEF Lifted
<1> HIDE DEF replayed, reserved, nowhere
<1> QED BY <1>2, <1>3, <1>4, <1>5

LEMMA TouchUpUnheard ==
  ASSUME IInv, NEW i \in Fingers, TouchUp(i)
  PROVE  Unheard
<1>1. None # "osk" /\ Off \in Point /\ Off.phase # "delivered"
  BY OffFacts DEF Surfaces, Shell
<1>2. CASE PinchEnds(i)
  BY <1>1, <1>2 DEF PinchEnds, Unheard, NoneGiven
<1>3. CASE CapturedEnds(i)
  <2> DEFINE P == [points EXCEPT ![i] = Off]
  <2>0. PICK h \in Reads(points[i]) : \E r \in Lifted(points[i], h) :
          ui' = r.ui /\ told' = r.to /\ points' = With(P, r.ui)
    BY <1>3 DEF CapturedEnds
  <2>1. PICK r \in Lifted(points[i], h) :
          ui' = r.ui /\ told' = r.to /\ points' = With(P, r.ui)
    BY <2>0
  <2>2. P \in [Fingers -> Point] /\ NoneGiven(P)
    BY <1>1, NoneGivenFacts
  <2> HIDE DEF P
  <2>3. NoneGiven(points')
    BY <2>1, <2>2, NoneGivenWith
  <2>4. told' = "osk" => ui'.keyboard
    BY <2>1, LiftedUnheard DEF IInv
  <2> QED BY <2>3, <2>4 DEF Unheard
<1>4. CASE OtherEnds(i)
  BY <1>1, <1>4, NoneGivenFacts DEF OtherEnds, Unheard
<1>5. CASE told' = None /\ points' = points
  BY <1>1, <1>5, NoneGivenFacts DEF Unheard
<1> QED BY <1>2, <1>3, <1>4, <1>5 DEF TouchUp

\* Whoever is replayed to the keyboard is replayed while it shows, before or
\* after the replays of this timeout.
LEMMA GestureTimeoutUnheard ==
  ASSUME IInv, GestureTimeout
  PROVE  Unheard
<1>1. PICK R \in SUBSET Tracked, u \in Ui :
        /\ u = [ui EXCEPT !.keyboard =
                  @ \/ \E i \in R : points[i].surface \in AutoShow /\ ~ui.launcher]
        /\ \E v \in {ui, u} :
             points' = With([i \in Fingers |->
                         IF i \in R THEN Replayed(points[i], v) ELSE points[i]], u)
        /\ ui' = u /\ told' = None
  BY DEF GestureTimeout
<1>2. PICK v \in {ui, u} :
        points' = With([i \in Fingers |->
                    IF i \in R THEN Replayed(points[i], v) ELSE points[i]], u)
  BY <1>1
<1> DEFINE P == [i \in Fingers |->
                   IF i \in R THEN Replayed(points[i], v) ELSE points[i]]
<1>3. v.keyboard => u.keyboard
  BY <1>1, <1>2 DEF IInv, TypeOK, Ui, UiFlags
<1>4. \A i \in Fingers : Replayed(points[i], v).surface = ReplaySurface(points[i], v)
  BY DEF Replayed, Plain, Off
<1>5. NoneGiven(P) \/ v.keyboard
  BY <1>4 DEF NoneGiven, ReplaySurface
<1>6. points' \in {Staled(P), P}
  BY <1>2 DEF With
<1>7. \A j \in Fingers : /\ Staled(P)[j].phase = P[j].phase
                         /\ Staled(P)[j].surface = P[j].surface
  <2> SUFFICES ASSUME NEW j \in Fingers
               PROVE  /\ Staled(P)[j].phase = P[j].phase
                      /\ Staled(P)[j].surface = P[j].surface
    OBVIOUS
  <2>1. Staled(P)[j] \in {P[j], [P[j] EXCEPT !.hitbox = "stale"]}
    BY DEF Staled
  <2>2. {"phase", "surface"} \subseteq DOMAIN P[j]
    BY DEF Replayed, Plain, Off, IInv, TypeOK, Point
  <2> HIDE DEF P
  <2> QED BY <2>1, <2>2
<1> HIDE DEF P
<1>8. NoneGiven(points') \/ v.keyboard
  BY <1>5, <1>6, <1>7 DEF NoneGiven
<1>9. None # "osk"
  BY DEF Surfaces, Shell
<1> QED BY <1>1, <1>3, <1>8, <1>9 DEF Unheard

LEMMA OtherUnheard ==
  ASSUME IInv, Next, \A i \in Fingers : ~TouchDown(i) /\ ~TouchUp(i), ~GestureTimeout
  PROVE  Unheard
<1>1. None # "osk" /\ Off \in Point /\ Off.phase # "delivered"
  BY OffFacts DEF Surfaces, Shell
<1>2. ASSUME NEW i \in Fingers, SwipeEdge(i) \/ SwipeClosesDrawer(i) \/ TouchCancel(i)
      PROVE  Unheard
  <2> DEFINE q == IF SwipeEdge(i) THEN Triggered(points[i]) ELSE Off
             P == [points EXCEPT ![i] = q]
  <2>1. points[i] \in Point
    BY DEF IInv, TypeOK
  <2>2. /\ Triggered(points[i]) \in Point
        /\ Triggered(points[i]).phase = points[i].phase
    BY <2>1 DEF Triggered, Point, Hitboxes, LiveHitboxes, Edges
  <2>3. q \in Point /\ (points[i].phase # "captured" \/ q.phase # "delivered")
    BY <1>1, <2>2
  <2>4. points' \in {P, With(P, ui')} /\ told' = None
    BY <1>2 DEF SwipeEdge, SwipeClosesDrawer, TouchCancel
  <2> HIDE DEF q
  <2>5. P \in [Fingers -> Point] /\ NoneGiven(P)
    BY <2>3, NoneGivenFacts
  <2> HIDE DEF P
  <2>6. NoneGiven(points')
    BY <2>4, <2>5, NoneGivenWith
  <2> QED BY <1>1, <2>4, <2>6 DEF Unheard
<1>3. ASSUME NEW i \in Fingers, Deadline(i) PROVE Unheard
  BY <1>1, <1>3 DEF Deadline, Unheard, NoneGiven, IInv, TypeOK, Point
<1>4. ASSUME NEW gone, SurfacesDestroyed(gone) PROVE Unheard
  BY <1>1, <1>4 DEF SurfacesDestroyed, Unheard, NoneGiven
<1>5. CASE UiChanges \/ HitboxRefresh
  <2>1. \A j \in Fingers : Staled(points)[j].phase = points[j].phase
    BY DEF Staled, IInv, TypeOK, Point
  <2>2. points' \in {points, Staled(points)} /\ told' = None
    BY <1>5 DEF UiChanges, HitboxRefresh, With
  <2> QED BY <1>1, <2>1, <2>2 DEF Unheard, NoneGiven
<1>6. CASE told' = None /\ points' = points
  BY <1>1, <1>6, NoneGivenFacts DEF Unheard
<1> QED BY <1>2, <1>3, <1>4, <1>5, <1>6
        DEF Next, MoveCaptured, NewWindow, DestroyWindow, ShellUp, ShellGone

(***************************************************************************)
(* For any number of fingers, the hidden keyboard's surface hears of no    *)
(* replayed touch: not from a lift, not from the gesture timeout           *)
(* (input_touch.c:467-520).                                                *)
(***************************************************************************)
THEOREM HiddenKeyboardSafe == Spec => HiddenKeyboardHearsNothing
<1> DEFINE Hears ==
      /\ told' = "osk" => ui'.keyboard
      /\ \A i \in Fingers :
           points[i].phase = "captured" /\ points'[i].phase = "delivered"
             /\ points'[i].surface = "osk" => ui'.keyboard
<1>1. IInv /\ [Next]_vars => [Hears]_vars
  <2> SUFFICES ASSUME IInv, Next PROVE Hears
    OBVIOUS
  <2>1. Unheard
    BY TouchDownUnheard, TouchUpUnheard, GestureTimeoutUnheard, OtherUnheard
  <2> QED BY <2>1 DEF Unheard, NoneGiven
<1> QED BY <1>1, TouchInvariant, PTL DEF Spec, HiddenKeyboardHearsNothing
-----------------------------------------------------------------------------
(* What is left of a sequence.  SetInduction is induction on the natural   *)
(* numbers from the least element of what a set leaves out.                *)

\* Induction on the natural numbers, for a set of them.
LEMMA SetInduction ==
  ASSUME NEW T, 0 \in T, \A n \in Nat : n \in T => n + 1 \in T
  PROVE  Nat \subseteq T
<1> SUFFICES ASSUME Nat \ T # {} PROVE FALSE
  OBVIOUS
<1>1. PICK x \in Nat \ T : \A y \in Nat \ T : <<y, x>> \notin OpToRel(<, Nat)
  BY WFMin, NatLessThanWellFounded
<1>2. \A y \in Nat \ T : ~(y < x)
  BY <1>1 DEF OpToRel
<1>3. x - 1 \in Nat \ T
  OBVIOUS
<1> QED BY <1>2, <1>3

\* One step of the recursion that Without is, f being what it has built.
Left(f, q, C, n) ==
  IF n = 0 THEN <<>> ELSE IF q[n] \in C THEN f[n - 1] ELSE Append(f[n - 1], q[n])

LEMMA LeftExists ==
  ASSUME NEW q, NEW C, NEW N \in Nat
  PROVE  \E f : f = [n \in 0..N |-> Left(f, q, C, n)]
<1> DEFINE T == {m \in Nat : \E f : f = [n \in 0..m |-> Left(f, q, C, n)]}
<1>1. 0 \in T
  <2> DEFINE f == [n \in 0..0 |-> <<>>]
  <2>1. f = [n \in 0..0 |-> Left(f, q, C, n)]
    BY DEF Left
  <2> HIDE DEF f
  <2> QED BY <2>1
<1>2. ASSUME NEW m \in Nat, m \in T PROVE m + 1 \in T
  <2>1. PICK f : f = [n \in 0..m |-> Left(f, q, C, n)]
    BY <1>2
  <2> DEFINE g == [n \in 0..(m + 1) |->
                     IF n = m + 1 THEN Left(f, q, C, n) ELSE f[n]]
  <2>2. ASSUME NEW n \in 0..(m + 1) PROVE g[n] = Left(g, q, C, n)
    <3>1. n # 0 => n - 1 \in 0..m /\ g[n - 1] = f[n - 1]
      OBVIOUS
    <3>2. g[n] = Left(f, q, C, n)
      BY <2>1
    <3> HIDE DEF g
    <3> QED BY <3>1, <3>2 DEF Left
  <2>3. g = [n \in 0..(m + 1) |-> g[n]]
    OBVIOUS
  <2> HIDE DEF g
  <2>4. g = [n \in 0..(m + 1) |-> Left(g, q, C, n)]
    BY <2>2, <2>3
  <2> QED BY <2>4
<1> HIDE DEF T
<1>3. Nat \subseteq T
  BY <1>1, <1>2, SetInduction
<1> QED BY <1>3 DEF T

\* The sequence that is left of q holds members of q outside of C, loses one
\* when it begins with a member of C, and begins as before when it does not.
LEMMA WithoutFacts ==
  ASSUME NEW S, NEW q \in Seq(S), NEW C
  PROVE  /\ Without(q, C) \in Seq(S)
         /\ \A k \in DOMAIN Without(q, C) :
              Without(q, C)[k] \notin C /\ \E l \in DOMAIN q : q[l] = Without(q, C)[k]
         /\ q # <<>> /\ Head(q) \in C => Len(Without(q, C)) < Len(q)
         /\ q # <<>> /\ Head(q) \notin C =>
              Without(q, C) # <<>> /\ Head(Without(q, C)) = Head(q)
<1> DEFINE N == Len(q)
           left == CHOOSE f : f = [n \in 0..N |-> Left(f, q, C, n)]
<1>0. N \in Nat
  OBVIOUS
<1>1. left = [n \in 0..N |-> Left(left, q, C, n)]
  BY <1>0, LeftExists
<1>2. Without(q, C) = left[N]
  BY DEF Without, Left
<1> HIDE DEF left
<1>3. /\ left[0] = <<>>
      /\ \A n \in Nat : n < N =>
           left[n + 1] = IF q[n + 1] \in C THEN left[n] ELSE Append(left[n], q[n + 1])
  <2>1. \A n \in 0..N : left[n] = Left(left, q, C, n)
    BY <1>1
  <2>2. 0 \in 0..N /\ \A n \in Nat : n < N => n + 1 \in 0..N /\ n + 1 # 0 /\ (n + 1) - 1 = n
    BY <1>0
  <2>3. left[0] = <<>>
    BY <2>1, <2>2 DEF Left
  <2>4. ASSUME NEW n \in Nat, n < N
        PROVE  left[n + 1] = IF q[n + 1] \in C THEN left[n] ELSE Append(left[n], q[n + 1])
    <3>1. left[n + 1] = Left(left, q, C, n + 1)
      BY <2>1, <2>2, <2>4
    <3> QED BY <2>2, <2>4, <3>1 DEF Left
  <2> QED BY <2>3, <2>4
<1> DEFINE Ok(n) ==
     /\ left[n] \in Seq(S)
     /\ \A k \in DOMAIN left[n] : left[n][k] \notin C /\ \E l \in DOMAIN q : q[l] = left[n][k]
     /\ Len(left[n]) <= n
     /\ n # 0 /\ q[1] \in C => Len(left[n]) < n
     /\ n # 0 /\ q[1] \notin C => left[n] # <<>> /\ left[n][1] = q[1]
     T == {n \in Nat : n <= N => Ok(n)}
<1>4. 0 \in T
  <2>1. left[0] = <<>>
    BY <1>3
  <2>2. <<>> \in Seq(S) /\ Len(<<>>) = 0 /\ DOMAIN <<>> = {}
    OBVIOUS
  <2>3. Ok(0)
    BY <2>1, <2>2
  <2> QED BY <2>3
<1>5. ASSUME NEW n \in Nat, n \in T PROVE n + 1 \in T
  <2> SUFFICES ASSUME n < N PROVE Ok(n + 1)
    BY <1>0
  <2>1. Ok(n)
    BY <1>0, <1>5
  <2>2. n + 1 \in DOMAIN q /\ q[n + 1] \in S
    BY <1>0
  <2>3. CASE q[n + 1] \in C
    BY <1>0, <1>3, <2>1, <2>2, <2>3
  <2>4. CASE q[n + 1] \notin C
    <3>1. left[n + 1] = Append(left[n], q[n + 1])
      BY <1>3, <2>4
    <3>2. /\ left[n + 1] \in Seq(S) /\ Len(left[n + 1]) = Len(left[n]) + 1
          /\ \A k \in 1..Len(left[n]) : left[n + 1][k] = left[n][k]
          /\ left[n + 1][Len(left[n]) + 1] = q[n + 1]
          /\ DOMAIN left[n + 1] = 1..(Len(left[n]) + 1)
          /\ DOMAIN left[n] = 1..Len(left[n])
      BY <2>1, <2>2, <3>1
    <3>3. ASSUME NEW k \in DOMAIN left[n + 1]
          PROVE  left[n + 1][k] \notin C /\ \E l \in DOMAIN q : q[l] = left[n + 1][k]
      <4>1. CASE k = Len(left[n]) + 1
        BY <2>2, <2>4, <3>2, <4>1
      <4>2. CASE k \in 1..Len(left[n])
        BY <2>1, <3>2, <4>2
      <4> QED BY <2>1, <3>2, <4>1, <4>2
    <3>4. Len(left[n + 1]) <= n + 1 /\ Len(left[n]) \in Nat /\ n + 1 # 0
      BY <2>1, <3>2
    <3>5. q[1] \in C => Len(left[n + 1]) < n + 1
      BY <2>1, <2>4, <3>2, <3>4
    <3>6. q[1] \notin C => left[n + 1] # <<>> /\ left[n + 1][1] = q[1]
      <4>1. CASE n = 0
        BY <2>1, <3>2, <3>4, <4>1
      <4>2. CASE n # 0
        BY <2>1, <3>2, <3>4, <4>2
      <4> QED BY <4>1, <4>2
    <3> QED BY <3>2, <3>3, <3>4, <3>5, <3>6
  <2> QED BY <2>3, <2>4
<1> HIDE DEF T
<1>6. Nat \subseteq T
  BY <1>4, <1>5, SetInduction
<1>7. Ok(N)
  BY <1>0, <1>6 DEF T
<1> QED BY <1>0, <1>2, <1>7
-----------------------------------------------------------------------------
(* The streams of the seat.                                                *)

\* The client of s has no stream among q.
Clear(q, s) == \A k \in DOMAIN q : q[k] \notin ClientOf(s)

\* A delivered finger is the newest stream that its surface knows, or the
\* surface's client knows none of it; of a pinching finger it knows none.
SeatOK(p, q, pinched) ==
  p.phase = "delivered" =>
    Clear(q, p.surface) \/ (~pinched /\ q # <<>> /\ Head(q) = p.surface)

SeatInv ==
  /\ seat \in [Fingers -> Seq(Surfaces)]
  /\ \A j \in Fingers : SeatOK(points[j], seat[j], j \in pinch)

\* What a step has to do for finger j, whose point and streams are p and q
\* afterwards: LeavingIsTold and the invariant.
Fine(p, q, j) ==
  /\ SeatOK(p, q, j \in pinch')
  /\ points[j].phase = "delivered" /\ p.phase = "off"
       /\ seat[j] # <<>> /\ Head(seat[j]) = points[j].surface
       => Len(q) < Len(seat[j]) \/ SwipeClosesDrawer(j)

AllFine ==
  /\ seat' \in [Fingers -> Seq(Surfaces)]
  /\ \A j \in Fingers : Fine(points'[j], seat'[j], j)

LEMMA FineAlike ==
  ASSUME NEW p, NEW p2, Alike(p, p2), NEW q, NEW j, Fine(p2, q, j)
  PROVE  Fine(p, q, j)
BY DEF Fine, SeatOK, Alike

\* The finger keeps its phase, its surface and its streams.
LEMMA FineStays ==
  ASSUME SeatInv, NEW j \in Fingers, NEW p, Alike(p, points[j]),
         j \in pinch' => j \in pinch
  PROVE  Fine(p, seat[j], j)
BY DEF Fine, SeatOK, SeatInv, Alike

\* The finger is not delivered before and not after.
LEMMA FineElsewhere ==
  ASSUME NEW j, NEW p, p.phase # "delivered",
         points[j].phase # "delivered" \/ p.phase # "off", NEW q
  PROVE  Fine(p, q, j)
BY DEF Fine, SeatOK

\* The finger is delivered by this step, with a stream of its own.
LEMMA FineDelivered ==
  ASSUME SeatInv, NEW j \in Fingers, j \notin pinch', NEW s \in Surfaces,
         NEW p, p.phase = "delivered", p.surface = s
  PROVE  Fine(p, <<s>> \o seat[j], j) /\ <<s>> \o seat[j] \in Seq(Surfaces)
<1>1. seat[j] \in Seq(Surfaces) /\ <<s>> \in Seq(Surfaces)
  BY DEF SeatInv
<1>2. /\ <<s>> \o seat[j] \in Seq(Surfaces)
      /\ <<s>> \o seat[j] # <<>> /\ Head(<<s>> \o seat[j]) = s
  BY <1>1
<1> QED BY <1>2 DEF Fine, SeatOK

\* The client of a surface is the same for all of its surfaces.
Closed(C) == C \subseteq Surfaces /\ \A t \in C : ClientOf(t) \subseteq C

LEMMA ClientFacts ==
  /\ \A s \in Surfaces : s \in ClientOf(s) /\ Closed(ClientOf(s))
  /\ \A s, t \in Surfaces : t \in ClientOf(s) => s \in ClientOf(t)
  /\ Closed(Shell) /\ \A w \in Windows : Closed({w})
<1>1. \A s \in Surfaces : s \in ClientOf(s) /\ ClientOf(s) \subseteq Surfaces
  BY DEF ClientOf, SameClient
<1>2. \A s, t, r \in Surfaces : SameClient(t, s) /\ SameClient(r, t) => SameClient(r, s)
  BY DEF SameClient
<1>3. \A s, t \in Surfaces : SameClient(t, s) => SameClient(s, t)
  BY DEF SameClient
<1>4. \A t : \A w \in Windows : SameClient(t, w) => t = w
  BY DEF SameClient
<1>5. \A t : \A s \in Shell : SameClient(t, s) => t \in Shell
  BY DEF SameClient
<1> QED BY <1>1, <1>2, <1>3, <1>4, <1>5 DEF Closed, ClientOf, Surfaces

\* The streams of whole clients are cancelled.
LEMMA WithoutSeat ==
  ASSUME NEW q \in Seq(Surfaces), NEW C, Closed(C), NEW p, NEW pinched,
         p.surface \in Surfaces \cup {None}, p.phase = "delivered" => p.surface # None,
         SeatOK(p, q, pinched)
  PROVE  /\ Without(q, C) \in Seq(Surfaces)
         /\ SeatOK(p, Without(q, C), pinched)
         /\ p.surface \in C => Clear(Without(q, C), p.surface) \/ p.phase # "delivered"
         /\ q # <<>> /\ Head(q) \in C => Len(Without(q, C)) < Len(q)
<1> DEFINE s == p.surface
           r == Without(q, C)
<1>1. /\ r \in Seq(Surfaces)
      /\ \A k \in DOMAIN r : r[k] \notin C /\ \E l \in DOMAIN q : q[l] = r[k]
      /\ q # <<>> /\ Head(q) \in C => Len(r) < Len(q)
      /\ q # <<>> /\ Head(q) \notin C => r # <<>> /\ Head(r) = Head(q)
  BY WithoutFacts
<1> HIDE DEF r
<1>2. Clear(q, s) => Clear(r, s)
  BY <1>1 DEF Clear
<1>3. s \in C => Clear(r, s)
  BY <1>1 DEF Clear, Closed
<1>4. SeatOK(p, r, pinched)
  BY <1>1, <1>2, <1>3 DEF SeatOK
<1> QED BY <1>1, <1>3, <1>4 DEF r

\* What the invariants say of a finger.
LEMMA SeatFacts ==
  ASSUME IInv, SeatInv, NEW j \in Fingers
  PROVE  /\ seat[j] \in Seq(Surfaces)
         /\ points[j].surface \in Surfaces \cup {None}
         /\ points[j].phase = "delivered" => points[j].surface # None
         /\ SeatOK(points[j], seat[j], j \in pinch)
         /\ seat[j] # <<>> => Head(seat[j]) \in Surfaces
<1>1. PointOK(points[j], j \in fingers, j \in pinch, Alive)
  BY DEF IInv
<1>2. points[j] \in Point /\ seat[j] \in Seq(Surfaces)
  BY DEF IInv, TypeOK, SeatInv
<1>3. seat[j] # <<>> => Head(seat[j]) \in Surfaces
  BY <1>2
<1> QED BY <1>1, <1>2, <1>3 DEF PointOK, Point, SeatInv

\* A finger that is not of the pinch, while the streams of C are cancelled.
LEMMA FineWithout ==
  ASSUME IInv, SeatInv, NEW j \in Fingers, NEW p, Alike(p, points[j]), NEW C, Closed(C),
         j \in pinch' => j \in pinch
  PROVE  /\ Without(seat[j], C) \in Seq(Surfaces)
         /\ Fine(p, Without(seat[j], C), j)
<1>1. /\ Without(seat[j], C) \in Seq(Surfaces)
      /\ SeatOK(points[j], Without(seat[j], C), j \in pinch)
  BY SeatFacts, WithoutSeat
<1>2. SeatOK(p, Without(seat[j], C), j \in pinch')
  BY <1>1 DEF SeatOK, Alike
<1> QED BY <1>1, <1>2 DEF Fine, Alike

\* A finger leaves whose newest stream is among those that are cancelled.
LEMMA FineLeaves ==
  ASSUME IInv, SeatInv, NEW j \in Fingers, NEW p, p.phase = "off", NEW C, Closed(C),
         points[j].phase = "delivered" /\ seat[j] # <<>> => Head(seat[j]) \in C
  PROVE  /\ Without(seat[j], C) \in Seq(Surfaces)
         /\ Fine(p, Without(seat[j], C), j)
<1>1. /\ Without(seat[j], C) \in Seq(Surfaces)
      /\ seat[j] # <<>> /\ Head(seat[j]) \in C => Len(Without(seat[j], C)) < Len(seat[j])
  BY SeatFacts, WithoutSeat
<1> QED BY <1>1 DEF Fine, SeatOK

\* What seat_cancel leaves: nothing happens to a finger without a stream.
LEMMA CancelFacts ==
  ASSUME IInv, SeatInv, NEW i \in Fingers, seat' = SeatCancel(seat, i)
  PROVE  /\ seat' \in [Fingers -> Seq(Surfaces)]
         /\ seat[i] = <<>> => seat' = seat
         /\ seat[i] # <<>> =>
              /\ Closed(ClientOf(Head(seat[i])))
              /\ Head(seat[i]) \in ClientOf(Head(seat[i]))
              /\ \A j \in Fingers :
                   seat'[j] = Without(seat[j], ClientOf(Head(seat[i])))
<1>1. CASE seat[i] = <<>>
  BY <1>1 DEF SeatCancel, SeatInv
<1>2. CASE seat[i] # <<>>
  <2> DEFINE C == ClientOf(Head(seat[i]))
  <2>1. Closed(C) /\ Head(seat[i]) \in C
    BY <1>2, SeatFacts, ClientFacts
  <2>2. seat' = [j \in Fingers |-> Without(seat[j], C)]
    BY <1>2 DEF SeatCancel
  <2> HIDE DEF C
  <2>3. \A j \in Fingers : Without(seat[j], C) \in Seq(Surfaces)
    BY <2>1, SeatFacts, WithoutSeat
  <2> QED BY <1>2, <2>1, <2>2, <2>3 DEF C
<1> QED BY <1>1, <1>2

\* All that a finger that comes down can lead to.
ComingDown(i) ==
  \/ \E v : Forget(i, v)
  \/ pinch = {} /\ \E v : \E s \in Alive : Deliver(i, s, v)
  \/ \E t, v : \E s \in Alive \cup {None}, e \in Edges :
       t.hitbox \in LiveHitboxes /\ Capture(i, t, s, e, v)
  \/ \E j \in Fingers : \E t, v : PinchPartner(i, j, t) /\ PinchBegins(i, j, v)

LEMMA TouchDownCases ==
  ASSUME IInv, NEW i \in Fingers, TouchDown(i)
  PROVE  i \notin fingers /\ ComingDown(i)
<1>1. i \notin fingers
  BY DEF TouchDown
<1> SUFFICES ComingDown(i)
  BY <1>1
<1>2. PICK t \in Landing, u \in {ui, [ui EXCEPT !.audit = FALSE]} :
        LET target == IF u.audit /\ t.surface \in Shell THEN None ELSE t.surface IN
        \/ \E j \in Fingers : PinchPartner(i, j, t) /\ PinchBegins(i, j, u)
        \/ /\ \A j \in Fingers : ~PinchPartner(i, j, t)
           /\ IF pinch # {} THEN Forget(i, u) ELSE Dismissals(i, t, target, u)
  BY DEF TouchDown
<1>3. /\ toplevels \subseteq Alive /\ t.surface \in Alive \cup {None}
      /\ t.hitbox \in LiveHitboxes /\ t.edge \in Edges
  BY TouchAssumption DEF Landing, Alive, Edges
<1>4. ASSUME pinch = {}, NEW target \in Alive \cup {None}, Route(i, t, target, u)
      PROVE  ComingDown(i)
  <2>1. target \in Shell \cup Windows => target \in Alive
    BY TouchAssumption DEF Surfaces
  <2>2. \/ Capture(i, t, target, IF u.audit /\ t.edge # "left" THEN "none" ELSE t.edge, u)
        \/ Capture(i, t, target, "none", u)
        \/ Capture(i, t, target, HitboxEdge(t.hitbox), u)
        \/ \E w \in toplevels : DeliverAndFocus(i, w, u)
        \/ target \in Shell \cup Windows /\ DeliverAndFocus(i, target, u)
        \/ Forget(i, u)
    BY <1>4 DEF Route
  <2>3. "none" \in Edges /\ HitboxEdge(t.hitbox) \in Edges
    BY DEF Edges, HitboxEdge
  <2>4. CASE \E e \in Edges : Capture(i, t, target, e, u)
    BY <1>3, <2>4 DEF ComingDown
  <2>5. CASE \E s \in Alive : DeliverAndFocus(i, s, u)
    BY <1>4, <2>5 DEF DeliverAndFocus, ComingDown
  <2>6. CASE Forget(i, u)
    BY <2>6 DEF ComingDown
  <2> QED BY <1>3, <2>1, <2>2, <2>3, <2>4, <2>5, <2>6
<1>5. ASSUME pinch = {}, NEW target \in Alive \cup {None}, Dismissals(i, t, target, u)
      PROVE  ComingDown(i)
  <2>1. \/ \E v : Forget(i, v)
        \/ target # None /\ Deliver(i, target, u)
        \/ Route(i, t, target, u)
    BY <1>5 DEF Dismissals
  <2>2. CASE target # None /\ Deliver(i, target, u)
    BY <1>5, <2>2 DEF ComingDown
  <2>3. CASE \E v : Forget(i, v)
    BY <2>3 DEF ComingDown
  <2> QED BY <1>4, <1>5, <2>1, <2>2, <2>3
<1>6. CASE \E j \in Fingers : PinchPartner(i, j, t) /\ PinchBegins(i, j, u)
  BY <1>6 DEF ComingDown
<1>7. CASE Forget(i, u)
  BY <1>7 DEF ComingDown
<1>8. CASE pinch = {} /\ \E s \in Alive \cup {None} : Dismissals(i, t, s, u)
  BY <1>5, <1>8
<1> QED BY <1>2, <1>3, <1>6, <1>7, <1>8

LEMMA TouchDownFine ==
  ASSUME IInv, SeatInv, NEW i \in Fingers, TouchDown(i)
  PROVE  AllFine
<1>0. points \in [Fingers -> Point] /\ seat \in [Fingers -> Seq(Surfaces)]
  BY DEF IInv, TypeOK, SeatInv
<1>1. i \notin fingers /\ points[i].phase = "off" /\ points[i] \in Point
  BY TouchDownCases, ComesDown
<1>2. ASSUME NEW v, Forget(i, v) PROVE AllFine
  <2>1. \A j \in Fingers : Alike(points'[j], points[j])
    BY <1>0, <1>2, Refreshed DEF Forget
  <2>2. pinch' = pinch /\ seat' = seat
    BY <1>2 DEF Forget
  <2> QED BY <1>0, <2>1, <2>2, FineStays DEF AllFine
<1>3. ASSUME pinch = {}, NEW s \in Alive, NEW v, Deliver(i, s, v) PROVE AllFine
  <2> DEFINE p == [Plain EXCEPT !.phase = "delivered", !.surface = s, !.listens = s]
             P == [points EXCEPT ![i] = p]
  <2>1. p \in Point /\ p.phase = "delivered" /\ p.surface = s /\ s \in Surfaces
    BY AliveFacts DEF IInv, Plain, Off, Point, Hitboxes, LiveHitboxes, Edges
  <2>2. points' = With(P, v) /\ pinch' = {} /\ seat' = SeatDown(seat, i, s)
    BY <1>3 DEF Deliver
  <2> HIDE DEF p
  <2>3. /\ P \in [Fingers -> Point] /\ P[i] = p
        /\ \A j \in Fingers \ {i} : P[j] = points[j]
    BY <1>0, <2>1
  <2> HIDE DEF P
  <2>4. \A j \in Fingers : Alike(points'[j], P[j])
    BY <2>2, <2>3, Refreshed
  <2>5. seat' = [seat EXCEPT ![i] = <<s>> \o seat[i]]
    BY <2>2 DEF SeatDown
  <2>6. Fine(P[i], <<s>> \o seat[i], i) /\ <<s>> \o seat[i] \in Seq(Surfaces)
    BY <2>1, <2>2, <2>3, FineDelivered
  <2>7. ASSUME NEW j \in Fingers, j # i PROVE Fine(P[j], seat[j], j)
    <3>1. Alike(P[j], points[j])
      BY <2>3, <2>7 DEF Alike
    <3> QED BY <2>2, <3>1, FineStays
  <2>8. ASSUME NEW j \in Fingers PROVE Fine(points'[j], seat'[j], j)
    <3>1. Fine(P[j], seat'[j], j)
      BY <1>0, <2>5, <2>6, <2>7
    <3> QED BY <2>4, <3>1, FineAlike
  <2>9. seat' \in [Fingers -> Seq(Surfaces)]
    BY <1>0, <2>5, <2>6
  <2> QED BY <2>8, <2>9 DEF AllFine
<1>4. ASSUME NEW t, NEW v, NEW s \in Alive \cup {None}, NEW e \in Edges,
             t.hitbox \in LiveHitboxes, Capture(i, t, s, e, v)
      PROVE  AllFine
  <2> DEFINE p == [phase |-> "captured", surface |-> s, listens |-> s,
                   hitbox |-> t.hitbox, edge |-> e, triggered |-> FALSE, late |-> FALSE]
             P == [points EXCEPT ![i] = p]
  <2>1. p \in Point /\ p.phase = "captured"
    BY <1>4, AliveFacts DEF IInv, Point, Hitboxes
  <2>2. points' = With(P, v) /\ pinch' = pinch /\ seat' = seat
    BY <1>4 DEF Capture
  <2> HIDE DEF p
  <2>3. /\ P \in [Fingers -> Point] /\ P[i] = p
        /\ \A j \in Fingers \ {i} : P[j] = points[j]
    BY <1>0, <2>1
  <2> HIDE DEF P
  <2>4. \A j \in Fingers : Alike(points'[j], P[j])
    BY <2>2, <2>3, Refreshed
  <2>5. Fine(P[i], seat[i], i)
    BY <1>1, <2>1, <2>3, FineElsewhere
  <2>6. ASSUME NEW j \in Fingers, j # i PROVE Fine(P[j], seat[j], j)
    <3>1. Alike(P[j], points[j])
      BY <2>3, <2>6 DEF Alike
    <3> QED BY <2>2, <3>1, FineStays
  <2> QED BY <1>0, <2>2, <2>4, <2>5, <2>6, FineAlike DEF AllFine
<1>5. ASSUME NEW j \in Fingers, NEW t, NEW v, PinchPartner(i, j, t), PinchBegins(i, j, v)
      PROVE  AllFine
  <2> DEFINE P == [points EXCEPT ![i] = Triggered(Plain), ![j] = Triggered(@)]
  <2>1. i # j /\ pinch = {} /\ points[j].phase = "delivered"
    BY <1>5 DEF PinchPartner
  <2>2. \A p \in Point : /\ Triggered(p) \in Point /\ Triggered(p).phase = p.phase
                          /\ Triggered(p).surface = p.surface
    BY TriggeredFacts
  <2>3. /\ P \in [Fingers -> Point] /\ P[i] = Triggered(Plain)
        /\ P[j] = Triggered(points[j])
        /\ \A k \in Fingers \ {i, j} : P[k] = points[k]
    BY <1>0, <2>1, <2>2, OffFacts
  <2>4. points' = With(P, ui') /\ seat' = SeatCancel(seat, j) /\ pinch' = {i, j}
    BY <1>5 DEF PinchBegins
  <2> HIDE DEF P
  <2>5. \A k \in Fingers : Alike(points'[k], P[k])
    BY <2>3, <2>4, Refreshed
  <2> DEFINE C == ClientOf(Head(seat[j]))
  <2>6. /\ seat' \in [Fingers -> Seq(Surfaces)]
        /\ seat[j] = <<>> => seat' = seat
        /\ seat[j] # <<>> => /\ Closed(C) /\ Head(seat[j]) \in C
                            /\ \A k \in Fingers : seat'[k] = Without(seat[k], C)
    BY <2>4, CancelFacts
  <2> HIDE DEF C
  <2>7. Fine(P[i], seat'[i], i)
    BY <1>1, <2>2, <2>3, OffFacts, FineElsewhere
  <2>8. Fine(P[j], seat'[j], j)
    <3>1. P[j].phase = "delivered" /\ P[j].surface = points[j].surface
      BY <1>0, <2>1, <2>2, <2>3
    <3>2. Clear(seat'[j], points[j].surface)
      <4>1. CASE seat[j] = <<>>
        BY <2>6, <4>1 DEF Clear
      <4>2. CASE seat[j] # <<>>
        <5>1. seat'[j] = Without(seat[j], C)
          BY <2>6, <4>2
        <5>2. points[j].surface \in C => Clear(Without(seat[j], C), points[j].surface)
          BY <2>1, <2>6, <4>2, SeatFacts, WithoutSeat
        <5>3. Head(seat[j]) = points[j].surface => points[j].surface \in C
          BY <2>6, <4>2
        <5>4. Clear(seat[j], points[j].surface) => Clear(Without(seat[j], C), points[j].surface)
          <6>1. \A k \in DOMAIN Without(seat[j], C) :
                   \E l \in DOMAIN seat[j] : seat[j][l] = Without(seat[j], C)[k]
            BY SeatFacts, WithoutFacts
          <6> QED BY <6>1 DEF Clear
        <5>5. Clear(seat[j], points[j].surface) \/ Head(seat[j]) = points[j].surface
          BY <2>1, SeatFacts DEF SeatOK
        <5> QED BY <5>1, <5>2, <5>3, <5>4, <5>5
      <4> QED BY <4>1, <4>2
    <3> QED BY <3>1, <3>2 DEF Fine, SeatOK
  <2>9. ASSUME NEW k \in Fingers \ {i, j} PROVE Fine(P[k], seat'[k], k)
    <3>1. Alike(P[k], points[k]) /\ k \notin pinch'
      BY <2>3, <2>4 DEF Alike
    <3>2. Fine(P[k], seat[k], k)
      BY <3>1, FineStays
    <3>3. seat[j] # <<>> => Fine(P[k], Without(seat[k], C), k)
      BY <2>6, <3>1, FineWithout
    <3> QED BY <2>6, <3>2, <3>3
  <2>10. \A k \in Fingers : Fine(P[k], seat'[k], k)
    BY <2>7, <2>8, <2>9
  <2> QED BY <2>5, <2>6, <2>10, FineAlike DEF AllFine
<1> QED BY TouchDownCases, <1>2, <1>3, <1>4, <1>5 DEF ComingDown

\* A pinching finger that leaves is not told, and its surface waits for
\* nothing: it has been cancelled when the pinch began.
LEMMA FinePinchEnds ==
  ASSUME IInv, SeatInv, NEW j \in Fingers, j \in pinch, NEW p, p.phase = "off"
  PROVE  Fine(p, seat[j], j)
<1>1. points[j].phase = "delivered" => Clear(seat[j], points[j].surface)
  BY SeatFacts DEF SeatOK
<1>2. ASSUME points[j].phase = "delivered", seat[j] # <<>>
      PROVE  Head(seat[j]) # points[j].surface
  <2>1. points[j].surface \in Surfaces /\ 1 \in DOMAIN seat[j] /\ Head(seat[j]) = seat[j][1]
    BY <1>2, SeatFacts
  <2>2. points[j].surface \in ClientOf(points[j].surface)
    BY <2>1, ClientFacts
  <2> QED BY <1>1, <1>2, <2>1, <2>2 DEF Clear
<1> QED BY <1>2 DEF Fine, SeatOK

LEMMA TouchUpFine ==
  ASSUME IInv, SeatInv, NEW i \in Fingers, TouchUp(i)
  PROVE  AllFine
<1>0. /\ points \in [Fingers -> Point] /\ seat \in [Fingers -> Seq(Surfaces)]
      /\ Off \in Point /\ Off.phase = "off"
      /\ \A j \in Fingers : Alike(points[j], points[j])
  BY OffFacts DEF IInv, TypeOK, SeatInv, Alike
<1>1. CASE PinchEnds(i)
  <2>1. /\ pinch' = {} /\ seat' = seat
        /\ \A j \in Fingers : points'[j] = IF j \in pinch THEN Off ELSE points[j]
    BY <1>1 DEF PinchEnds
  <2>2. ASSUME NEW j \in Fingers PROVE Fine(points'[j], seat[j], j)
    BY <1>0, <2>1, FinePinchEnds, FineStays
  <2> QED BY <1>0, <2>1, <2>2 DEF AllFine
<1>2. CASE CapturedEnds(i)
  <2> DEFINE P == [points EXCEPT ![i] = Off]
  <2>1. pinch' = pinch /\ seat' = seat /\ points[i].phase = "captured"
        /\ \E v : points' = With(P, v)
    BY <1>2 DEF CapturedEnds
  <2>2. P \in [Fingers -> Point] /\ P[i] = Off /\ \A j \in Fingers \ {i} : P[j] = points[j]
    BY <1>0
  <2> HIDE DEF P
  <2>3. \A j \in Fingers : Alike(points'[j], P[j])
    BY <2>1, <2>2, Refreshed
  <2>4. Fine(P[i], seat[i], i)
    BY <1>0, <2>1, <2>2, FineElsewhere
  <2>5. \A j \in Fingers \ {i} : Fine(P[j], seat[j], j)
    BY <1>0, <2>1, <2>2, FineStays
  <2> QED BY <1>0, <2>1, <2>3, <2>4, <2>5, FineAlike DEF AllFine
<1>3. CASE OtherEnds(i)
  <2>1. pinch' = pinch /\ points' = [points EXCEPT ![i] = Off]
        /\ seat' = IF points[i].phase = "delivered" THEN SeatUp(seat, i) ELSE seat
    BY <1>3 DEF OtherEnds
  <2>2. seat[i] # <<>> => Tail(seat[i]) \in Seq(Surfaces) /\ Len(Tail(seat[i])) < Len(seat[i])
    BY <1>0
  <2>3. /\ \A j \in Fingers \ {i} : seat'[j] = seat[j]
        /\ points[i].phase = "delivered" /\ seat[i] # <<>> => seat'[i] = Tail(seat[i])
        /\ seat' \in [Fingers -> Seq(Surfaces)]
    BY <1>0, <2>1, <2>2 DEF SeatUp
  <2>4. Fine(points'[i], seat'[i], i)
    BY <1>0, <2>1, <2>2, <2>3 DEF Fine, SeatOK
  <2>5. \A j \in Fingers \ {i} : points'[j] = points[j]
    BY <1>0, <2>1
  <2>6. \A j \in Fingers \ {i} : Fine(points'[j], seat'[j], j)
    BY <1>0, <2>1, <2>3, <2>5, FineStays
  <2> QED BY <2>3, <2>4, <2>6 DEF AllFine
<1>4. CASE UNCHANGED <<points, pinch, seat>>
  BY <1>0, <1>4, FineStays DEF AllFine
<1> QED BY <1>1, <1>2, <1>3, <1>4 DEF TouchUp

LEMMA TouchCancelFine ==
  ASSUME IInv, SeatInv, NEW i \in Fingers, TouchCancel(i)
  PROVE  AllFine
<1> DEFINE C == ClientOf(Head(seat[i]))
<1>0. /\ points \in [Fingers -> Point] /\ seat \in [Fingers -> Seq(Surfaces)]
      /\ Off \in Point /\ Off.phase = "off"
      /\ \A j \in Fingers : Alike(points[j], points[j])
  BY OffFacts DEF IInv, TypeOK, SeatInv, Alike
<1>1. pinch' = pinch /\ points' = [points EXCEPT ![i] = Off]
  BY DEF TouchCancel
<1>2. points'[i] = Off /\ \A j \in Fingers \ {i} : points'[j] = points[j]
  BY <1>0, <1>1
<1>3. CASE points[i].phase # "delivered" \/ seat[i] = <<>>
  <2>1. seat' = seat
    BY <1>3 DEF TouchCancel, SeatCancel
  <2>2. Fine(points'[i], seat[i], i)
    BY <1>0, <1>2, <1>3 DEF Fine, SeatOK
  <2>3. \A j \in Fingers \ {i} : Fine(points'[j], seat[j], j)
    BY <1>0, <1>1, <1>2, FineStays
  <2> QED BY <1>0, <2>1, <2>2, <2>3 DEF AllFine
<1>4. CASE points[i].phase = "delivered" /\ seat[i] # <<>>
  <2>1. seat' = SeatCancel(seat, i)
    BY <1>4 DEF TouchCancel
  <2>2. /\ seat' \in [Fingers -> Seq(Surfaces)] /\ Closed(C) /\ Head(seat[i]) \in C
        /\ \A j \in Fingers : seat'[j] = Without(seat[j], C)
    BY <1>4, <2>1, CancelFacts
  <2> HIDE DEF C
  <2>3. Fine(points'[i], Without(seat[i], C), i)
    BY <1>0, <1>2, <2>2, FineLeaves
  <2>4. \A j \in Fingers \ {i} : Fine(points'[j], Without(seat[j], C), j)
    BY <1>0, <1>1, <1>2, <2>2, FineWithout
  <2> QED BY <2>2, <2>3, <2>4 DEF AllFine
<1> QED BY <1>3, <1>4

LEMMA DestroyedFine ==
  ASSUME IInv, SeatInv, NEW gone, Closed(gone), SurfacesDestroyed(gone)
  PROVE  AllFine
<1> DEFINE D == {i \in Fingers : Destroyed(i, gone)}
           cancelled ==
             {s \in Surfaces : \E i \in D : seat[i] # <<>> /\ s \in ClientOf(Head(seat[i]))}
           C == cancelled \cup gone
<1>0. /\ Off.phase = "off" /\ \A j \in Fingers : Alike(points[j], points[j])
  BY OffFacts DEF Alike
<1>1. points' = [i \in Fingers |-> IF i \in D THEN Off ELSE points[i]]
  BY DEF SurfacesDestroyed
<1>2. seat' = [i \in Fingers |-> Without(seat[i], C)] /\ pinch' = pinch
  BY DEF SurfacesDestroyed
<1>3. Closed(C) /\ \A i \in D : seat[i] # <<>> => Head(seat[i]) \in C
  <2>1. D \subseteq Fingers
    OBVIOUS
  <2>2. ASSUME NEW i \in D, seat[i] # <<>>
        PROVE  /\ Closed(ClientOf(Head(seat[i])))
               /\ Head(seat[i]) \in ClientOf(Head(seat[i]))
    <3> HIDE DEF D
    <3> QED BY <2>1, <2>2, SeatFacts, ClientFacts
  <2> HIDE DEF D
  <2>3. \A i \in D : seat[i] # <<>> => Head(seat[i]) \in cancelled
    BY <2>2 DEF Closed
  <2>4. Closed(cancelled)
    BY <2>2 DEF Closed
  <2> HIDE DEF cancelled
  <2>5. Closed(C)
    BY <2>4 DEF Closed
  <2> QED BY <2>3, <2>5
<1> HIDE DEF D, C, cancelled
<1>4. ASSUME NEW j \in Fingers
      PROVE  Without(seat[j], C) \in Seq(Surfaces) /\ Fine(points'[j], Without(seat[j], C), j)
  <2>1. CASE j \in D
    <3>1. points'[j] = Off
      BY <1>1, <2>1
    <3> QED BY <1>0, <1>3, <2>1, <3>1, FineLeaves
  <2>2. CASE j \notin D
    <3>1. points'[j] = points[j]
      BY <1>1, <2>2
    <3> QED BY <1>0, <1>2, <1>3, <3>1, FineWithout
  <2> QED BY <2>1, <2>2
<1> QED BY <1>2, <1>4 DEF AllFine

LEMMA GestureTimeoutFine ==
  ASSUME IInv, SeatInv, GestureTimeout
  PROVE  AllFine
<1>1. PICK R \in SUBSET Tracked, u \in Ui :
        /\ \A i \in Tracked :
             \E h \in Reads(points[i]) : (i \in R) = Replayable(points[i], h)
        /\ \E v \in {ui, u} :
             /\ points' = With([i \in Fingers |->
                  IF i \in R THEN Replayed(points[i], v) ELSE points[i]], u)
             /\ seat' = [i \in Fingers |->
                  IF i \in R THEN <<ReplaySurface(points[i], v)>> \o seat[i]
                  ELSE seat[i]]
  BY DEF GestureTimeout
<1>2. PICK v \in {ui, u} :
        /\ points' = With([i \in Fingers |->
             IF i \in R THEN Replayed(points[i], v) ELSE points[i]], u)
        /\ seat' = [i \in Fingers |->
             IF i \in R THEN <<ReplaySurface(points[i], v)>> \o seat[i]
             ELSE seat[i]]
  BY <1>1
<1> DEFINE P == [i \in Fingers |->
                   IF i \in R THEN Replayed(points[i], v) ELSE points[i]]
<1>3. /\ points' = With(P, u) /\ P = [i \in Fingers |-> P[i]]
      /\ \A i \in Fingers : P[i] = IF i \in R THEN Replayed(points[i], v) ELSE points[i]
      /\ pinch' = pinch
  BY <1>2 DEF GestureTimeout
<1>4. UNCHANGED <<fingers, pinch, world>>
  BY DEF GestureTimeout
<1>5. \A i \in Fingers : Alike(points[i], points[i]) /\ points[i] \in Point
  BY DEF Alike, IInv, TypeOK
<1> HIDE DEF P
<1>6. ASSUME NEW i \in Fingers
      PROVE  P[i] \in Point /\ seat'[i] \in Seq(Surfaces) /\ Fine(P[i], seat'[i], i)
  <2>1. CASE i \in R
    <3> DEFINE s == ReplaySurface(points[i], v)
    <3>1. PICK h \in Reads(points[i]) : Replayable(points[i], h)
      BY <1>1, <2>1
    <3>2. P[i] = Replayed(points[i], v)
      BY <1>3, <2>1
    <3>3. P[i] \in Point
      BY <1>4, <3>1, <3>2, Delivers
    <3>4. P[i].phase = "delivered" /\ P[i].surface = s
      BY <3>2 DEF Replayed, Plain, Off
    <3>5. s \in Surfaces
      BY <1>5, <3>1 DEF ReplaySurface, Replayable, Point, Surfaces, Shell
    <3>6. i \notin pinch'
      <4>1. PointOK(points[i], i \in fingers, i \in pinch, Alive)
        BY DEF IInv
      <4> QED BY <1>4, <3>1, <4>1 DEF PointOK, Replayable
    <3>7. seat'[i] = <<s>> \o seat[i]
      BY <1>2, <2>1
    <3> HIDE DEF s
    <3> QED BY <3>3, <3>4, <3>5, <3>6, <3>7, FineDelivered
  <2>2. CASE i \notin R
    BY <1>2, <1>3, <1>4, <1>5, <2>2, FineStays DEF SeatInv
  <2> QED BY <2>1, <2>2
<1>7. P \in [Fingers -> Point]
  BY <1>3, <1>6
<1>8. \A i \in Fingers : Alike(points'[i], P[i])
  BY <1>3, <1>7, Refreshed
<1>9. seat' \in [Fingers -> Seq(Surfaces)]
  BY <1>2, <1>6
<1> QED BY <1>6, <1>8, <1>9, FineAlike DEF AllFine

LEMMA OtherFine ==
  ASSUME IInv, SeatInv, Next, \A i \in Fingers : ~TouchDown(i) /\ ~TouchUp(i),
         ~GestureTimeout
  PROVE  AllFine
<1>0. /\ points \in [Fingers -> Point] /\ seat \in [Fingers -> Seq(Surfaces)]
      /\ Off \in Point /\ Off.phase = "off"
      /\ \A j \in Fingers : Alike(points[j], points[j])
  BY OffFacts DEF IInv, TypeOK, SeatInv, Alike
<1>1. ASSUME NEW i \in Fingers, SwipeEdge(i) PROVE AllFine
  <2> DEFINE P == [points EXCEPT ![i] = Triggered(@)]
  <2>1. points' = With(P, ui') /\ pinch' = pinch /\ seat' = seat
    BY <1>1 DEF SwipeEdge
  <2>2. /\ Triggered(points[i]) \in Point
        /\ Triggered(points[i]).phase = "captured" /\ points[i].phase = "captured"
    BY <1>0, <1>1, TriggeredFacts DEF SwipeEdge
  <2>3. /\ P \in [Fingers -> Point] /\ P[i] = Triggered(points[i])
        /\ \A j \in Fingers \ {i} : P[j] = points[j]
    BY <1>0, <2>2
  <2> HIDE DEF P
  <2>4. Fine(P[i], seat[i], i)
    BY <2>2, <2>3, FineElsewhere
  <2>5. \A j \in Fingers \ {i} : Fine(P[j], seat[j], j)
    BY <1>0, <2>1, <2>3, FineStays
  <2>6. \A j \in Fingers : Alike(points'[j], P[j])
    BY <2>1, <2>3, Refreshed
  <2> QED BY <1>0, <2>1, <2>4, <2>5, <2>6, FineAlike DEF AllFine
<1>2. ASSUME NEW i \in Fingers, SwipeClosesDrawer(i) PROVE AllFine
  <2> DEFINE P == [points EXCEPT ![i] = Off]
  <2>1. points' = With(P, ui') /\ pinch' = pinch /\ seat' = seat
    BY <1>2 DEF SwipeClosesDrawer
  <2>2. P \in [Fingers -> Point] /\ P[i] = Off /\ \A j \in Fingers \ {i} : P[j] = points[j]
    BY <1>0
  <2> HIDE DEF P
  <2>3. Fine(P[i], seat[i], i)
    BY <1>0, <1>2, <2>2 DEF Fine, SeatOK
  <2>4. \A j \in Fingers \ {i} : Fine(P[j], seat[j], j)
    BY <1>0, <2>1, <2>2, FineStays
  <2>5. \A j \in Fingers : Alike(points'[j], P[j])
    BY <2>1, <2>2, Refreshed
  <2> QED BY <1>0, <2>1, <2>3, <2>4, <2>5, FineAlike DEF AllFine
<1>3. ASSUME NEW i \in Fingers, Deadline(i) PROVE AllFine
  <2>1. pinch' = pinch /\ seat' = seat
    BY <1>3 DEF Deadline
  <2>2. \A j \in Fingers : Alike(points'[j], points[j])
    BY <1>0, <1>3, LateFacts DEF Deadline
  <2> QED BY <1>0, <2>1, <2>2, FineStays DEF AllFine
<1>4. CASE UiChanges \/ HitboxRefresh
  <2>1. pinch' = pinch /\ seat' = seat
    BY <1>4 DEF UiChanges, HitboxRefresh
  <2>2. CASE UiChanges
    <3>1. \A j \in Fingers : Alike(points'[j], points[j])
      BY <1>0, <2>2, Refreshed DEF UiChanges
    <3> QED BY <1>0, <2>1, <3>1, FineStays DEF AllFine
  <2>3. CASE HitboxRefresh
    <3>1. \A j \in Fingers : Alike(points'[j], points[j])
      BY <1>0, <2>3 DEF HitboxRefresh, Staled, Point, Alike
    <3> QED BY <1>0, <2>1, <3>1, FineStays DEF AllFine
  <2> QED BY <1>4, <2>2, <2>3
<1>5. CASE DestroyWindow \/ ShellGone
  <2>1. toplevels \subseteq Windows
    BY DEF IInv, TypeOK
  <2>2. \E gone : Closed(gone) /\ SurfacesDestroyed(gone)
    BY <1>5, <2>1, ClientFacts DEF DestroyWindow, ShellGone
  <2> QED BY <2>2, DestroyedFine
<1>6. CASE UNCHANGED <<points, pinch, seat>>
  BY <1>0, <1>6, FineStays DEF AllFine
<1> QED BY <1>1, <1>2, <1>3, <1>4, <1>5, <1>6, TouchCancelFine
        DEF Next, MoveCaptured, NewWindow, ShellUp

LEMMA NextFine ==
  ASSUME IInv, SeatInv, Next
  PROVE  AllFine
BY TouchDownFine, TouchUpFine, GestureTimeoutFine, OtherFine

(***************************************************************************)
(* For any number of fingers, surfaces and open streams: the finger that a *)
(* surface is delivered is the newest that the seat has told it of, or the *)
(* surface's client has been told that all of it was cancelled; the second *)
(* is so for every finger of a pinch (input.c:593-627, 1094-1122).         *)
(***************************************************************************)
THEOREM SeatInvariant == Spec => []SeatInv
<1>1. Init => SeatInv
  BY OffFacts DEF Init, SeatInv, SeatOK
<1>2. IInv /\ SeatInv /\ [Next]_vars => SeatInv'
  <2> SUFFICES ASSUME IInv, SeatInv, [Next]_vars PROVE SeatInv'
    OBVIOUS
  <2>1. CASE Next
    BY <2>1, NextFine DEF AllFine, Fine, SeatInv
  <2>2. CASE UNCHANGED vars
    BY <2>2 DEF vars, SeatInv
  <2> QED BY <2>1, <2>2
<1> QED BY <1>1, <1>2, TouchInvariant, PTL DEF Spec

(***************************************************************************)
(* For any number of fingers, a surface whose finger leaves is told by an  *)
(* up or a cancel, whichever of lift, cancel, pinch or a surface's end it  *)
(* is; only the swipe that closes the drawer leaves it waiting             *)
(* (input.c:440-454, 940-1122).                                            *)
(***************************************************************************)
THEOREM LeavingTold == Spec => LeavingIsTold
<1> DEFINE Told ==
      \A i \in Fingers :
        /\ points[i].phase = "delivered" /\ points'[i].phase = "off"
        /\ seat[i] # <<>> /\ Head(seat[i]) = points[i].surface
        => Len(seat'[i]) < Len(seat[i]) \/ SwipeClosesDrawer(i)
<1>1. IInv /\ SeatInv /\ [Next]_vars => [Told]_vars
  <2> SUFFICES ASSUME IInv, SeatInv, Next PROVE Told
    OBVIOUS
  <2>1. AllFine
    BY NextFine
  <2> QED BY <2>1 DEF AllFine, Fine
<1> QED BY <1>1, TouchInvariant, SeatInvariant, PTL DEF Spec, LeavingIsTold
=============================================================================
