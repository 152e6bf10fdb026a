----------------------------- MODULE TouchInput -----------------------------
(***************************************************************************)
(* Where a finger goes (src/compositor/src/core/input.c and                *)
(* input_touch.c).  A touch is dismissed, captured for a gesture or for a  *)
(* hitbox, or delivered to a surface; a captured one may be replayed to    *)
(* its surface when it is lifted or when the gesture timer fires.  While   *)
(* the finger is down the surface, the hitboxes and the shell's interface  *)
(* may all change.                                                         *)
(*                                                                         *)
(* Coordinates are left out: where a finger lands, and whether a motion    *)
(* crosses a threshold, is any of the cases the code tells apart.          *)
(***************************************************************************)
EXTENDS Naturals, FiniteSets, Sequences

CONSTANTS
  Fingers,    \* touch ids
  Windows,    \* application windows, each of a client of its own
  AutoShow,   \* windows whose touch shows the keyboard
  Zones,      \* bound: the system edges where fingers come down
  Flags,      \* bound: the parts of the interface that show by themselves
  Depth,      \* bound: streams of one finger the seat has not ended
  None        \* no surface

Shell == {"osk", "launcher", "other"}   \* layer surfaces, all of one client
Surfaces == Windows \cup Shell

Edges == {"none", "top", "left", "right", "bottom"}

\* "gesture" is the handle, "top" the status bar, "stale" freed memory.
LiveHitboxes == {"none", "gesture", "top", "scrim", "osk"}
Hitboxes == LiveHitboxes \cup {"stale"}

UiFlags == {"launcher", "panel", "sidebar", "audit", "keyboard"}

ASSUME TouchAssumption ==
  /\ AutoShow \subseteq Windows
  /\ Zones \subseteq Edges \ {"none"}
  /\ Flags \subseteq UiFlags
  /\ Depth \in Nat \ {0}
  /\ Windows \cap (Shell \cup {"off", "waiting", "kept"}) = {}
  /\ None \notin Surfaces

VARIABLES
  fingers,  \* the fingers on the screen
  points,   \* compositor->touch_points
  pinch,    \* pinch_touch_ids while pinch_active, else empty
  timer,    \* gesture_timer is armed
  seat,     \* the streams the seat has open for each finger, newest first
  ui,       \* the flags of the shell's interface that the handlers read
  shell,    \* the layer surfaces: "starting", "up" or "gone"
  toplevels,\* the windows there are
  told      \* the surface that has just been told of a whole touch at once

vars == <<fingers, points, pinch, timer, seat, ui, shell, toplevels, told>>
world == <<shell, toplevels>>

\* captured and delivered exclude each other in every assignment of the code:
\* a tracked point is "plain", "captured" or "delivered".
Point ==
  [phase : {"off", "plain", "captured", "delivered"},
   surface : Surfaces \cup {None},    \* what it is bound to
   listens : Surfaces \cup {None},    \* whose destruction it listens for
   hitbox : Hitboxes,
   edge : Edges,                      \* capture_edge
   triggered : BOOLEAN,               \* gesture_triggered
   late : BOOLEAN]                    \* gesture_timeout_ms have passed

Off == [phase |-> "off", surface |-> None, listens |-> None, hitbox |-> "none",
        edge |-> "none", triggered |-> FALSE, late |-> FALSE]

Ui == [UiFlags -> BOOLEAN]

Tracked == {i \in Fingers : points[i].phase # "off"}
Alive == toplevels \cup (IF shell = "up" THEN Shell ELSE {})

Init ==
  /\ fingers = {} /\ pinch = {} /\ timer = FALSE
  /\ points = [i \in Fingers |-> Off]
  /\ seat = [i \in Fingers |-> <<>>]
  /\ ui = [f \in UiFlags |-> FALSE]
  /\ shell = "starting" /\ toplevels = {} /\ told = None

-----------------------------------------------------------------------------
(* The seat of wlroots.                                                    *)

SameClient(s, t) == s = t \/ {s, t} \subseteq Shell

\* What is left of sequence q without the members of C: SelectSeq, written out
\* so that the proofs can see how it is built.
Without(q, C) ==
  LET left[n \in 0..Len(q)] ==
        IF n = 0 THEN <<>>
        ELSE IF q[n] \in C THEN left[n - 1] ELSE Append(left[n - 1], q[n])
  IN  left[Len(q)]

SeatDown(S, i, s) == [S EXCEPT ![i] = <<s>> \o @]
SeatUp(S, i) == [S EXCEPT ![i] = IF @ = <<>> THEN @ ELSE Tail(@)]

\* wl_touch.cancel is for all the fingers of a client.
ClientOf(s) == {t \in Surfaces : SameClient(t, s)}

SeatCancel(S, i) ==
  IF S[i] = <<>> THEN S
  ELSE [j \in Fingers |-> Without(S[j], ClientOf(Head(S[i])))]

-----------------------------------------------------------------------------
(* Hitboxes.  refresh_shell_hitboxes frees them all; a point keeps its     *)
(* pointer, and what it reads through it is any hitbox.                    *)

Reads(p) == IF p.hitbox = "stale" THEN LiveHitboxes \ {"none"} ELSE {p.hitbox}

Staled(P) ==
  [i \in Fingers |->
     IF P[i].hitbox = "none" THEN P[i] ELSE [P[i] EXCEPT !.hitbox = "stale"]]

\* These setters refresh the hitboxes, those of panels and audit do not.
Refreshes(u, v) ==
  u.launcher # v.launcher \/ u.keyboard # v.keyboard \/ u.sidebar # v.sidebar

With(P, v) == IF Refreshes(ui, v) THEN Staled(P) ELSE P

-----------------------------------------------------------------------------
(* The gesture timer.                                                      *)

GestureHitbox == {"gesture", "top"}

\* What maybe_start_gesture_timer leaves: armed if a touch waits for it.
Waits(p) == p.phase = "captured" /\ ~p.triggered /\ p.hitbox \in GestureHitbox
MayWait(p) ==
  p.phase = "captured" /\ ~p.triggered /\ Reads(p) \cap GestureHitbox # {}

\* Mutant: a touch that waits arms no timer that is not running.
StartTimer_Lazy(P) ==
  {b \in BOOLEAN : b => timer /\ \E i \in Fingers : MayWait(P[i])}

StartTimer(P) ==
  {b \in BOOLEAN : /\ (\E i \in Fingers : Waits(P[i])) => b
                   /\ b => \E i \in Fingers : MayWait(P[i])}

-----------------------------------------------------------------------------
(* Focus and the actions of the edges, as far as the flags go.             *)

\* lumo_input_focus_surface of surface s.
FocusUi(u, s) ==
  IF s \in AutoShow /\ ~u.launcher THEN [u EXCEPT !.keyboard = TRUE] ELSE u

\* lumo_input_touch_point_trigger_edge_action; ShellUi has the details.
EdgeUi(u, e) ==
  CASE e = "top" -> {[u EXCEPT !.launcher = FALSE, !.panel = b] : b \in BOOLEAN}
    [] e = "left" ->
         {IF u.audit THEN [u EXCEPT !.audit = FALSE]
          ELSE IF u.panel THEN [u EXCEPT !.panel = FALSE]
          ELSE IF u.launcher THEN [u EXCEPT !.launcher = FALSE]
          ELSE [u EXCEPT !.sidebar = TRUE]}
    [] e = "right" ->
         LET v == [u EXCEPT !.panel = FALSE, !.sidebar = FALSE] IN
         {IF u.audit THEN [u EXCEPT !.audit = FALSE]
          ELSE IF u.keyboard THEN [v EXCEPT !.keyboard = FALSE]
          ELSE [v EXCEPT !.launcher = FALSE]}
    [] e = "bottom" ->
         LET v == [u EXCEPT !.audit = FALSE, !.keyboard = FALSE] IN
         {IF u.launcher THEN [v EXCEPT !.launcher = FALSE]
          ELSE [v EXCEPT !.sidebar = FALSE]}
    [] OTHER -> {u}

\* Nothing happens while the boot splash is up.
EdgeAction(e) == EdgeUi(ui, e) \cup {ui}

-----------------------------------------------------------------------------
(* lumo_input_touch_down.  A landing is where the finger comes down, as    *)
(* far as the handler tells places apart.  The surface of a hidden         *)
(* keyboard may be there: mapping it turns its node on.                    *)

Landing ==
  {t \in [surface : Alive \cup {None}, hitbox : LiveHitboxes,
          edge : Zones \cup {"none"}, inPanel : BOOLEAN, inSidebar : BOOLEAN,
          inDrawer : BOOLEAN, far : BOOLEAN] :
     /\ t.inPanel => ui.panel
     /\ t.inSidebar => ui.sidebar
     /\ t.inDrawer \/ t.hitbox = "scrim" => ui.launcher
     /\ t.hitbox = "osk" => ui.keyboard
     /\ t.edge = "bottom" => ~ui.launcher}

\* The hitbox is kept as long as it is read: until the touch is delivered, or
\* has triggered its gesture.
Plain == [Off EXCEPT !.phase = "plain"]
Triggered(p) ==
  [p EXCEPT !.triggered = TRUE, !.hitbox = "none", !.edge = "none", !.late = FALSE]

\* The touch is not followed.
Forget(i, v) ==
  /\ points' = With(points, v) /\ ui' = v
  /\ UNCHANGED <<pinch, timer, seat>>

Deliver(i, s, v) ==
  /\ points' = With([points EXCEPT ![i] =
       [Plain EXCEPT !.phase = "delivered", !.surface = s, !.listens = s]], v)
  /\ seat' = SeatDown(seat, i, s)
  /\ ui' = v
  /\ UNCHANGED <<pinch, timer>>

DeliverAndFocus(i, s, u) == Deliver(i, s, FocusUi(u, s))

Capture(i, t, s, e, u) ==
  /\ points' = With([points EXCEPT ![i] =
       [phase |-> "captured", surface |-> s, listens |-> s, hitbox |-> t.hitbox,
        edge |-> e, triggered |-> FALSE, late |-> FALSE]], u)
  /\ timer' \in StartTimer(points')
  /\ ui' = u
  /\ UNCHANGED <<pinch, seat>>

\* The one delivered finger that a second one pinches with.
PinchPartner(i, j, t) ==
  /\ pinch = {} /\ toplevels # {} /\ t.far
  /\ {k \in Fingers \ {i} : points[k].phase = "delivered"} = {j}

\* Mutant: the application is not told that its finger is taken.
PinchBegins_NoCancel(i, j, u) ==
  /\ ui' = u
  /\ points' = With([points EXCEPT ![i] = Triggered(Plain),
                                   ![j] = Triggered(@)], ui')
  /\ pinch' = {i, j}
  /\ UNCHANGED <<timer, seat>>

PinchBegins(i, j, u) ==
  LET v == IF u.keyboard THEN {u, [u EXCEPT !.keyboard = FALSE]} ELSE {u} IN
  /\ ui' \in v      \* an automatic keyboard hides
  /\ points' = With([points EXCEPT ![i] = Triggered(Plain),
                                   ![j] = Triggered(@)], ui')
  /\ pinch' = {i, j}
  /\ seat' = SeatCancel(seat, j)
  /\ UNCHANGED timer

ShellActive(u) == u.launcher \/ u.panel \/ u.audit

HitboxEdge(h) == IF h = "top" THEN "top" ELSE "bottom"

\* Past the dismissals: system edges, hitboxes, surfaces, in this order.  An
\* application at the top keeps its touches from the top edge.
Route(i, t, target, u) ==
  LET edge == IF u.audit /\ t.edge # "left" THEN "none" ELSE t.edge
      taken(e) == ~(target \in Windows /\ e = "top")
      onEdge == /\ edge # "none" /\ t.hitbox \notin GestureHitbox /\ taken(edge)
      onReserved == t.hitbox \in {"scrim", "osk"}
      onHandle == /\ ~u.audit /\ t.hitbox \in GestureHitbox
                  /\ taken(HitboxEdge(t.hitbox))
  IN
  \/ onEdge /\ Capture(i, t, target, edge, u)
  \/ ~onEdge /\ onReserved /\ Capture(i, t, target, "none", u)
  \/ ~onEdge /\ onHandle /\ Capture(i, t, target, HitboxEdge(t.hitbox), u)
  \/ /\ ~onEdge /\ ~onReserved /\ ~onHandle
     /\ \/ /\ target \in Shell /\ ~ShellActive(u)
           /\ \E w \in toplevels : DeliverAndFocus(i, w, u)
        \/ /\ target \in Shell /\ (ShellActive(u) \/ toplevels = {})
           /\ DeliverAndFocus(i, target, u)
        \/ target \in Windows /\ DeliverAndFocus(i, target, u)
        \/ /\ target = None /\ ~u.launcher
           /\ \E w \in toplevels : DeliverAndFocus(i, w, u)
        \/ /\ target = None /\ (u.launcher \/ toplevels = {})
           /\ Forget(i, u)

\* Taps outside of what is open dismiss it.  A drawer that is open under a
\* sidebar is asked only when the sidebar has no surface there.
Dismissals(i, t, target, u) ==
  LET past1 == u.panel => t.inPanel
      past2 == u.sidebar => t.inSidebar /\ target = None
  IN
  \/ ~past1 /\ Forget(i, [u EXCEPT !.panel = FALSE])
  \/ past1 /\ u.sidebar /\ ~t.inSidebar /\ Forget(i, [u EXCEPT !.sidebar = FALSE])
  \/ past1 /\ u.sidebar /\ t.inSidebar /\ target # None /\ Deliver(i, target, u)
  \/ past1 /\ past2 /\ u.launcher /\ ~t.inDrawer
       /\ Forget(i, [u EXCEPT !.launcher = FALSE])
  \/ past1 /\ past2 /\ (u.launcher => t.inDrawer) /\ Route(i, t, target, u)

\* The touch may be the last of an audit, which ends it.
TouchDown(i) ==
  /\ i \notin fingers /\ Len(seat[i]) < Depth
  /\ fingers' = fingers \cup {i}
  /\ \E t \in Landing, u \in {ui, [ui EXCEPT !.audit = FALSE]} :
       LET target == IF u.audit /\ t.surface \in Shell THEN None ELSE t.surface IN
       \/ \E j \in Fingers : PinchPartner(i, j, t) /\ PinchBegins(i, j, u)
       \/ /\ \A j \in Fingers : ~PinchPartner(i, j, t)
          /\ IF pinch # {} THEN Forget(i, u) ELSE Dismissals(i, t, target, u)
  /\ told' = None
  /\ UNCHANGED world

-----------------------------------------------------------------------------
(* lumo_input_touch_motion.  The scale of a pinch is left out.             *)

\* Far or fast enough away from the edge, in its direction.
SwipeEdge(i) ==
  /\ i \in fingers \ pinch
  /\ points[i].phase = "captured" /\ points[i].edge # "none"
  /\ ~points[i].triggered
  /\ ui' \in EdgeAction(points[i].edge)
  /\ points' = With([points EXCEPT ![i] = Triggered(@)], ui')
  /\ timer' \in StartTimer(points')
  /\ told' = None
  /\ UNCHANGED <<fingers, pinch, seat, world>>

\* Downwards, from anywhere; the touch is no longer followed.
SwipeClosesDrawer(i) ==
  /\ i \in (fingers \cap Tracked) \ pinch
  /\ ui.launcher /\ ~points[i].triggered
  /\ ui' = [ui EXCEPT !.launcher = FALSE]
  /\ points' = With([points EXCEPT ![i] = Off], ui')
  /\ told' = None
  /\ UNCHANGED <<fingers, pinch, timer, seat, world>>

\* Any other motion of a captured touch looks after the timer.
MoveCaptured(i) ==
  /\ i \in fingers \ pinch /\ points[i].phase = "captured"
  /\ timer' \in StartTimer(points)
  /\ told' = None
  /\ UNCHANGED <<fingers, points, pinch, seat, ui, world>>

-----------------------------------------------------------------------------
(* lumo_input_touch_up.                                                    *)

\* A tap at the top or bottom edge beside the handle, over an application.
Suppressed(p, h) ==
  /\ p.edge \in {"top", "bottom"} /\ toplevels # {}
  /\ ~ui.launcher /\ ~ui.panel
  /\ h \notin GestureHitbox

\* Mutant: a replay goes to the surface that the finger came down on.
ReplaySurface_AsBound(p, u) == p.surface

\* The surface that a replay reaches: a hidden keyboard hands on to the drawer.
ReplaySurface(p, u) ==
  IF p.surface = "osk" /\ ~u.keyboard THEN "launcher" ELSE p.surface

\* What a captured touch does when it is lifted, h being what it reads in its
\* hitbox: the surface that is told of all of it, and the flags afterwards.
\* A triggered one does nothing.
Lifted(p, h) ==
  LET replayed == [to |-> ReplaySurface(p, ui), ui |-> FocusUi(ui, p.surface)]
      nowhere(v) == [to |-> None, ui |-> v]
      reserved ==
        CASE h = "osk" /\ shell = "up" ->
               [to |-> IF ui.keyboard THEN "osk" ELSE "launcher", ui |-> ui]
          [] h = "scrim" /\ shell = "up" -> [to |-> "launcher", ui |-> ui]
          [] OTHER -> nowhere(ui)
      tap == IF ~Suppressed(p, h) THEN {nowhere(v) : v \in EdgeAction(p.edge)}
             ELSE IF p.surface # None THEN {replayed} ELSE {nowhere(ui)}
      fling == {nowhere(v) : v \in EdgeAction(p.edge)}
      short == IF p.surface # None /\ ui.launcher THEN replayed ELSE reserved
  IN  IF p.triggered THEN {nowhere(ui)}
      ELSE IF p.edge = "none" THEN {reserved}
      ELSE tap \cup fling \cup {short}

PinchEnds(i) ==
  /\ i \in pinch /\ i \in Tracked
  /\ pinch' = {}
  /\ points' = [j \in Fingers |-> IF j \in pinch THEN Off ELSE points[j]]
  /\ told' = None
  /\ UNCHANGED <<timer, seat, ui>>

CapturedEnds(i) ==
  /\ i \notin pinch /\ points[i].phase = "captured"
  /\ \E h \in Reads(points[i]) : \E r \in Lifted(points[i], h) :
       /\ ui' = r.ui /\ told' = r.to
       /\ points' = With([points EXCEPT ![i] = Off], r.ui)
  /\ timer' \in StartTimer(points')
  /\ UNCHANGED <<pinch, seat>>

OtherEnds(i) ==
  /\ i \notin pinch /\ points[i].phase \in {"plain", "delivered"}
  /\ seat' = IF points[i].phase = "delivered" THEN SeatUp(seat, i) ELSE seat
  /\ points' = [points EXCEPT ![i] = Off]
  /\ timer' \in StartTimer(points')
  /\ told' = None
  /\ UNCHANGED <<pinch, ui>>

TouchUp(i) ==
  /\ i \in fingers
  /\ fingers' = fingers \ {i}
  /\ \/ i \in Tracked /\ (PinchEnds(i) \/ CapturedEnds(i) \/ OtherEnds(i))
     \/ i \notin Tracked /\ told' = None /\ UNCHANGED <<points, pinch, timer, seat, ui>>
  /\ UNCHANGED world

\* lumo_input_touch_cancel.
TouchCancel(i) ==
  /\ i \in fingers
  /\ fingers' = fingers \ {i}
  /\ seat' = IF points[i].phase = "delivered" THEN SeatCancel(seat, i) ELSE seat
  /\ points' = [points EXCEPT ![i] = Off]
  /\ told' = None
  /\ UNCHANGED <<pinch, timer, ui, world>>

-----------------------------------------------------------------------------
(* lumo_input_gesture_timeout_cb.                                          *)

\* gesture_timeout_ms have passed since the touch was captured; followed for
\* the touches that may be on the handle.
Deadline(i) ==
  /\ points[i].phase = "captured" /\ ~points[i].late
  /\ points[i].edge # "none" /\ points[i].hitbox \in {"gesture", "stale"}
  /\ points' = [points EXCEPT ![i].late = TRUE]
  /\ told' = None
  /\ UNCHANGED <<fingers, pinch, timer, seat, ui, world>>

\* Late touches on the handle are replayed, others wait to be lifted.
Replayable(p, h) ==
  /\ p.phase = "captured" /\ ~p.triggered /\ p.late
  /\ p.surface # None /\ p.edge # "none" /\ h = "gesture"

Replayed(p, u) ==
  [Plain EXCEPT !.phase = "delivered", !.surface = ReplaySurface(p, u),
                !.listens = p.listens]

\* Mutant: the timer is not set again for those that are not late yet.
GestureTimeout_Once ==
  /\ timer
  /\ \E R \in SUBSET Tracked :
       /\ \A i \in Tracked :
            \E h \in Reads(points[i]) : (i \in R) = Replayable(points[i], h)
       /\ points' = [i \in Fingers |->
            IF i \in R THEN Replayed(points[i], ui) ELSE points[i]]
       /\ seat' = [i \in Fingers |->
            IF i \in R THEN <<ReplaySurface(points[i], ui)>> \o seat[i]
            ELSE seat[i]]
  /\ timer' = FALSE
  /\ told' = None
  /\ UNCHANGED <<fingers, pinch, ui, world>>

GestureTimeout ==
  /\ timer
  /\ \E R \in SUBSET Tracked, u \in Ui :
       /\ \A i \in Tracked :
            \E h \in Reads(points[i]) : (i \in R) = Replayable(points[i], h)
       /\ u = [ui EXCEPT !.keyboard =
                 @ \/ \E i \in R : points[i].surface \in AutoShow /\ ~ui.launcher]
       /\ \E v \in {ui, u} :    \* whether the keyboard came before or after
            /\ points' = With([i \in Fingers |->
                 IF i \in R THEN Replayed(points[i], v) ELSE points[i]], u)
            /\ seat' = [i \in Fingers |->
                 IF i \in R THEN <<ReplaySurface(points[i], v)>> \o seat[i]
                 ELSE seat[i]]
       /\ ui' = u
  /\ timer' \in StartTimer(points')
  /\ told' = None
  /\ UNCHANGED <<fingers, pinch, world>>

-----------------------------------------------------------------------------
(* What happens around the fingers.                                        *)

\* Mutant: a captured touch outlives its surface.
Destroyed_KeepsCaptured(i, gone) ==
  points[i].phase = "delivered" /\ points[i].listens \in gone

\* The points that listen for the destruction of one of these surfaces.
Destroyed(i, gone) == points[i].phase # "off" /\ points[i].listens \in gone

\* The listeners of the points come first: each cancels the stream it finds
\* under its id, with all of that client; then the seat's own.
SurfacesDestroyed(gone) ==
  LET D == {i \in Fingers : Destroyed(i, gone)}
      cancelled ==
        {s \in Surfaces : \E i \in D : seat[i] # <<>> /\ s \in ClientOf(Head(seat[i]))}
  IN
  /\ points' = [i \in Fingers |-> IF i \in D THEN Off ELSE points[i]]
  /\ seat' = [i \in Fingers |-> Without(seat[i], cancelled \cup gone)]
  /\ told' = None
  /\ UNCHANGED <<fingers, pinch, timer, ui>>

NewWindow ==
  /\ \E w \in Windows \ toplevels : toplevels' = toplevels \cup {w}
  /\ told' = None
  /\ UNCHANGED <<fingers, points, pinch, timer, seat, ui, shell>>

DestroyWindow ==
  /\ \E w \in toplevels : toplevels' = toplevels \ {w} /\ SurfacesDestroyed({w})
  /\ UNCHANGED shell

\* The shell creates its surfaces once and keeps them until it exits.
ShellUp ==
  /\ shell = "starting" /\ shell' = "up" /\ told' = None
  /\ UNCHANGED <<fingers, points, pinch, timer, seat, ui, toplevels>>

ShellGone ==
  /\ shell = "up" /\ shell' = "gone"
  /\ SurfacesDestroyed(Shell)
  /\ UNCHANGED toplevels

\* Requests, keys, timers and text inputs change the interface (ShellUi).
UiChanges ==
  /\ \E f \in Flags : ui' = [ui EXCEPT ![f] = ~@]
  /\ points' = With(points, ui')
  /\ told' = None
  /\ UNCHANGED <<fingers, pinch, timer, seat, world>>

\* A frame that configures the layers.
HitboxRefresh ==
  /\ points' = Staled(points) /\ told' = None
  /\ UNCHANGED <<fingers, pinch, timer, seat, ui, world>>

-----------------------------------------------------------------------------
Next ==
  \/ \E i \in Fingers :
       \/ TouchDown(i) \/ SwipeEdge(i) \/ SwipeClosesDrawer(i) \/ MoveCaptured(i)
       \/ TouchUp(i) \/ TouchCancel(i) \/ Deadline(i)
  \/ GestureTimeout
  \/ NewWindow \/ DestroyWindow \/ ShellUp \/ ShellGone
  \/ UiChanges \/ HitboxRefresh

\* Time passes and an armed timer fires; nothing is assumed of the user.
Spec ==
  /\ Init /\ [][Next]_vars
  /\ WF_vars(GestureTimeout) /\ \A i \in Fingers : WF_vars(Deadline(i))

-----------------------------------------------------------------------------
(* Correctness.                                                            *)

(* The type of the state; of the seat the code knows only what it tells.   *)
TypeOK ==
  /\ fingers \subseteq Fingers
  /\ points \in [Fingers -> Point]
  /\ pinch \subseteq Fingers
  /\ timer \in BOOLEAN
  /\ ui \in Ui
  /\ shell \in {"starting", "up", "gone"}
  /\ toplevels \subseteq Windows
  /\ told \in Surfaces \cup {None}

\* The owner of a finger as the promise of TouchRouting sees it.
Owner(i) ==
  IF i \notin fingers THEN "off"
  ELSE IF points[i].phase \in {"off", "plain"} \/ points[i].triggered THEN "kept"
  ELSE IF points[i].phase = "captured" THEN "waiting"
  ELSE points[i].surface

Routing == INSTANCE TouchRouting
             WITH owner <- [i \in Fingers |-> Owner(i)], alive <- Alive

(***************************************************************************)
(* Through capture, replay, pinch, cancel and surfaces that go, no finger  *)
(* changes hands twice and none belongs to a surface that is gone          *)
(* (CHANGELOG.md:970; input_touch.c:346-398, 457-582).                     *)
(***************************************************************************)
FingersAreRouted == Routing!Spec

(***************************************************************************)
(* A surface whose finger leaves the compositor's list is told so, by an   *)
(* up or a cancel; only the swipe that closes the drawer leaves it         *)
(* waiting for an end that never comes (input.c:440-454, 940-1122).        *)
(***************************************************************************)
LeavingIsTold ==
  [][\A i \in Fingers :
       /\ points[i].phase = "delivered" /\ points'[i].phase = "off"
       /\ seat[i] # <<>> /\ Head(seat[i]) = points[i].surface
       => Len(seat'[i]) < Len(seat[i]) \/ SwipeClosesDrawer(i)]_vars

(***************************************************************************)
(* A touch that waits on the handle or the status bar always has the       *)
(* gesture timer armed, whoever else's capture, motion, lift or timeout    *)
(* last set or removed it (input_touch.c:584-680).                         *)
(***************************************************************************)
WaitingHasTimer == (\E i \in Fingers : Waits(points[i])) => timer

(***************************************************************************)
(* A finger that is held on the handle is given to the surface under it    *)
(* when the gesture timeout has passed, unless it swiped, was lifted, or   *)
(* its hitbox was freed before (input_touch.c:639-680).                    *)
(***************************************************************************)
HeldTouchIsReplayed ==
  \A i \in Fingers :
    Waits(points[i]) /\ points[i].hitbox = "gesture" /\ points[i].surface # None
      ~> ~Waits(points[i])

(***************************************************************************)
(* The hidden keyboard's surface hears of no replayed touch, although the  *)
(* finger came down on it while it showed (input_touch.c:467-520).         *)
(***************************************************************************)
HiddenKeyboardHearsNothing ==
  [][/\ told' = "osk" => ui'.keyboard
     /\ \A i \in Fingers :
          points[i].phase = "captured" /\ points'[i].phase = "delivered"
            /\ points'[i].surface = "osk" => ui'.keyboard]_vars
=============================================================================
