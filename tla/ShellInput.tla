----------------------------- MODULE ShellInput -----------------------------
(***************************************************************************)
(* What the unified shell process makes of touches and of the pointer on   *)
(* its surfaces: highlighting, the requests that a lift sends, the pages   *)
(* of the drawer and the sidebar's menu                                    *)
(* (src/compositor/src/shell/shell_input.c).  One client structure serves  *)
(* all surfaces, fingers and the pointer: a new touch takes the place of   *)
(* an older one, and both devices share mode, position and target.         *)
(*                                                                         *)
(* A position is a record: what the surface shows there (on), which of its *)
(* icons (index), its column, and what a panel laid out for this surface   *)
(* has there (panel).  A step to the next column is a swipe, a step over   *)
(* two columns is more than a fifth of the width.                          *)
(***************************************************************************)
EXTENDS ShellView, Integers

CONSTANTS
  Fingers,
  NoFinger,
  Modes,      \* the surfaces that are touched
  Spots,      \* the positions on each of them
  LastPage,   \* pages of the drawer, from 0
  MaxApps,    \* the sidebar lists at most so many windows; 16 in the code
  Announced   \* the states that frames announce

\* What a panel shows under a finger.
Controls ==
  {"none", "weather", "set_volume", "set_brightness", "reload_session",
   "cycle_rotation", "capture_screenshot", "settings"}

\* Icons of the sidebar are counted, and so are the windows they stand for.
Positions ==
  [on : {"none", "tile", "close", "search", "key", "handle", "app"}, index : Nat,
   col : 0 .. 2, panel : Controls]
    \cup [on : {"drawer"}, index : {0}, col : 0 .. 2, panel : Controls]

ASSUME InputAssumption ==
  /\ NoFinger \notin Fingers /\ Modes \subseteq AllModes /\ "launcher" \in Modes
  /\ \A m \in Modes : Spots[m] \subseteq Positions
  /\ LastPage \in Nat /\ MaxApps \in Nat

VARIABLES
  seen, apps,     \* compositor_* fields and running_app_count
  mode, spot,     \* client->mode and pointer_x, pointer_y
  finger,         \* touch_pressed and active_touch_id
  pointer,        \* pointer_position_valid and pointer_pressed
  target,         \* active_target
  page, snap,     \* launcher_page; launcher_snap_page while a snap runs
  drag,           \* launcher_swipe_x, launcher_swipe_offset, launcher_swiping
  menu,           \* the icon whose context menu is shown
  sent,           \* the request of the last step
  down            \* the fingers that the compositor has told of

client == <<mode, spot, finger, pointer, target, page, snap, drag, menu>>
vars == <<seen, apps, client, sent, down>>

None == "none"
NoIndex == -1
NoTarget == [kind |-> None, index |-> 0]
Request(name, index) == [name |-> name, index |-> index]
NoRequest == Request(None, 0)

Init ==
  /\ seen = Nothing("output") /\ apps = 0
  /\ mode = "launcher" /\ spot \in Spots["launcher"]
  /\ finger = NoFinger /\ pointer = [valid |-> FALSE, pressed |-> FALSE]
  /\ target = NoTarget /\ page = 0 /\ snap = NoIndex /\ menu = NoIndex
  /\ drag = [from |-> 0, offset |-> 0, swiping |-> FALSE]
  /\ sent = NoRequest
  /\ down = {}

\* A finger or a pressed pointer may leave the surface that it began on.
AllSpots == UNION {Spots[m] : m \in Modes}

-----------------------------------------------------------------------------
(* Hit tests.                                                              *)

\* What a surface highlights; a tile's index is its page.
TargetAt(m, s, p) ==
  CASE m = "launcher" /\ s.on = "tile"          -> [kind |-> "tile", index |-> p]
    [] m = "launcher" /\ s.on = "close"         -> [kind |-> "close", index |-> 0]
    [] m = "osk" /\ s.on = "key"                -> [kind |-> "key", index |-> 0]
    [] m = "gesture" /\ s.on = "handle"         -> [kind |-> "handle", index |-> 0]
    [] m = "sidebar" /\ s.on \in {"app", "drawer"} -> [kind |-> s.on, index |-> s.index]
    [] OTHER                                    -> NoTarget

\* lumo_shell_status_button_hit: the panel is laid out on whatever surface
\* the client has in its hand.
QuickControl(s) ==
  IF seen.panel = "quick" /\ s.panel # "weather" THEN s.panel ELSE None

PanelOnly == mode = "launcher" /\ ~seen.launcher

-----------------------------------------------------------------------------
(* Touch.                                                                  *)

\* The old page is searched before the running snap is completed.  A finger may
\* come down again whose lift was never told.
Down(f, m, s) ==
  /\ down' = down \cup {f}
  /\ finger' = f /\ mode' = m /\ spot' = s
  /\ target' = IF m = "launcher" /\ ~seen.launcher /\ seen.panel \in {"quick", "time"}
               THEN NoTarget ELSE TargetAt(m, s, page)
  /\ IF m = "launcher"
     THEN /\ page' = IF snap = NoIndex THEN page ELSE snap
          /\ snap' = NoIndex
          /\ drag' = [from |-> s.col, offset |-> 0, swiping |-> FALSE]
     ELSE UNCHANGED <<page, snap, drag>>
  /\ sent' = NoRequest
  /\ UNCHANGED <<seen, apps, pointer, menu>>

Motion(f, s) ==
  LET dx == s.col - drag.from
      swipes == mode = "launcher" /\ seen.launcher /\ (drag.swiping \/ dx # 0)
  IN
  /\ f \in down
  /\ IF finger # f THEN UNCHANGED <<spot, drag, target>>
     ELSE /\ spot' = s
          /\ drag' = IF swipes THEN [drag EXCEPT !.offset = dx, !.swiping = TRUE] ELSE drag
          /\ target' = IF swipes THEN target ELSE TargetAt(mode, s, page)
  /\ sent' = NoRequest
  /\ UNCHANGED <<seen, apps, mode, finger, pointer, page, snap, menu, down>>

\* The ways a lift ends, tried in this order.  The first two leave the target
\* highlighted and a swipe open.
LiftOnControl ==
  /\ sent' = Request(QuickControl(spot), 0)
  /\ UNCHANGED <<target, snap, drag, menu>>

LiftOnSearch ==
  /\ sent' = Request("keyboard", 0)
  /\ UNCHANGED <<target, snap, drag, menu>>

\* A row of the open menu, a long press that opens it, or a tap.
LiftOnSidebar ==
  /\ target' = NoTarget /\ UNCHANGED <<snap, drag>>
  /\ \/ /\ target.kind = "drawer"
        /\ sent' = Request("open_drawer", 0) /\ UNCHANGED menu
     \/ /\ target.kind = "app" /\ menu # NoIndex
        /\ \E row \in {"focus_app", "new_window", "close_app"} : sent' = Request(row, menu)
        /\ menu' = NoIndex
     \/ /\ target.kind = "app" /\ menu = NoIndex
        /\ sent' = NoRequest /\ menu' = target.index
     \/ /\ target.kind = "app" /\ menu = NoIndex
        /\ sent' = IF target.index < apps THEN Request("focus_app", target.index) ELSE NoRequest
        /\ menu' = NoIndex
     \/ /\ target.kind \notin {"drawer", "app"}
        /\ sent' = NoRequest /\ UNCHANGED menu

SnapPage ==
  IF drag.offset < -1 /\ page < LastPage THEN page + 1
  ELSE IF drag.offset > 1 /\ page > 0 THEN page - 1 ELSE page

LiftAfterSwipe ==
  /\ snap' = SnapPage
  /\ drag' = [drag EXCEPT !.swiping = FALSE]
  /\ target' = NoTarget /\ sent' = NoRequest /\ UNCHANGED menu

LiftOnPanel ==
  /\ sent' = IF seen.panel = "time" /\ spot.panel = "weather"
             THEN Request("weather", 0) ELSE NoRequest
  /\ target' = NoTarget /\ UNCHANGED <<snap, drag, menu>>

\* Mutant: the target is cleared before it is activated.
LiftOnTarget_ClearsFirst ==
  /\ target' = IF pointer.pressed THEN target ELSE NoTarget
  /\ sent' = IF target' = NoTarget THEN NoRequest ELSE Request(target.kind, target.index)
  /\ UNCHANGED <<snap, drag, menu>>

LiftOnTarget ==
  /\ sent' = IF target = NoTarget THEN NoRequest ELSE Request(target.kind, target.index)
  /\ target' = IF pointer.pressed THEN target ELSE NoTarget
  /\ UNCHANGED <<snap, drag, menu>>

\* Mutant: the target is looked at before the swipe.
Lift_TargetFirst ==
  IF QuickControl(spot) # None THEN LiftOnControl
  ELSE IF mode = "sidebar" /\ target # NoTarget THEN LiftOnSidebar
  ELSE IF target # NoTarget THEN LiftOnTarget
  ELSE IF mode = "launcher" /\ seen.launcher /\ drag.swiping THEN LiftAfterSwipe
  ELSE LiftOnTarget

Lift ==
  IF QuickControl(spot) # None THEN LiftOnControl
  ELSE IF mode = "launcher" /\ seen.launcher /\ spot.on = "search" THEN LiftOnSearch
  ELSE IF mode = "sidebar" /\ target # NoTarget THEN LiftOnSidebar
  ELSE IF mode = "launcher" /\ seen.launcher /\ drag.swiping THEN LiftAfterSwipe
  ELSE IF PanelOnly /\ seen.panel \in {"time", "quick"} THEN LiftOnPanel
  ELSE LiftOnTarget

\* Mutant: an older finger lifts for the newer one.
Up_AnyFinger(f) ==
  /\ f \in down /\ down' = down \ {f}
  /\ finger' = NoFinger /\ Lift
  /\ UNCHANGED <<seen, apps, mode, spot, pointer, page>>

\* Only the finger that came down last is listened to.
Up(f) ==
  /\ f \in down /\ down' = down \ {f}
  /\ IF finger = f THEN finger' = NoFinger /\ Lift
     ELSE sent' = NoRequest /\ UNCHANGED <<finger, target, snap, drag, menu>>
  /\ UNCHANGED <<seen, apps, mode, spot, pointer, page>>

\* The compositor takes the touches back, or the device is gone.  A swipe
\* stays open.
Cancel ==
  /\ down' = {}
  /\ finger' = NoFinger
  /\ target' = IF pointer.pressed THEN target ELSE NoTarget
  /\ sent' = NoRequest
  /\ UNCHANGED <<seen, apps, mode, spot, pointer, page, snap, drag, menu>>

-----------------------------------------------------------------------------
(* Pointer.                                                                *)

Enter(m, s) ==
  /\ ~pointer.valid
  /\ pointer' = [pointer EXCEPT !.valid = TRUE]
  /\ mode' = m /\ spot' = s
  /\ sent' = NoRequest
  /\ UNCHANGED <<seen, apps, finger, target, page, snap, drag, menu, down>>

\* Also while the button is down: it stays pressed, and going up is not seen
\* until the pointer is back.
Leave ==
  /\ pointer.valid
  /\ pointer' = [pointer EXCEPT !.valid = FALSE]
  /\ target' = IF pointer.pressed \/ finger # NoFinger THEN target ELSE NoTarget
  /\ sent' = NoRequest
  /\ UNCHANGED <<seen, apps, mode, spot, finger, page, snap, drag, menu, down>>

\* Over the surface that was entered, read as a position on client->mode.
Hover(s) ==
  /\ pointer.valid
  /\ spot' = s
  /\ target' = IF pointer.pressed THEN TargetAt(mode, s, page) ELSE target
  /\ sent' = NoRequest
  /\ UNCHANGED <<seen, apps, mode, finger, pointer, page, snap, drag, menu, down>>

Press ==
  /\ pointer.valid
  /\ pointer' = [pointer EXCEPT !.pressed = TRUE]
  /\ target' = TargetAt(mode, spot, page)
  /\ sent' = NoRequest
  /\ UNCHANGED <<seen, apps, mode, spot, finger, page, snap, drag, menu, down>>

\* The pointer activates sidebar icons like any other target.
Release ==
  /\ pointer.valid /\ pointer.pressed
  /\ pointer' = [pointer EXCEPT !.pressed = FALSE]
  /\ sent' = IF target = NoTarget THEN NoRequest ELSE Request(target.kind, target.index)
  /\ target' = IF finger = NoFinger THEN NoTarget ELSE target
  /\ UNCHANGED <<seen, apps, mode, spot, finger, page, snap, drag, menu, down>>

PointerGone ==
  /\ pointer' = [valid |-> FALSE, pressed |-> FALSE]
  /\ target' = IF finger = NoFinger THEN NoTarget ELSE target
  /\ sent' = NoRequest
  /\ UNCHANGED <<seen, apps, mode, spot, finger, page, snap, drag, menu, down>>

-----------------------------------------------------------------------------
(* Frames and time.                                                        *)

StateFrame(v, n) ==
  /\ seen' = v /\ apps' = n
  /\ sent' = NoRequest
  /\ UNCHANGED <<client, down>>

\* The drawer is drawn when the animation is over.
SnapEnds ==
  /\ snap # NoIndex /\ seen.launcher /\ ~seen.audit
  /\ page' = snap /\ snap' = NoIndex
  /\ drag' = [drag EXCEPT !.offset = 0]
  /\ sent' = NoRequest
  /\ UNCHANGED <<seen, apps, mode, spot, finger, pointer, target, menu, down>>

Next ==
  \/ \E f \in Fingers :
       \/ \E m \in Modes : \E s \in Spots[m] : Down(f, m, s)
       \/ \E s \in AllSpots : Motion(f, s)
       \/ Up(f)
  \/ Cancel
  \/ \E m \in Modes : \E s \in Spots[m] : Enter(m, s)
  \/ \E s \in AllSpots : Hover(s)
  \/ Leave \/ Press \/ Release \/ PointerGone
  \/ \E v \in Announced, n \in 0 .. MaxApps : StateFrame(v, n)
  \/ SnapEnds

\* Nothing is asked to happen.
Spec == Init /\ [][Next]_vars
-----------------------------------------------------------------------------
Targets ==
  {NoTarget} \cup [kind : {"tile"}, index : 0 .. LastPage]
    \cup [kind : {"close", "key", "handle", "drawer"}, index : {0}]
    \cup [kind : {"app"}, index : Nat]

TypeOK ==
  /\ mode \in Modes /\ finger \in Fingers \cup {NoFinger}
  /\ pointer \in [valid : BOOLEAN, pressed : BOOLEAN]
  /\ target \in Targets
  /\ page \in 0 .. LastPage /\ snap \in NoIndex .. LastPage
  /\ drag \in [from : 0 .. 2, offset : -2 .. 2, swiping : BOOLEAN]
  /\ menu \in Nat \cup {NoIndex} /\ apps \in 0 .. MaxApps

\* The finger that is listened to is lifted.
Lifts(f) == finger = f /\ Up(f)

(***************************************************************************)
(* A request is sent because the finger that came down last, or the        *)
(* pointer's button, goes up - not by a finger whose place was taken, and  *)
(* not a second time by the one that took it (shell_input.c:440-446).      *)
(***************************************************************************)
RequestsEndAPress ==
  [][sent' # NoRequest =>
       \/ down \ down' = {finger} /\ finger' = NoFinger
       \/ pointer.pressed /\ ~pointer'.pressed]_vars

(***************************************************************************)
(* A drag over the drawer launches nothing when it ends, wherever the      *)
(* finger is by then and whatever was highlighted when it began, unless    *)
(* the quick settings are open as well.  Only the search bar answers a     *)
(* drag that ends over it, asking for the keyboard, and it leaves the drag *)
(* open: it is looked at before the swipe (shell_input.c:486-511, 586-626, *)
(* 684-700).                                                               *)
(***************************************************************************)
DragsLaunchNothing ==
  [][\A f \in Fingers :
       Lifts(f) /\ mode = "launcher" /\ seen.launcher
           /\ drag.swiping /\ seen.panel # "quick"
         => IF spot.on = "search" THEN sent' = Request("keyboard", 0) /\ drag' = drag
            ELSE sent' = NoRequest /\ ~drag'.swiping]_vars

(***************************************************************************)
(* A key that is highlighted when the last finger on the keyboard goes up  *)
(* is typed, if no other device has touched the shell meanwhile and the    *)
(* quick settings are closed (shell_input.c:654-660).                      *)
(***************************************************************************)
KeysAreTyped ==
  [][\A f \in Fingers :
       Lifts(f) /\ mode = "osk" /\ target.kind = "key" /\ seen.panel # "quick"
         => sent' = Request("key", 0)]_vars

=============================================================================
