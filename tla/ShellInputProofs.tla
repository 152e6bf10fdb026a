-------------------------- MODULE ShellInputProofs --------------------------
(***************************************************************************)
(* The touches on the shell for any fingers, surfaces and positions.  A    *)
(* lift takes one of seven ways in a fixed order; what each may send is    *)
(* proved of the way, and the properties follow from their order.          *)
(***************************************************************************)
EXTENDS ShellInput, TLAPS

TargetKinds == {None, "tile", "close", "key", "handle", "app", "drawer"}

\* What the ways of a lift need to know.
InputOK ==
  /\ down \subseteq Fingers
  /\ spot \in AllSpots
  /\ target.kind \in TargetKinds
  /\ target.kind = None => target = NoTarget
  /\ target.kind = "key" => target.index = 0

LEMMA TargetAtOK ==
  ASSUME NEW m, NEW s, NEW p
  PROVE  LET t == TargetAt(m, s, p) IN
         /\ t.kind \in TargetKinds
         /\ t.kind = None => t = NoTarget
         /\ t.kind = "key" => t.index = 0
  BY DEF TargetAt, TargetKinds, NoTarget, None

LEMMA InputInit == Init => InputOK
  BY InputAssumption DEF Init, InputOK, AllSpots, NoTarget, TargetKinds, None

\* A lift leaves the target as it is or clears it.
LEMMA LiftTarget == ASSUME Lift PROVE target' \in {target, NoTarget}
  BY DEF Lift, LiftOnControl, LiftOnSearch, LiftOnSidebar, LiftAfterSwipe, LiftOnPanel,
         LiftOnTarget

LEMMA InputStep == ASSUME InputOK, [Next]_vars PROVE InputOK'
  <1> USE DEF InputOK
  <1>1. NoTarget.kind = None /\ None \in TargetKinds /\ None # "key"
    BY DEF NoTarget, None, TargetKinds
  <1>2. CASE \E f \in Fingers : \E m \in Modes : \E s \in Spots[m] : Down(f, m, s)
    <2>1. PICK f \in Fingers, m \in Modes : \E s \in Spots[m] : Down(f, m, s) BY <1>2
    <2>2. PICK s \in Spots[m] : Down(f, m, s) BY <2>1
    <2>3. target' \in {NoTarget, TargetAt(m, s, page)} BY <2>2 DEF Down
    <2> QED BY <1>1, <2>2, <2>3, TargetAtOK DEF Down, AllSpots
  <1>3. CASE \E f \in Fingers, s \in AllSpots : Motion(f, s)
    <2>1. PICK f \in Fingers, s \in AllSpots : Motion(f, s) BY <1>3
    <2>2. target' \in {target, TargetAt(mode, s, page)} BY <2>1 DEF Motion
    <2>3. spot' \in AllSpots /\ down' = down BY <2>1 DEF Motion
    <2> QED BY <2>2, <2>3, TargetAtOK
  <1>4. CASE \E f \in Fingers : Up(f)
    <2>1. PICK f \in Fingers : Up(f) BY <1>4
    <2>2. target' \in {target, NoTarget} BY <2>1, LiftTarget DEF Up
    <2> QED BY <1>1, <2>1, <2>2 DEF Up
  <1>5. CASE \E m \in Modes : \E s \in Spots[m] : Enter(m, s)
    BY <1>5 DEF Enter, AllSpots
  <1>6. CASE \E s \in AllSpots : Hover(s)
    <2>1. PICK s \in AllSpots : Hover(s) BY <1>6
    <2>2. target' \in {target, TargetAt(mode, s, page)} BY <2>1 DEF Hover
    <2> QED BY <2>1, <2>2, TargetAtOK DEF Hover
  <1>7. CASE Press
    <2>1. target' = TargetAt(mode, spot, page) BY <1>7 DEF Press
    <2> QED BY <1>7, <2>1, TargetAtOK DEF Press
  <1>8. CASE Cancel \/ Leave \/ Release \/ PointerGone
    BY <1>1, <1>8 DEF Cancel, Leave, Release, PointerGone
  <1>9. CASE SnapEnds \/ UNCHANGED vars
    BY <1>9 DEF SnapEnds, vars, client
  <1>10. CASE \E v \in Announced, n \in 0 .. MaxApps : StateFrame(v, n)
    BY <1>10 DEF StateFrame, client
  <1> QED BY <1>2, <1>3, <1>4, <1>5, <1>6, <1>7, <1>8, <1>9, <1>10 DEF Next

\* What the requests of a lift are read from stays well formed.
THEOREM InputInvariant == Spec => []InputOK
  BY InputInit, InputStep, PTL DEF Spec

-----------------------------------------------------------------------------
(* Who sends.                                                              *)

\* Only a lift that is listened to and the pointer's button send anything.
LEMMA Senders ==
  ASSUME InputOK, [Next]_vars
  PROVE  \/ \E f \in Fingers : Up(f) /\ finger = f
         \/ Release
         \/ sent' = NoRequest
         \/ UNCHANGED vars
  <1>1. CASE \E f \in Fingers : Up(f) BY <1>1 DEF Up
  <1>2. CASE ~\E f \in Fingers : Up(f)
    BY <1>2 DEF Next, Down, Motion, Cancel, Enter, Leave, Hover, Press, PointerGone,
                StateFrame, SnapEnds
  <1> QED BY <1>1, <1>2

(***************************************************************************)
(* Every request ends a press: that of the finger that came down last, or  *)
(* that of the pointer's button.                                           *)
(***************************************************************************)
THEOREM PressesSend == Spec => RequestsEndAPress
  <1>1. ASSUME InputOK, [Next]_vars, sent' # NoRequest, ~UNCHANGED vars
        PROVE  \/ down \ down' = {finger} /\ finger' = NoFinger
               \/ pointer.pressed /\ ~pointer'.pressed
    <2>1. CASE \E f \in Fingers : Up(f) /\ finger = f
      <3>1. PICK f \in Fingers : Up(f) /\ finger = f BY <2>1
      <3>2. f \in down /\ down' = down \ {f} /\ finger' = NoFinger BY <3>1 DEF Up
      <3> QED BY <3>1, <3>2
    <2>2. CASE Release
      <3>1. pointer'.pressed = FALSE /\ pointer.pressed BY <2>2, <1>1 DEF Release, InputOK
      <3> QED BY <3>1
    <2> QED BY <1>1, <2>1, <2>2, Senders
  <1>2. InputOK /\ [Next]_vars
          => [sent' # NoRequest =>
                \/ down \ down' = {finger} /\ finger' = NoFinger
                \/ pointer.pressed /\ ~pointer'.pressed]_vars
    BY <1>1
  <1> QED BY <1>2, InputInvariant, PTL DEF Spec, RequestsEndAPress

-----------------------------------------------------------------------------
(* What a lift sends.                                                      *)

\* What the lift of a drag does.
DragEnds ==
  IF spot.on = "search" THEN sent' = Request("keyboard", 0) /\ drag' = drag
  ELSE sent' = NoRequest /\ ~drag'.swiping

(***************************************************************************)
(* Whatever a drag over the drawer began and ended on, it launches nothing;*)
(* over the search bar it asks for the keyboard and is left open.          *)
(***************************************************************************)
THEOREM DragsAreQuiet == Spec => DragsLaunchNothing
  <1>1. ASSUME InputOK, NEW f \in Fingers, Lifts(f), mode = "launcher", seen.launcher,
               drag.swiping, seen.panel # "quick"
        PROVE  DragEnds
    <2>1. Lift BY <1>1 DEF Lifts, Up
    <2>2. QuickControl(spot) = None BY <1>1 DEF QuickControl
    <2>3. CASE spot.on = "search"
      <3>1. LiftOnSearch BY <1>1, <2>1, <2>2, <2>3 DEF Lift
      <3> QED BY <2>3, <3>1 DEF LiftOnSearch, DragEnds
    <2>4. CASE spot.on # "search"
      <3>1. LiftAfterSwipe BY <1>1, <2>1, <2>2, <2>4 DEF Lift
      <3>2. drag'.swiping = FALSE BY <1>1, <3>1 DEF LiftAfterSwipe, InputOK
      <3> QED BY <2>4, <3>1, <3>2 DEF LiftAfterSwipe, DragEnds
    <2> QED BY <2>3, <2>4
  <1>2. InputOK /\ [Next]_vars
          => [\A f \in Fingers :
                Lifts(f) /\ mode = "launcher" /\ seen.launcher
                    /\ drag.swiping /\ seen.panel # "quick"
                  => IF spot.on = "search"
                     THEN sent' = Request("keyboard", 0) /\ drag' = drag
                     ELSE sent' = NoRequest /\ ~drag'.swiping]_vars
    BY <1>1 DEF DragEnds
  <1> QED BY <1>2, InputInvariant, PTL DEF Spec, DragsLaunchNothing

(***************************************************************************)
(* A key under the last finger is typed.                                   *)
(***************************************************************************)
THEOREM KeysReach == Spec => KeysAreTyped
  <1>1. ASSUME InputOK, NEW f \in Fingers, Lifts(f), mode = "osk", target.kind = "key",
               seen.panel # "quick"
        PROVE  sent' = Request("key", 0)
    <2>1. Lift BY <1>1 DEF Lifts, Up
    <2>2. QuickControl(spot) = None BY <1>1 DEF QuickControl
    <2>3. LiftOnTarget BY <1>1, <2>1, <2>2 DEF Lift, PanelOnly
    <2>4. target # NoTarget BY <1>1 DEF NoTarget, None
    <2> QED BY <1>1, <2>3, <2>4 DEF LiftOnTarget, InputOK
  <1>2. InputOK /\ [Next]_vars
          => [\A f \in Fingers :
                Lifts(f) /\ mode = "osk" /\ target.kind = "key" /\ seen.panel # "quick"
                  => sent' = Request("key", 0)]_vars
    BY <1>1
  <1> QED BY <1>2, InputInvariant, PTL DEF Spec, KeysAreTyped

-----------------------------------------------------------------------------
(* Types, pages and fingers.                                               *)

(***************************************************************************)
(* The finger that is listened to is on the glass: none whose lift or      *)
(* whose cancel was told goes on to highlight, to drag or to hold a press  *)
(* against the pointer (shell_input.c:370-446, 712-740).                   *)
(***************************************************************************)
FingerIsDown == finger \in down \cup {NoFinger}

(***************************************************************************)
(* A swipe that was let go heads for the page that is shown or for one     *)
(* next to it, although new swipes may begin while it moves                *)
(* (shell_input.c:596-626, 391-411).                                       *)
(***************************************************************************)
SnapsToANeighbour ==
  snap # NoIndex => snap \in {page - 1, page, page + 1}

TypedOK ==
  TypeOK /\ FingerIsDown /\ SnapsToANeighbour /\ down \subseteq Fingers /\ spot \in AllSpots

LEMMA TargetType ==
  ASSUME NEW m \in Modes, NEW s \in AllSpots, NEW p \in 0 .. LastPage
  PROVE  TargetAt(m, s, p) \in Targets /\ NoTarget \in Targets
  <1>1. s \in Positions BY InputAssumption DEF AllSpots
  <1>2. s.index \in Nat /\ (s.on = "drawer" => s.index = 0) BY <1>1 DEF Positions
  <1>3. NoTarget \in Targets BY DEF Targets
  <1>4. CASE m = "launcher" /\ s.on = "tile" BY <1>4 DEF TargetAt, Targets
  <1>5. CASE m = "launcher" /\ s.on = "close" BY <1>5 DEF TargetAt, Targets
  <1>6. CASE m = "osk" /\ s.on = "key" BY <1>6 DEF TargetAt, Targets
  <1>7. CASE m = "gesture" /\ s.on = "handle" BY <1>7 DEF TargetAt, Targets
  <1>8. CASE m = "sidebar" /\ s.on = "app" BY <1>2, <1>8 DEF TargetAt, Targets
  <1>9. CASE m = "sidebar" /\ s.on = "drawer" BY <1>2, <1>9 DEF TargetAt, Targets
  <1>10. CASE /\ ~(m = "launcher" /\ s.on \in {"tile", "close"})
              /\ ~(m = "osk" /\ s.on = "key")
              /\ ~(m = "gesture" /\ s.on = "handle")
              /\ ~(m = "sidebar" /\ s.on \in {"app", "drawer"})
    BY <1>3, <1>10 DEF TargetAt
  <1> QED BY <1>3, <1>4, <1>5, <1>6, <1>7, <1>8, <1>9, <1>10

LEMMA Columns == ASSUME NEW s \in AllSpots PROVE s.col \in 0 .. 2
  BY InputAssumption DEF AllSpots, Positions

LEMMA SnapPageOK ==
  ASSUME TypeOK
  PROVE  SnapPage \in 0 .. LastPage /\ SnapPage \in {page - 1, page, page + 1}
  <1>1. page \in 0 .. LastPage /\ LastPage \in Nat BY InputAssumption DEF TypeOK
  <1>2. CASE drag.offset < -1 /\ page < LastPage BY <1>1, <1>2 DEF SnapPage
  <1>3. CASE ~(drag.offset < -1 /\ page < LastPage) /\ drag.offset > 1 /\ page > 0
    BY <1>1, <1>3 DEF SnapPage
  <1>4. CASE ~(drag.offset < -1 /\ page < LastPage) /\ ~(drag.offset > 1 /\ page > 0)
    <2>1. SnapPage = page BY <1>4 DEF SnapPage
    <2> QED BY <1>1, <2>1
  <1> QED BY <1>2, <1>3, <1>4

\* A lift may begin a snap and end a swipe; the page stays.
LEMMA LiftTyped ==
  ASSUME TypedOK, Lift, UNCHANGED page
  PROVE  /\ target' \in Targets
         /\ snap' \in NoIndex .. LastPage /\ SnapsToANeighbour'
         /\ drag' \in [from : 0 .. 2, offset : -2 .. 2, swiping : BOOLEAN]
         /\ menu' \in Nat \cup {NoIndex}
  <1> USE DEF TypedOK
  <1>1. target' \in {target, NoTarget} BY LiftTarget
  <1>2. target' \in Targets BY <1>1 DEF TypeOK, Targets
  <1>3. CASE LiftAfterSwipe
    <2>1. snap' \in 0 .. LastPage /\ snap' \in {page - 1, page, page + 1}
      BY <1>3, SnapPageOK DEF LiftAfterSwipe
    <2>2. snap' \in NoIndex .. LastPage /\ SnapsToANeighbour'
      BY <2>1, InputAssumption DEF NoIndex, SnapsToANeighbour
    <2>3. drag' = [drag EXCEPT !.swiping = FALSE] /\ UNCHANGED menu
      BY <1>3 DEF LiftAfterSwipe
    <2> QED BY <1>2, <2>2, <2>3 DEF TypeOK
  <1>4. CASE ~LiftAfterSwipe
    <2>1. UNCHANGED <<snap, drag>>
      BY <1>4 DEF Lift, LiftOnControl, LiftOnSearch, LiftOnSidebar, LiftOnPanel,
                  LiftOnTarget
    <2>2. menu' \in {menu, NoIndex} \/ (menu' = target.index /\ target.kind = "app")
      <3>1. CASE LiftOnSidebar BY <3>1 DEF LiftOnSidebar
      <3>2. CASE ~LiftOnSidebar
        BY <1>4, <3>2 DEF Lift, LiftOnControl, LiftOnSearch, LiftOnPanel, LiftOnTarget
      <3> QED BY <3>1, <3>2
    <2>3. target.kind = "app" => target.index \in Nat
      BY DEF TypeOK, Targets, NoTarget, None
    <2>4. menu' \in Nat \cup {NoIndex} BY <2>2, <2>3 DEF TypeOK
    <2> QED BY <1>2, <2>1, <2>4 DEF TypeOK, SnapsToANeighbour
  <1> QED BY <1>3, <1>4

LEMMA DownTyped ==
  ASSUME TypedOK, NEW f \in Fingers, NEW m \in Modes, NEW s \in Spots[m], Down(f, m, s)
  PROVE  TypedOK'
  <1>1. s \in AllSpots BY DEF AllSpots
  <1>2. s.col \in 0 .. 2 BY <1>1, Columns
  <1>3. target' \in Targets
    <2>1. target' \in {NoTarget, TargetAt(m, s, page)} BY DEF Down
    <2> QED BY <1>1, <2>1, TargetType DEF TypedOK, TypeOK
  <1>4. /\ page' \in 0 .. LastPage /\ snap' \in NoIndex .. LastPage
        /\ SnapsToANeighbour'
        /\ drag' \in [from : 0 .. 2, offset : -2 .. 2, swiping : BOOLEAN]
    <2>1. CASE m = "launcher"
      <3>1. page' = (IF snap = NoIndex THEN page ELSE snap) /\ snap' = NoIndex
        BY <2>1 DEF Down
      <3>2. page' \in 0 .. LastPage /\ snap' \in NoIndex .. LastPage
        BY <3>1, InputAssumption DEF TypedOK, TypeOK, NoIndex
      <3>3. drag' = [from |-> s.col, offset |-> 0, swiping |-> FALSE]
        BY <2>1 DEF Down
      <3> QED BY <1>2, <3>1, <3>2, <3>3 DEF SnapsToANeighbour
    <2>2. CASE m # "launcher"
      BY <2>2 DEF Down, TypedOK, TypeOK, SnapsToANeighbour
    <2> QED BY <2>1, <2>2
  <1> QED BY <1>1, <1>3, <1>4 DEF Down, TypedOK, TypeOK, FingerIsDown

LEMMA MotionTyped ==
  ASSUME TypedOK, NEW f \in Fingers, NEW s \in AllSpots, Motion(f, s)
  PROVE  TypedOK'
  <1> USE DEF TypedOK
  <1>1. CASE finger # f
    BY <1>1 DEF Motion, TypeOK, FingerIsDown, SnapsToANeighbour
  <1>2. CASE finger = f
    <2>1. target' \in Targets
      <3>1. target' \in {target, TargetAt(mode, s, page)} BY <1>2 DEF Motion
      <3> QED BY <3>1, TargetType DEF TypeOK
    <2>2. drag' \in [from : 0 .. 2, offset : -2 .. 2, swiping : BOOLEAN]
      <3>1. drag' \in {drag, [drag EXCEPT !.offset = s.col - drag.from, !.swiping = TRUE]}
        BY <1>2 DEF Motion
      <3>2. s.col \in 0 .. 2 /\ drag.from \in 0 .. 2 BY Columns DEF TypeOK
      <3>3. s.col - drag.from \in -2 .. 2 BY <3>2
      <3> QED BY <3>1, <3>3 DEF TypeOK
    <2>3. UNCHANGED <<seen, apps, mode, finger, pointer, page, snap, menu, down>> /\ spot' = s
      BY <1>2 DEF Motion
    <2> QED BY <2>1, <2>2, <2>3 DEF TypeOK, FingerIsDown, SnapsToANeighbour
  <1> QED BY <1>1, <1>2

LEMMA UpTyped ==
  ASSUME TypedOK, NEW f \in Fingers, Up(f)
  PROVE  TypedOK'
  <1> USE DEF TypedOK
  <1>1. CASE finger = f
    <2>1. Lift /\ UNCHANGED page BY <1>1 DEF Up
    <2> HIDE DEF TypedOK
    <2>2. /\ target' \in Targets
          /\ snap' \in NoIndex .. LastPage /\ SnapsToANeighbour'
          /\ drag' \in [from : 0 .. 2, offset : -2 .. 2, swiping : BOOLEAN]
          /\ menu' \in Nat \cup {NoIndex}
      BY <2>1, LiftTyped
    <2> QED BY <1>1, <2>2 DEF Up, TypedOK, TypeOK, FingerIsDown
  <1>2. CASE finger # f
    BY <1>2 DEF Up, TypeOK, FingerIsDown, SnapsToANeighbour
  <1> QED BY <1>1, <1>2

LEMMA PointerTyped ==
  ASSUME TypedOK,
         \/ \E m \in Modes : \E s \in Spots[m] : Enter(m, s)
         \/ \E s \in AllSpots : Hover(s)
         \/ Leave \/ Press \/ Release \/ PointerGone
  PROVE  TypedOK'
  <1> USE DEF TypedOK
  <1>1. NoTarget \in Targets BY DEF Targets
  <1>2. CASE \E m \in Modes : \E s \in Spots[m] : Enter(m, s)
    <2>1. PICK m \in Modes : \E s \in Spots[m] : Enter(m, s) BY <1>2
    <2>2. PICK s \in Spots[m] : Enter(m, s) BY <2>1
    <2>3. s \in AllSpots BY DEF AllSpots
    <2>4. pointer' \in [valid : BOOLEAN, pressed : BOOLEAN] BY <2>2 DEF Enter, TypeOK
    <2> QED BY <2>2, <2>3, <2>4 DEF Enter, TypeOK, FingerIsDown, SnapsToANeighbour
  <1>3. CASE \E s \in AllSpots : Hover(s)
    <2>1. PICK s \in AllSpots : Hover(s) BY <1>3
    <2>2. target' \in {target, TargetAt(mode, s, page)} BY <2>1 DEF Hover
    <2>3. target' \in Targets BY <2>2, TargetType DEF TypeOK
    <2> QED BY <2>1, <2>3 DEF Hover, TypeOK, FingerIsDown, SnapsToANeighbour
  <1>4. CASE Press
    <2>1. target' = TargetAt(mode, spot, page) BY <1>4 DEF Press
    <2>2. target' \in Targets BY <2>1, TargetType DEF TypeOK
    <2>3. pointer' \in [valid : BOOLEAN, pressed : BOOLEAN] BY <1>4 DEF Press, TypeOK
    <2> QED BY <1>4, <2>2, <2>3 DEF Press, TypeOK, FingerIsDown, SnapsToANeighbour
  <1>5. CASE Leave \/ Release \/ PointerGone
    <2>1. target' \in {target, NoTarget} BY <1>5 DEF Leave, Release, PointerGone
    <2>2. target' \in Targets BY <1>1, <2>1 DEF TypeOK
    <2>3. pointer' \in [valid : BOOLEAN, pressed : BOOLEAN]
      <3>1. CASE Leave BY <3>1 DEF Leave, TypeOK
      <3>2. CASE Release BY <3>2 DEF Release, TypeOK
      <3>3. CASE PointerGone BY <3>3 DEF PointerGone
      <3> QED BY <1>5, <3>1, <3>2, <3>3
    <2>4. UNCHANGED <<apps, mode, spot, finger, page, snap, drag, menu, down>>
      BY <1>5 DEF Leave, Release, PointerGone
    <2> QED BY <2>2, <2>3, <2>4 DEF TypeOK, FingerIsDown, SnapsToANeighbour
  <1> QED BY <1>2, <1>3, <1>4, <1>5

LEMMA RestTyped ==
  ASSUME TypedOK,
         Cancel \/ SnapEnds \/ UNCHANGED vars
           \/ \E v \in Announced, n \in 0 .. MaxApps : StateFrame(v, n)
  PROVE  TypedOK'
  <1> USE DEF TypedOK
  <1>1. CASE Cancel
    <2>1. target' \in {target, NoTarget} BY <1>1 DEF Cancel
    <2>2. target' \in Targets BY <2>1 DEF Targets, TypeOK
    <2> QED BY <1>1, <2>2 DEF Cancel, TypeOK, FingerIsDown, SnapsToANeighbour
  <1>2. CASE SnapEnds
    <2>1. page' \in 0 .. LastPage /\ snap' \in NoIndex .. LastPage /\ snap' = NoIndex
      BY <1>2, InputAssumption DEF SnapEnds, TypeOK, NoIndex
    <2>2. drag' \in [from : 0 .. 2, offset : -2 .. 2, swiping : BOOLEAN]
      BY <1>2 DEF SnapEnds, TypeOK
    <2> QED BY <1>2, <2>1, <2>2 DEF SnapEnds, TypeOK, FingerIsDown, SnapsToANeighbour
  <1>3. CASE UNCHANGED vars
    BY <1>3 DEF vars, client, TypeOK, FingerIsDown, SnapsToANeighbour
  <1>4. CASE \E v \in Announced, n \in 0 .. MaxApps : StateFrame(v, n)
    BY <1>4 DEF StateFrame, client, TypeOK, FingerIsDown, SnapsToANeighbour
  <1> QED BY <1>1, <1>2, <1>3, <1>4

LEMMA TypedInit == Init => TypedOK
  BY InputAssumption DEF Init, TypedOK, TypeOK, FingerIsDown, SnapsToANeighbour, NoIndex,
     AllSpots, Targets

LEMMA TypedStep == ASSUME TypedOK, [Next]_vars PROVE TypedOK'
  BY DownTyped, MotionTyped, UpTyped, PointerTyped, RestTyped DEF Next

(***************************************************************************)
(* The client's variables have their types, whatever fingers and pointer   *)
(* do: the page is one of the drawer's, the menu stands at an icon.        *)
(***************************************************************************)
THEOREM InputTyped == Spec => []TypeOK
  <1>1. TypedOK => TypeOK BY DEF TypedOK
  <1> QED BY <1>1, TypedInit, TypedStep, PTL DEF Spec

(***************************************************************************)
(* No finger is listened to after it was lifted or taken back.             *)
(***************************************************************************)
THEOREM NoGhostFinger == Spec => []FingerIsDown
  <1>1. TypedOK => FingerIsDown BY DEF TypedOK
  <1> QED BY <1>1, TypedInit, TypedStep, PTL DEF Spec

(***************************************************************************)
(* However swipes, taps and the end of the animation follow each other,    *)
(* the drawer is turned by one page at a time (shell_input.c:391-411,      *)
(* 596-626, shell_render.c:552-575).                                       *)
(***************************************************************************)
PagesTurnByOne == [][page' \in {page - 1, page, page + 1}]_vars

(***************************************************************************)
(* The drawer skips no page.                                               *)
(***************************************************************************)
THEOREM NoPageSkipped == Spec => PagesTurnByOne
  <1>1. ASSUME TypedOK, [Next]_vars PROVE page' \in {page - 1, page, page + 1}
    <2>1. page' \in {page, snap} /\ (page' = page \/ snap # NoIndex)
      BY <1>1 DEF Next, Down, Motion, Up, Cancel, Enter, Hover, Leave, Press, Release,
                  PointerGone, StateFrame, SnapEnds, vars, client
    <2>2. snap # NoIndex => snap \in {page - 1, page, page + 1}
      BY <1>1 DEF TypedOK, SnapsToANeighbour
    <2> QED BY <2>1, <2>2
  <1> QED BY <1>1, TypedInit, TypedStep, PTL DEF Spec, PagesTurnByOne
=============================================================================
