--------------------------- MODULE ShellUiProofs ---------------------------
(***************************************************************************)
(* The invariants of ShellUi hold for every set of windows, every choice   *)
(* of applications and every width of the resize serial.  The inductive    *)
(* invariant is UiOK of UiStateProofs: each handler is a composition of    *)
(* setters, so its lemma composes theirs.                                  *)
(***************************************************************************)
EXTENDS ShellUi, UiStateProofs, SequenceTheorems

\* Small changes of the record that no setter makes.
LEMMA MessageOK ==
  ASSUME NEW u, UiOK(u), NEW m \in {"none", "toast", "search"},
         m = "search" => u.launcher
  PROVE  UiOK(MarkStateDirty([u EXCEPT !.message = m]))
  <1> DEFINE a == [u EXCEPT !.message = m]
  <1>1. u \in UiType BY DEF UiOK, Settled
  <1>2. a \in UiType BY <1>1 DEF UiType
  <1>3. Settled(a) /\ Reserved(a) /\ AutoShown(a)
    BY <1>1, <1>2 DEF UiOK, Settled, Reserved, Fresh, NoGhost,
       WantedHitboxes, AutoShown, UiType
  <1> HIDE DEF a
  <1>4. UiOK(MarkStateDirty(a)) BY <1>2, <1>3, MarkStateDirtyOK DEF UiOK
  <1> QED BY <1>4 DEF a

LEMMA ShiftOK ==
  ASSUME NEW u, UiOK(u), NEW x \in BOOLEAN
  PROVE  UiOK(MarkStateDirty([u EXCEPT !.shift = x]))
  <1> DEFINE a == [u EXCEPT !.shift = x]
  <1>1. u \in UiType BY DEF UiOK, Settled
  <1>2. a \in UiType BY <1>1 DEF UiType
  <1>3. Settled(a) /\ Reserved(a) /\ AutoShown(a)
    BY <1>1, <1>2 DEF UiOK, Settled, Reserved, Fresh, NoGhost,
       WantedHitboxes, AutoShown, UiType
  <1> HIDE DEF a
  <1>4. UiOK(MarkStateDirty(a)) BY <1>2, <1>3, MarkStateDirtyOK DEF UiOK
  <1> QED BY <1>4 DEF a

LEMMA PageOK ==
  ASSUME NEW u, UiOK(u), NEW x \in OskPages
  PROVE  UiOK(MarkStateDirty([u EXCEPT !.page = x]))
  <1> DEFINE a == [u EXCEPT !.page = x]
  <1>1. u \in UiType BY DEF UiOK, Settled
  <1>2. a \in UiType BY <1>1 DEF UiType
  <1>3. Settled(a) /\ Reserved(a) /\ AutoShown(a)
    BY <1>1, <1>2 DEF UiOK, Settled, Reserved, Fresh, NoGhost,
       WantedHitboxes, AutoShown, UiType
  <1> HIDE DEF a
  <1>4. UiOK(MarkStateDirty(a)) BY <1>2, <1>3, MarkStateDirtyOK DEF UiOK
  <1> QED BY <1>4 DEF a

LEMMA MarksOK ==
  ASSUME NEW u, UiOK(u)
  PROVE  /\ UiOK(MarkStateDirty(u)) /\ UiOK(MarkLayersDirty(u))
         /\ UiOK(Publish(u))
         /\ MarkStateDirty(u).launcher = u.launcher
  <1>1. u \in UiType BY DEF UiOK, Settled
  <1> QED BY <1>1, MarkStateDirtyOK, MarkLayersDirtyOK, PublishOK
          DEF UiOK, Reserved

\* Broadcasting the state, and an output that goes away.
LEMMA FlagsOK ==
  ASSUME NEW u, UiOK(u), NEW built \in BOOLEAN
  PROVE  /\ UiOK(Broadcast(u, built))
         /\ UiOK([u EXCEPT !.stateIdle = FALSE])
         /\ UiOK([u EXCEPT !.output = FALSE])
  <1> DEFINE x == u.stateDirty /\ ~built
             a == [u EXCEPT !.stateDirty = x]
             b == [u EXCEPT !.output = FALSE]
             c == [u EXCEPT !.stateIdle = FALSE]
  <1>1. u \in UiType BY DEF UiOK, Settled
  <1>2. a \in UiType /\ b \in UiType /\ c \in UiType
    <2>1. x \in BOOLEAN OBVIOUS
    <2> HIDE DEF x
    <2> QED BY <1>1, <2>1 DEF UiType
  <1>3. UiOK(a)
    BY <1>1, <1>2 DEF UiOK, Settled, Reserved, Fresh, NoGhost,
       WantedHitboxes, AutoShown, UiType
  <1>4. UiOK(b)
    BY <1>1, <1>2 DEF UiOK, Settled, Reserved, Fresh, NoGhost, AutoShown, UiType
  <1>5. UiOK(c)
    BY <1>1, <1>2 DEF UiOK, Settled, Reserved, Fresh, NoGhost,
       WantedHitboxes, AutoShown, UiType
  <1>6. Broadcast(u, built) = a BY <1>1 DEF Broadcast, UiType
  <1> QED BY <1>3, <1>4, <1>5, <1>6

\* The OSK surface comes, is mapped and goes.
LEMMA OskSurfaceOK ==
  ASSUME NEW u, UiOK(u), NEW t \in OskSurfaces, NEW n \in OskNodes
  PROVE  UiOK([u EXCEPT !.oskSurface = t, !.oskNode = n])
  <1> DEFINE a == [u EXCEPT !.oskSurface = t, !.oskNode = n]
  <1>1. u \in UiType BY DEF UiOK, Settled
  <1>2. a \in UiType BY <1>1 DEF UiType
  <1> QED
    BY <1>1, <1>2 DEF UiOK, Settled, Reserved, Fresh, NoGhost,
       WantedHitboxes, AutoShown, UiType

-----------------------------------------------------------------------------
\* The requests of the bridge that only call setters.
LEMMA RequestStep ==
  ASSUME UiOK(ui), Requests
  PROVE  UiOK(ui')
  <1> USE DEF UiStep
  <1>1. CASE RequestLauncher BY <1>1, SetLauncherOK DEF RequestLauncher
  <1>2. CASE RequestKeyboard BY <1>2, SetKeyboardUiOK DEF RequestKeyboard
  <1>3. CASE RequestScrim BY <1>3, SetScrimOK DEF RequestScrim
  <1>4. CASE RequestAckResize BY <1>4, AckResizeOK DEF RequestAckResize
  <1>5. CASE RequestAudit BY <1>5, SetAuditOK DEF RequestAudit
  <1>6. CASE ShowToast BY <1>6, MessageOK DEF ShowToast
  <1>7. CASE CaptureScreenshot BY <1>7, HidePanelsOK DEF CaptureScreenshot
  <1>8. CASE OpenDrawer BY <1>8, SetSidebarOK, SetLauncherOK DEF OpenDrawer
  <1>9. CASE CycleRotation
    <2>1. \A scene \in {"off", "on"} : UiOK(ConfigureAllLayers(ui, scene))
      BY ConfigureAllLayersOK DEF UiOK
    <2> QED BY <1>9, <2>1, MarksOK DEF CycleRotation
  <1>10. "dimmed" \in Scrims /\ "hidden" \in Scrims BY DEF Scrims
  <1>11. CASE LauncherTile
    <2>1. UiOK(SetScrim(ui, "dimmed")) BY <1>10, SetScrimOK
    <2> QED BY <1>11, <2>1, SetLauncherOK DEF LauncherTile
  <1>12. CASE GestureHandle
    <2>1. UiOK(HideEverything(ui))
      BY HidePanelsOK, SetKeyboardUiOK, SetLauncherOK, SetSidebarOK
         DEF HideEverything
    <2> QED BY <1>10, <1>12, <2>1, SetScrimOK DEF GestureHandle
  <1>13. UiOK(SetSidebar(SetLauncher(ui, FALSE), FALSE))
    BY SetLauncherOK, SetSidebarOK
  <1>14. CASE CloseAppAt \/ CloseFocusedApp
    BY <1>14 DEF CloseAppAt, CloseFocusedApp
  <1>15. CASE FocusApp BY <1>10, <1>13, <1>15, SetScrimOK DEF FocusApp
  <1>16. CASE MinimizeFocused
    BY <1>10, <1>13, <1>16, SetScrimOK DEF MinimizeFocused
  <1>17. CASE NewWindow BY <1>17, SetSidebarOK DEF NewWindow
  <1>18. ASSUME NEW k \in Keys, OskKey(k) PROVE UiOK(ui')
    <2>1. ui \in UiType BY DEF UiOK, Settled
    <2>2. CASE UiStep(MarkStateDirty([ui EXCEPT !.shift = ~@]))
      <3>1. (~ui.shift) \in BOOLEAN OBVIOUS
      <3> QED BY <2>2, <3>1, ShiftOK
    <2>3. CASE UiStep(SetKeyboard(ui, FALSE))
      BY <2>3, SetKeyboardUiOK
    <2>4. CASE UiStep(MarkStateDirty([ui EXCEPT !.page = (@ + 1) % 3]))
      <3>1. (ui.page + 1) % 3 \in OskPages BY <2>1 DEF UiType, OskPages
      <3> QED BY <2>4, <3>1, PageOK
    <2> DEFINE u == ConsumeShift(ui, k)
    <2>5. UiOK(u) /\ u.launcher = ui.launcher
      <3> DEFINE a == [ui EXCEPT !.shift = FALSE]
      <3>1. UiOK(MarkStateDirty(a)) BY ShiftOK
      <3>2. a \in UiType /\ a.launcher = ui.launcher BY <2>1 DEF UiType
      <3>3. MarkStateDirty(a).launcher = ui.launcher
        <4> HIDE DEF a
        <4> QED BY <3>2, MarkStateDirtyOK
      <3>4. u = ui \/ u = MarkStateDirty(a) BY DEF ConsumeShift
      <3> HIDE DEF a
      <3> QED BY <3>1, <3>3, <3>4
    <2>6. CASE TypeIntoApp(u) \/ TypeOnSeat(u)
      BY <2>5, <2>6 DEF TypeIntoApp, TypeOnSeat
    <2>7. CASE TypeIntoSearch(k, u)
      <3> HIDE DEF u
      <3>1. SearchAfter(k, ui.message) \subseteq {"none", "toast", "search"}
        BY <2>1 DEF SearchAfter, UiType
      <3> QED BY <2>5, <2>7, <3>1, MessageOK DEF TypeIntoSearch
    <2> QED BY <1>18, <2>2, <2>3, <2>4, <2>6, <2>7 DEF OskKey
  <1> QED BY <1>1, <1>2, <1>3, <1>4, <1>5, <1>6, <1>7, <1>8, <1>9, <1>11,
             <1>12, <1>14, <1>15, <1>16, <1>17, <1>18 DEF Requests

\* Edge gestures, taps and touches.
LEMMA AutoShowOK ==
  ASSUME NEW u, UiOK(u), NEW w
  PROVE  UiOK(AutoShowKeyboard(u, w))
  <1> DEFINE a == [u EXCEPT !.autoShown = TRUE]
  <1>1. u \in UiType BY DEF UiOK, Settled
  <1>2. a \in UiType BY <1>1 DEF UiType
  <1>3. Settled(a) /\ Reserved(a)
    BY <1>1, <1>2 DEF UiOK, Settled, Reserved, Fresh, NoGhost,
       WantedHitboxes, UiType
  <1> HIDE DEF a
  <1>4. UiOK(SetKeyboard(a, TRUE)) BY <1>2, <1>3, SetKeyboardOK DEF UiOK
  <1> QED BY <1>4 DEF AutoShowKeyboard, a

LEMMA GestureStep ==
  ASSUME UiOK(ui), Zones \subseteq Panels, Gestures
  PROVE  UiOK(ui')
  <1> USE DEF UiStep
  <1>1. "dimmed" \in Scrims /\ "hidden" \in Scrims BY DEF Scrims
  <1>2. CASE EdgeTop
    <2>1. PICK p \in Zones :
            ui' = TogglePanel(HidePanels(SetLauncher(ui, FALSE), Panels \ {p}), p)
      BY <1>2 DEF EdgeTop
    <2> DEFINE a == SetLauncher(ui, FALSE)
               u == HidePanels(a, Panels \ {p})
    <2>2. UiOK(u) /\ u.panels = ui.panels \ (Panels \ {p})
      <3>1. UiOK(a) /\ a.panels = ui.panels BY SetLauncherOK
      <3> HIDE DEF a
      <3> QED BY <3>1, HidePanelsOK
    <2>3. ui.panels \subseteq Panels BY DEF UiOK, Settled, UiType
    <2>4. u.panels \subseteq {p} BY <2>2, <2>3
    <2> HIDE DEF u
    <2>5. UiOK(ShowPanel(u, p)) /\ UiOK(HidePanels(u, {p}))
      BY <2>2, <2>4, ShowPanelOK, HidePanelsOK
    <2> QED BY <2>1, <2>5 DEF TogglePanel, u
  <1>3. CASE EdgeLeft
    <2>1. /\ UiOK(SetAudit(ui, FALSE)) /\ UiOK(SetLauncher(ui, FALSE))
          /\ UiOK(SetSidebar(ui, TRUE))
          /\ UiOK(HidePanels(ui, {FirstPanel(ui.panels)}))
      BY SetAuditOK, HidePanelsOK, SetLauncherOK, SetSidebarOK
    <2> QED BY <1>3, <2>1 DEF EdgeLeft
  <1>4. CASE EdgeRight
    <2> DEFINE u == SetSidebar(HidePanels(ui, Panels), FALSE)
    <2>1. UiOK(u) BY HidePanelsOK, SetSidebarOK
    <2>2. UiOK(MarkLayersDirty(SetScrim(u, "hidden")))
      BY <1>1, <2>1, SetScrimOK, MarksOK
    <2>3. CASE \E w \in Listed : BackClosesApp(u, w)
      BY <2>2, <2>3 DEF BackClosesApp
    <2>4. UiOK(SetAudit(ui, FALSE)) /\ UiOK(SetKeyboard(u, FALSE))
          /\ UiOK(SetLauncher(u, FALSE))
      BY <2>1, SetAuditOK, SetKeyboardUiOK, SetLauncherOK
    <2> QED BY <1>4, <2>1, <2>3, <2>4 DEF EdgeRight
  <1>5. CASE EdgeBottom
    <2> DEFINE a == SetAudit(ui, FALSE)
               u == SetSidebar(a, FALSE)
    <2>1. UiOK(a) /\ UiOK(u) BY SetAuditOK, SetSidebarOK
    <2>2. /\ UiOK(MarkLayersDirty(SetScrim(u, "hidden")))
          /\ UiOK(SetKeyboard(u, FALSE))
          /\ UiOK(SetKeyboard(SetLauncher(a, FALSE), FALSE))
      BY <1>1, <2>1, SetScrimOK, MarksOK, SetKeyboardUiOK, SetLauncherOK
    <2> QED BY <1>5, <2>1, <2>2 DEF EdgeBottom
  <1>6. CASE DismissPanels BY <1>6, HidePanelsOK DEF DismissPanels
  <1>7. CASE DismissSidebar BY <1>7, SetSidebarOK DEF DismissSidebar
  <1>8. CASE DismissLauncher BY <1>8, SetLauncherOK DEF DismissLauncher
  <1>9. CASE PinchBegin BY <1>9, SetKeyboardUiOK DEF PinchBegin
  <1>10. CASE AuditCompleted BY <1>10, SetAuditOK DEF AuditCompleted
  <1>11. CASE TouchApp BY <1>11, AutoShowOK DEF TouchApp, FocusWindow
  <1>12. CASE TouchShell BY <1>12, AutoShowOK DEF TouchShell, FocusWindow
  <1> QED BY <1>2, <1>3, <1>4, <1>5, <1>6, <1>7, <1>8, <1>9, <1>10, <1>11,
             <1>12 DEF Gestures

\* The callbacks of wlroots, the frame and the timers.
LEMMA CallbackStep ==
  ASSUME UiOK(ui), Callbacks
  PROVE  UiOK(ui')
  <1> USE DEF UiStep
  <1>1. ui \in UiType BY DEF UiOK, Settled
  <1>2. /\ UiOK(SetKeyboard(ui, TRUE)) /\ UiOK(SetKeyboard(ui, FALSE))
        /\ \A ins : UiOK(RefreshKeyboard(ui, ins))
    BY SetKeyboardUiOK DEF RefreshKeyboard
  <1>3. CASE NewToplevel BY <1>3 DEF NewToplevel
  <1>4. CASE MapToplevel BY <1>4, MarksOK DEF MapToplevel
  <1>5. CASE UnmapToplevel BY <1>5, MarksOK DEF UnmapToplevel
  <1>6. CASE DestroyToplevel BY <1>2, <1>6, MarksOK DEF DestroyToplevel, AfterDestroy
  <1>7. CASE SurfaceDestroy \/ NewTextInput \/ InputRequest
    BY <1>7 DEF SurfaceDestroy, NewTextInput, InputRequest, InputStep
  <1>8. CASE InputCommit BY <1>2, <1>8 DEF InputCommit, InputStep
  <1>9. CASE InputDestroy BY <1>2, <1>9 DEF InputDestroy, InputStep
  <1>10. \A t \in OskSurfaces, n \in OskNodes :
           LET a == [ui EXCEPT !.oskSurface = t, !.oskNode = n] IN
           UiOK(a) /\ UiOK(MarkLayersDirty(a))
    BY OskSurfaceOK, MarksOK
  <1>11. CASE OskSurfaceCreate \/ OskSurfaceDestroy \/ OskSurfaceMap
    <2>1. {"none", "created", "mapped"} \subseteq OskSurfaces /\ OskNodes = {"off", "on"}
      BY DEF OskSurfaces, OskNodes
    <2> QED BY <1>10, <1>11, <2>1
            DEF OskSurfaceCreate, OskSurfaceDestroy, OskSurfaceMap, MapOsk
  <1>12. CASE LayerSurfaceCommit BY <1>12, MarksOK DEF LayerSurfaceCommit
  <1>13. CASE OutputAdd
    <2> DEFINE a == [ui EXCEPT !.output = TRUE]
    <2>1. a \in UiType /\ a.output BY <1>1 DEF UiType
    <2>2. Settled(a) /\ AutoShown(a)
      BY <1>1, <2>1 DEF UiOK, Settled, AutoShown, UiType
    <2>3. \A scene \in {"off", "on"} : UiOK(ConfigureAllLayers(a, scene))
      <3> HIDE DEF a
      <3> QED BY <2>1, <2>2, ConfigureAllLayersOK
    <2> QED BY <1>13, <2>3 DEF OutputAdd
  <1>14. CASE OutputRemove BY <1>14, FlagsOK DEF OutputRemove
  <1>15. CASE Frame
    <2>1. PICK built \in BOOLEAN :
            LET u == Broadcast(ui, built) IN
            \/ \E scene \in {"off", "on"} : UiStep(ConfigureAllLayers(u, scene))
            \/ UiStep(u)
      BY <1>15 DEF Frame
    <2> DEFINE a == Broadcast(ui, built)
    <2>2. UiOK(a) BY FlagsOK
    <2> HIDE DEF a
    <2>3. \A scene \in {"off", "on"} : UiOK(ConfigureAllLayers(a, scene))
      BY <2>2, ConfigureAllLayersOK DEF UiOK
    <2> QED BY <2>1, <2>2, <2>3 DEF a
  <1>16. CASE BroadcastIdle
    <2> DEFINE a == [ui EXCEPT !.stateIdle = FALSE]
    <2>1. UiOK(a) BY FlagsOK
    <2> HIDE DEF a
    <2>2. \A built \in BOOLEAN : UiOK(Broadcast(a, built)) BY <2>1, FlagsOK
    <2> QED BY <1>16, <2>2 DEF BroadcastIdle, a
  <1>17. CASE SidebarTimeout BY <1>17, SetSidebarOK DEF SidebarTimeout
  <1> QED BY <1>3, <1>4, <1>5, <1>6, <1>7, <1>8, <1>9, <1>11, <1>12,
             <1>13, <1>14, <1>15, <1>16, <1>17 DEF Callbacks

-----------------------------------------------------------------------------
\* Every state of the shell's record that the program reaches is in order,
\* whatever handlers ran and in whichever order.
THEOREM UiInvariant == Spec => []UiOK(ui)
  <1>1. Init => UiOK(ui) BY InitOK DEF Init
  <1>2. UiOK(ui) /\ [Next]_vars => UiOK(ui)'
    <2> SUFFICES ASSUME UiOK(ui), [Next]_vars PROVE UiOK(ui')
      OBVIOUS
    <2>1. CASE Next
      BY <2>1, WindowsAssumption, RequestStep, GestureStep, CallbackStep DEF Next
    <2>2. CASE UNCHANGED vars BY <2>2 DEF vars
    <2> QED BY <2>1, <2>2
  <1> QED BY <1>1, <1>2, PTL DEF Spec

\* After the frame, touches are reserved for what is on the screen.
THEOREM HitboxesSafe == Spec => []HitboxesFresh
  <1>1. UiOK(ui) => HitboxesFresh
    BY DEF UiOK, Reserved, Fresh, HitboxesFresh
  <1> QED BY <1>1, UiInvariant, PTL

\* No hitbox outlives its surface, frame or no frame.
THEOREM GhostsSafe == Spec => []NoGhostHitbox
  <1>1. UiOK(ui) => NoGhostHitbox
    BY DEF UiOK, Reserved, NoGhost, NoGhostHitbox
  <1> QED BY <1>1, UiInvariant, PTL

\* The resize handshake stays coherent even when its serial wraps around.
THEOREM ResizeSafe == Spec => []ResizeHandshake
  <1>1. UiOK(ui) => ResizeHandshake
    BY DEF UiOK, Settled, ResizeHandshake
  <1> QED BY <1>1, UiInvariant, PTL

\* keyboard_auto_shown does not outlive its keyboard.
THEOREM AutoShownSafe == Spec => []AutoShownIsVisible
  <1>1. UiOK(ui) => AutoShownIsVisible
    BY DEF UiOK, AutoShown, AutoShownIsVisible
  <1> QED BY <1>1, UiInvariant, PTL

\* A search query does not outlive the drawer.
THEOREM SearchSafe == Spec => []SearchEndsWithDrawer
  <1>1. UiOK(ui) => SearchEndsWithDrawer
    BY DEF UiOK, Settled, SearchEndsWithDrawer
  <1> QED BY <1>1, UiInvariant, PTL

\* The pull-down panels exclude each other.
THEOREM PanelsSafe == Spec => []OnePanelAtMost
  <1>1. UiOK(ui) => OnePanelAtMost
    BY DEF UiOK, Settled, OnePanelAtMost
  <1> QED BY <1>1, UiInvariant, PTL

-----------------------------------------------------------------------------
(* Changes are announced.                                                  *)

\* The configuration of the layers moves nothing that the shell draws.
LEMMA LayersQuiet ==
  ASSUME NEW u \in UiType, NEW scene
  PROVE  /\ Drawn(ConfigureAllLayers(u, scene)) = Drawn(u)
         /\ Drawn(MarkLayersDirty(u)) = Drawn(u)
  <1>1. Drawn(MarkLayersDirty(u)) = Drawn(u)
    BY DEF Drawn, MarkLayersDirty, UiType
  <1> DEFINE a == [u EXCEPT !.layersDirty = FALSE]
             b == SceneConfigure(a, scene)
             c == RefreshHitboxes(b)
             d == RedisableOsk(c)
  <1>2. Drawn(a) = Drawn(u) /\ DOMAIN a = DOMAIN u BY DEF Drawn, UiType
  <1>3. Drawn(b) = Drawn(a) /\ DOMAIN b = DOMAIN a
    <2> HIDE DEF a
    <2> QED BY DEF Drawn, SceneConfigure
  <1>4. Drawn(c) = Drawn(b) /\ DOMAIN c = DOMAIN b
    <2> HIDE DEF b
    <2> QED BY DEF Drawn, RefreshHitboxes
  <1>5. Drawn(d) = Drawn(c)
    <2> HIDE DEF c
    <2> QED BY DEF Drawn, RedisableOsk
  <1>6. ConfigureAllLayers(u, scene) \in {d, MarkLayersDirty(u)}
    BY DEF ConfigureAllLayers, ConfigureLayers
  <1> HIDE DEF a, b, c, d
  <1> QED BY <1>1, <1>2, <1>3, <1>4, <1>5, <1>6

\* What a step owes the shell.
Announced(u, v) == Drawn(v) # Drawn(u) => Marked(v)

\* A composition of setters owes nothing more.
LEMMA SaidIsAnnounced ==
  ASSUME NEW u, NEW v, Said(u, v)
  PROVE  Announced(u, v)
  BY DEF Said, Announced

\* Requests; only the acknowledgement of a resize goes unannounced.
LEMMA RequestAnnounced ==
  ASSUME UiOK(ui), Requests, ~RequestAckResize
  PROVE  Announced(ui, ui')
  <1> USE DEF UiStep
  <1>1. ui \in UiType /\ HasFlag(ui) BY DEF UiOK, Settled, UiType, HasFlag
  <1>2. CASE UNCHANGED ui BY <1>2 DEF Announced
  <1>3. \A v : /\ Said(ui, SetLauncher(ui, v)) /\ Said(ui, SetKeyboard(ui, v))
              /\ Said(ui, SetSidebar(ui, v)) /\ Said(ui, SetScrim(ui, v))
              /\ Said(ui, SetAudit(ui, v)) /\ Said(ui, HidePanels(ui, v))
    BY <1>1, LauncherSaid, KeyboardSaid, SidebarSaid, ScrimSaid, AuditSaid,
       PanelsSaid
  <1>4. CASE \/ RequestLauncher \/ RequestKeyboard \/ RequestScrim
             \/ RequestAudit \/ CaptureScreenshot \/ NewWindow
    BY <1>3, <1>4, SaidIsAnnounced
       DEF RequestLauncher, RequestKeyboard, RequestScrim, RequestAudit,
           CaptureScreenshot, NewWindow
  <1>6. \A x : /\ Marked(MarkStateDirty([ui EXCEPT !.message = x]))
              /\ Marked(MarkStateDirty([ui EXCEPT !.shift = x]))
              /\ Marked(MarkStateDirty([ui EXCEPT !.page = x]))
    BY <1>1 DEF HasFlag, Marked, MarkStateDirty
  <1>7. CASE ShowToast BY <1>6, <1>7 DEF ShowToast, Announced
  <1>8. CASE OpenDrawer
    <2>1. Said(ui, SetLauncher(SetSidebar(ui, FALSE), TRUE))
      BY <1>3, LauncherSaid, SaidTwice DEF Said
    <2> QED BY <1>8, <2>1, SaidIsAnnounced DEF OpenDrawer
  <1>9. CASE CycleRotation
    <2>1. PICK scene \in {"off", "on"} :
            ui' = Publish(IF ui.output THEN ConfigureAllLayers(ui, scene) ELSE ui)
      BY <1>9 DEF CycleRotation
    <2> DEFINE a == IF ui.output THEN ConfigureAllLayers(ui, scene) ELSE ui
    <2>2. UiOK(a) BY ConfigureAllLayersOK DEF UiOK
    <2>3. HasFlag(a) BY <2>2 DEF UiOK, Settled, UiType, HasFlag
    <2> HIDE DEF a
    <2>4. Marked(Publish(a)) BY <2>3, MarksSaid
    <2> QED BY <2>1, <2>4 DEF Announced, a
  <1>10. CASE LauncherTile
    <2>1. Said(ui, SetLauncher(SetScrim(ui, "dimmed"), FALSE))
      BY <1>3, LauncherSaid, SaidTwice DEF Said
    <2> QED BY <1>2, <1>3, <1>10, <2>1, SaidIsAnnounced DEF LauncherTile
  <1>11. \A u, s : HasFlag(u) => Marked(SetScrim(u, s)) BY ScrimSaid
  <1>12. CASE GestureHandle
    <2>1. HasFlag(HideEverything(ui))
      <3> DEFINE a == HidePanels(ui, Panels)
                 b == SetKeyboard(a, FALSE)
                 c == SetLauncher(b, FALSE)
                 d == SetSidebar(c, FALSE)
      <3>1. HasFlag(a) BY <1>3 DEF Said
      <3>2. HasFlag(b)
        <4> HIDE DEF a
        <4> QED BY <3>1, KeyboardSaid DEF Said
      <3>3. HasFlag(c)
        <4> HIDE DEF b
        <4> QED BY <3>2, LauncherSaid DEF Said
      <3>4. HasFlag(d)
        <4> HIDE DEF c
        <4> QED BY <3>3, SidebarSaid DEF Said
      <3> QED BY <3>4 DEF HideEverything
    <2> QED BY <1>11, <1>12, <2>1 DEF GestureHandle, Announced
  <1>13. CASE CloseAppAt \/ CloseFocusedApp
    BY <1>2, <1>13 DEF CloseAppAt, CloseFocusedApp
  <1>14. CASE FocusApp \/ MinimizeFocused
    <2>1. HasFlag(SetLauncher(ui, FALSE)) BY <1>3 DEF Said
    <2>2. HasFlag(SetSidebar(SetLauncher(ui, FALSE), FALSE))
      BY <2>1, SidebarSaid DEF Said
    <2> QED BY <1>11, <1>14, <2>2 DEF FocusApp, MinimizeFocused, Announced
  <1>15. ASSUME NEW k \in Keys, OskKey(k) PROVE Announced(ui, ui')
    <2> DEFINE u == ConsumeShift(ui, k)
    <2>1. CASE UiStep(MarkStateDirty([ui EXCEPT !.shift = ~@]))
      BY <1>6, <2>1 DEF Announced
    <2>2. CASE UiStep(SetKeyboard(ui, FALSE))
      BY <1>3, <2>2, SaidIsAnnounced
    <2>3. CASE UiStep(MarkStateDirty([ui EXCEPT !.page = (@ + 1) % 3]))
      BY <1>6, <2>3 DEF Announced
    <2>4. HasFlag(u) /\ Said(ui, u)
      BY <1>1 DEF ConsumeShift, HasFlag, Said, Marked, MarkStateDirty
    <2>5. CASE TypeIntoApp(u) \/ TypeOnSeat(u)
      BY <2>4, <2>5, SaidIsAnnounced DEF TypeIntoApp, TypeOnSeat
    <2>6. CASE TypeIntoSearch(k, u)
      <3> HIDE DEF u
      <3>1. \A m : Marked(MarkStateDirty([u EXCEPT !.message = m]))
        BY <2>4 DEF HasFlag, Marked, MarkStateDirty
      <3> QED BY <2>6, <3>1 DEF TypeIntoSearch, Announced
    <2> QED BY <1>15, <2>1, <2>2, <2>3, <2>5, <2>6 DEF OskKey
  <1> QED BY <1>4, <1>7, <1>8, <1>9, <1>10, <1>12, <1>13, <1>14, <1>15
          DEF Requests

\* Gestures; a touched window may bring the keyboard along.
LEMMA GestureAnnounced ==
  ASSUME UiOK(ui), Gestures
  PROVE  Announced(ui, ui')
  <1> USE DEF UiStep
  <1>1. HasFlag(ui) BY DEF UiOK, Settled, UiType, HasFlag
  <1>2. \A v : /\ Said(ui, SetLauncher(ui, v)) /\ Said(ui, SetKeyboard(ui, v))
              /\ Said(ui, SetSidebar(ui, v)) /\ Said(ui, SetAudit(ui, v))
              /\ Said(ui, HidePanels(ui, v))
    BY <1>1, LauncherSaid, KeyboardSaid, SidebarSaid, AuditSaid, PanelsSaid
  <1>3. CASE EdgeTop
    <2>1. PICK p \in Zones :
            ui' = TogglePanel(HidePanels(SetLauncher(ui, FALSE), Panels \ {p}), p)
      BY <1>3 DEF EdgeTop
    <2> DEFINE a == SetLauncher(ui, FALSE)
               u == HidePanels(a, Panels \ {p})
    <2>2. Said(ui, a) BY <1>2
    <2>3. Said(ui, u)
      <3> HIDE DEF a
      <3> QED BY <2>2, PanelsSaid, SaidTwice DEF Said
    <2> HIDE DEF u
    <2>4. Said(u, TogglePanel(u, p)) BY <2>3, PanelsSaid DEF Said, TogglePanel
    <2>5. Said(ui, TogglePanel(u, p)) BY <2>3, <2>4, SaidTwice
    <2> QED BY <2>1, <2>5, SaidIsAnnounced DEF u
  <1>4. CASE EdgeLeft BY <1>2, <1>4, SaidIsAnnounced DEF EdgeLeft
  <1>5. CASE EdgeRight
    <2> DEFINE a == HidePanels(ui, Panels)
               u == SetSidebar(a, FALSE)
    <2>1. Said(ui, a) BY <1>2
    <2>2. Said(ui, u)
      <3> HIDE DEF a
      <3> QED BY <2>1, SidebarSaid, SaidTwice DEF Said
    <2>3. \/ ui' \in {u, SetKeyboard(u, FALSE), SetLauncher(u, FALSE),
                      MarkLayersDirty(SetScrim(u, "hidden"))}
          \/ ui' = SetAudit(ui, FALSE)
      BY <1>5 DEF EdgeRight, BackClosesApp
    <2> HIDE DEF u
    <2>4. /\ Said(ui, SetKeyboard(u, FALSE)) /\ Said(ui, SetLauncher(u, FALSE))
          /\ Said(ui, MarkLayersDirty(SetScrim(u, "hidden")))
      BY <2>2, KeyboardSaid, LauncherSaid, ScrimSaid, SaidTwice DEF Said
    <2> QED BY <1>2, <2>2, <2>3, <2>4, SaidIsAnnounced
  <1>6. CASE EdgeBottom
    <2> DEFINE a == SetAudit(ui, FALSE)
               u == SetSidebar(a, FALSE)
               b == SetLauncher(a, FALSE)
    <2>1. Said(ui, a) BY <1>2
    <2>2. Said(ui, u) /\ Said(ui, b)
      <3> HIDE DEF a
      <3> QED BY <2>1, SidebarSaid, LauncherSaid, SaidTwice DEF Said
    <2>3. ui' \in {u, SetKeyboard(u, FALSE), SetKeyboard(b, FALSE),
                   MarkLayersDirty(SetScrim(u, "hidden"))}
      BY <1>6 DEF EdgeBottom
    <2> HIDE DEF u, b
    <2>4. /\ Said(ui, SetKeyboard(u, FALSE)) /\ Said(ui, SetKeyboard(b, FALSE))
          /\ Said(ui, MarkLayersDirty(SetScrim(u, "hidden")))
      BY <2>2, KeyboardSaid, ScrimSaid, SaidTwice DEF Said
    <2> QED BY <2>2, <2>3, <2>4, SaidIsAnnounced
  <1>7. CASE \/ DismissPanels \/ DismissSidebar \/ DismissLauncher
             \/ PinchBegin \/ AuditCompleted
    BY <1>2, <1>7, SaidIsAnnounced
       DEF DismissPanels, DismissSidebar, DismissLauncher, PinchBegin,
           AuditCompleted
  <1>8. \A w : Said(ui, AutoShowKeyboard(ui, w))
    <2> DEFINE a == [ui EXCEPT !.autoShown = TRUE]
    <2>1. HasFlag(a) BY <1>1 DEF HasFlag
    <2>2. ~ui.keyboard => Said(ui, SetKeyboard(a, TRUE))
      <3> DEFINE b == ToggleKeyboard(a, TRUE)
      <3> SUFFICES ASSUME ~ui.keyboard PROVE Said(ui, SetKeyboard(a, TRUE))
        OBVIOUS
      <3>1. ~a.keyboard BY DEF UiOK, Settled, UiType
      <3>2. HasFlag(b)
        <4> HIDE DEF a
        <4> QED BY <2>1 DEF HasFlag, ToggleKeyboard
      <3>3. SetKeyboard(a, TRUE) = Publish(b)
        <4> HIDE DEF a
        <4> QED BY <3>1 DEF SetKeyboard, b
      <3> HIDE DEF a, b
      <3> QED BY <3>2, <3>3, MarksSaid DEF Said
    <2>3. Said(ui, ui) BY <1>1 DEF Said
    <2> QED BY <2>2, <2>3 DEF AutoShowKeyboard
  <1>9. CASE TouchApp \/ TouchShell
    <2>1. UNCHANGED ui \/ \E w : ui' = AutoShowKeyboard(ui, w)
      BY <1>9 DEF TouchApp, TouchShell, FocusWindow
    <2> QED BY <1>8, <2>1, SaidIsAnnounced DEF Announced
  <1> QED BY <1>3, <1>4, <1>5, <1>6, <1>7, <1>9 DEF Gestures

\* Only a new window and one that goes change the list.
LEMMA ListChanges ==
  ASSUME [Next]_vars
  PROVE  DestroyToplevel \/ NewToplevel \/ UNCHANGED toplevels
  <1>1. Requests => UNCHANGED toplevels
    BY DEF Requests, UiStep, winVars, RequestLauncher, RequestKeyboard,
       RequestScrim, RequestAckResize, RequestAudit, ShowToast,
       CaptureScreenshot, OpenDrawer, CycleRotation, LauncherTile,
       GestureHandle, CloseAppAt, CloseFocusedApp, FocusApp,
       MinimizeFocused, NewWindow, OskKey, TypeIntoApp, TypeIntoSearch,
       TypeOnSeat
  <1>2. Gestures => UNCHANGED toplevels
    BY DEF Gestures, UiStep, winVars, EdgeTop, EdgeLeft, EdgeRight,
       EdgeBottom, BackClosesApp, DismissPanels, DismissSidebar,
       DismissLauncher, PinchBegin, AuditCompleted, TouchApp, TouchShell,
       FocusWindow
  <1>3. Callbacks => DestroyToplevel \/ NewToplevel \/ UNCHANGED toplevels
    BY DEF Callbacks, UiStep, winVars, MapToplevel, UnmapToplevel,
       SurfaceDestroy, NewTextInput, InputRequest, InputCommit,
       InputDestroy, InputStep, OskSurfaceCreate, OskSurfaceDestroy,
       OskSurfaceMap, LayerSurfaceCommit, OutputAdd, OutputRemove, Frame,
       BroadcastIdle, SidebarTimeout
  <1> QED BY <1>1, <1>2, <1>3 DEF Next, vars

\* A window that goes is announced with what follows from it.
LEMMA DestroyAnnounced ==
  ASSUME UiOK(ui), DestroyToplevel
  PROVE  Marked(ui')
  <1>1. HasFlag(ui) BY DEF UiOK, Settled, UiType, HasFlag
  <1>2. \A rest : HasFlag(AfterDestroy(ui, rest))
    BY <1>1, KeyboardSaid DEF AfterDestroy, Said
  <1> QED BY <1>2, MarksSaid DEF DestroyToplevel

\* Callbacks; only the frame and the idle source take the flags away, and
\* they draw nothing else.
LEMMA CallbackAnnounced ==
  ASSUME UiOK(ui), Callbacks, ~OutputAdd, ~OutputRemove
  PROVE  Announced(ui, ui')
  <1> USE DEF UiStep
  <1>1. ui \in UiType /\ HasFlag(ui) BY DEF UiOK, Settled, UiType, HasFlag
  <1>2. CASE UNCHANGED ui BY <1>2 DEF Announced
  <1>3. CASE NewToplevel \/ SurfaceDestroy \/ NewTextInput \/ InputRequest
    BY <1>2, <1>3
       DEF NewToplevel, SurfaceDestroy, NewTextInput, InputRequest, InputStep
  <1>4. CASE MapToplevel \/ LayerSurfaceCommit
    BY <1>1, <1>4, LayersQuiet DEF MapToplevel, LayerSurfaceCommit, Announced
  <1>5. CASE UnmapToplevel
    BY <1>1, <1>5, MarksSaid DEF UnmapToplevel, Announced
  <1>6. CASE DestroyToplevel BY <1>6, DestroyAnnounced DEF Announced
  <1>7. /\ \A v : Said(ui, SetKeyboard(ui, v))
        /\ \A ins : Said(ui, RefreshKeyboard(ui, ins))
    BY <1>1, KeyboardSaid DEF RefreshKeyboard, Said
  <1>8. CASE InputCommit
    BY <1>2, <1>7, <1>8, SaidIsAnnounced DEF InputCommit, InputStep
  <1>9. CASE InputDestroy BY <1>7, <1>9, SaidIsAnnounced DEF InputDestroy, InputStep
  <1>10. CASE OskSurfaceCreate \/ OskSurfaceDestroy \/ OskSurfaceMap
    BY <1>1, <1>10
       DEF OskSurfaceCreate, OskSurfaceDestroy, OskSurfaceMap, MapOsk,
           MarkLayersDirty, Announced, Drawn, UiType
  <1>11. \A u \in UiType, built \in BOOLEAN :
           Broadcast(u, built) \in UiType /\ Drawn(Broadcast(u, built)) = Drawn(u)
    BY DEF Broadcast, UiType, Drawn
  <1>12. CASE Frame
    BY <1>1, <1>11, <1>12, LayersQuiet DEF Frame, Announced
  <1>14. CASE BroadcastIdle
    <2> DEFINE a == [ui EXCEPT !.stateIdle = FALSE]
    <2>1. a \in UiType /\ Drawn(a) = Drawn(ui) BY <1>1 DEF UiType, Drawn
    <2> HIDE DEF a
    <2> QED BY <1>11, <1>14, <2>1 DEF BroadcastIdle, Announced, a
  <1>13. CASE SidebarTimeout
    BY <1>1, <1>13, SidebarSaid, SaidIsAnnounced DEF SidebarTimeout
  <1> QED BY <1>3, <1>4, <1>5, <1>6, <1>8, <1>9, <1>10, <1>12, <1>13, <1>14
          DEF Callbacks

\* Whatever handler runs, a change of what a state frame says leaves a
\* broadcast pending and armed, but for the four handlers named.
THEOREM AnnouncementsSafe == Spec => ChangesAreAnnounced
  <1>1. ASSUME UiOK(ui), [Next]_vars, ~Unannounced,
               <<Drawn(ui), toplevels>>' # <<Drawn(ui), toplevels>>
        PROVE  Marked(ui')
    <2>1. CASE DestroyToplevel BY <1>1, <2>1, DestroyAnnounced
    <2>2. CASE UNCHANGED toplevels
      <3>1. Drawn(ui') # Drawn(ui) BY <1>1, <2>2
      <3>2. Next BY <1>1, <3>1 DEF vars
      <3> QED BY <1>1, <3>1, <3>2, RequestAnnounced, GestureAnnounced,
                 CallbackAnnounced DEF Next, Announced, Unannounced
    <2> QED BY <1>1, <2>1, <2>2, ListChanges DEF Unannounced
  <1> DEFINE Told == <<Drawn(ui), toplevels>>' # <<Drawn(ui), toplevels>>
                       => (ui'.stateDirty /\ ui'.stateIdle) \/ Unannounced
  <1>2. UiOK(ui) /\ [Next]_vars => [Told]_vars BY <1>1 DEF Marked
  <1> HIDE DEF Told
  <1>3. Spec => [][Told]_vars BY <1>2, UiInvariant, PTL DEF Spec
  <1> QED BY <1>3 DEF ChangesAreAnnounced, Told

-----------------------------------------------------------------------------
(* Resizes are counted.                                                    *)

(***************************************************************************)
(* A flip of the keyboard is one resize, and nothing else is: however many *)
(* setters a handler calls - an audit that starts closes the drawer and    *)
(* hides the keyboard, and opening the drawer hides it too - the serial of *)
(* keyboard_resize_serial goes up by one exactly when the keyboard is      *)
(* shown or hidden by the step (protocol_setters.c:279-297), so two layout *)
(* changes never share a serial within a turn of the counter.              *)
(***************************************************************************)
ResizesAreCounted ==
  [][ui'.serial = IF ui'.keyboard = ui.keyboard THEN ui.serial
                  ELSE (ui.serial + 1) % SerialMod]_vars

\* The configuration of the layers leaves the keyboard alone.
LEMMA LayersUncounted ==
  ASSUME NEW u \in UiType, NEW scene
  PROVE  /\ Counted(u, ConfigureAllLayers(u, scene))
         /\ Counted(u, MarkLayersDirty(u))
  <1>1. ASSUME NEW v, Drawn(v) = Drawn(u)
        PROVE  Counted(u, v)
    <2>1. v.keyboard = u.keyboard /\ v.serial = u.serial BY <1>1 DEF Drawn
    <2> QED BY <2>1 DEF Counted
  <1> QED BY <1>1, LayersQuiet

\* Requests.
LEMMA RequestCounted ==
  ASSUME UiOK(ui), Requests
  PROVE  Counted(ui, ui')
  <1> USE DEF UiStep
  <1>1. ui \in UiType /\ Plain(ui) BY DEF UiOK, Settled, UiType, Plain
  <1>2. CASE UNCHANGED ui BY <1>2 DEF Counted
  <1>3. \A v, s : /\ Lowered(ui, SetLauncher(ui, v)) /\ Lowered(ui, SetAudit(ui, v))
                 /\ Unmoved(ui, SetSidebar(ui, v)) /\ Unmoved(ui, SetScrim(ui, s))
                 /\ Unmoved(ui, HidePanels(ui, v))
    BY <1>1, LauncherLowered, AuditLowered, PanelsUnmoved
  <1>4. CASE \/ RequestLauncher \/ RequestKeyboard \/ RequestScrim
             \/ RequestAudit \/ CaptureScreenshot \/ NewWindow
    <2>1. \A v, s : /\ Counted(ui, SetLauncher(ui, v)) /\ Counted(ui, SetAudit(ui, v))
                   /\ Counted(ui, SetSidebar(ui, v)) /\ Counted(ui, SetScrim(ui, s))
                   /\ Counted(ui, HidePanels(ui, v))
      BY <1>1, <1>3, UnmovedIsLowered DEF Lowered
    <2>2. \A v \in BOOLEAN : Counted(ui, SetKeyboard(ui, v))
      BY <1>1, KeyboardCounted
    <2> QED BY <1>4, <2>1, <2>2
            DEF RequestLauncher, RequestKeyboard, RequestScrim, RequestAudit,
                CaptureScreenshot, NewWindow
  <1>5. CASE RequestAckResize
    BY <1>1, <1>5 DEF RequestAckResize, AckResize, Counted, UiType
  <1>6. \A x : /\ Counted(ui, MarkStateDirty([ui EXCEPT !.message = x]))
              /\ Counted(ui, MarkStateDirty([ui EXCEPT !.shift = x]))
              /\ Counted(ui, MarkStateDirty([ui EXCEPT !.page = x]))
    BY <1>1 DEF Plain, MarkStateDirty, Counted
  <1>7. CASE ShowToast BY <1>6, <1>7 DEF ShowToast
  <1>8. CASE OpenDrawer
    <2> DEFINE a == SetSidebar(ui, FALSE)
    <2>1. Unmoved(ui, a) BY <1>3
    <2> HIDE DEF a
    <2>2. Counted(ui, SetLauncher(a, TRUE))
      BY <2>1, LauncherLowered, UnmovedFirst DEF Unmoved, Lowered
    <2> QED BY <1>8, <2>2 DEF OpenDrawer, a
  <1>9. CASE CycleRotation
    <2>1. PICK scene \in {"off", "on"} :
            ui' = Publish(IF ui.output THEN ConfigureAllLayers(ui, scene) ELSE ui)
      BY <1>9 DEF CycleRotation
    <2> DEFINE a == IF ui.output THEN ConfigureAllLayers(ui, scene) ELSE ui
    <2>2. UiOK(a) BY ConfigureAllLayersOK DEF UiOK
    <2>3. Plain(a) BY <2>2 DEF UiOK, Settled, UiType, Plain
    <2>4. Counted(ui, a) BY <1>1, LayersUncounted DEF Counted
    <2> HIDE DEF a
    <2>5. Counted(ui, Publish(a)) BY <2>3, <2>4, MarksUnmoved DEF Unmoved, Counted
    <2> QED BY <2>1, <2>5 DEF a
  <1>10. CASE LauncherTile
    <2> DEFINE a == SetScrim(ui, "dimmed")
    <2>1. Unmoved(ui, a) BY <1>3
    <2> HIDE DEF a
    <2>2. Counted(ui, SetLauncher(a, FALSE))
      BY <2>1, LauncherLowered, UnmovedFirst DEF Unmoved, Lowered
    <2> QED BY <1>2, <1>3, <1>10, <2>2 DEF LauncherTile, Lowered, a
  <1>11. CASE GestureHandle
    <2> DEFINE a == HidePanels(ui, Panels)
               b == SetKeyboard(a, FALSE)
               c == SetLauncher(b, FALSE)
               d == SetSidebar(c, FALSE)
    <2>1. Lowered(ui, a) BY <1>1, <1>3, UnmovedIsLowered
    <2>2. Lowered(ui, b)
      <3> HIDE DEF a
      <3>1. Lowered(a, b) BY <2>1, HideLowered DEF Lowered
      <3> QED BY <1>1, <2>1, <3>1, LoweredTwice
    <2>3. Lowered(ui, c)
      <3> HIDE DEF b
      <3>1. Lowered(b, c) BY <2>2, LauncherLowered DEF Lowered
      <3> QED BY <1>1, <2>2, <3>1, LoweredTwice
    <2>4. Lowered(ui, d)
      <3> HIDE DEF c
      <3>1. Unmoved(c, d) BY <2>3, PanelsUnmoved DEF Lowered
      <3> QED BY <2>3, <3>1 DEF Lowered, Unmoved, Counted
    <2>5. ui' = SetScrim(d, "hidden") BY <1>11 DEF GestureHandle, HideEverything
    <2> HIDE DEF d
    <2> QED BY <2>4, <2>5, PanelsUnmoved DEF Lowered, Unmoved, Counted
  <1>12. CASE CloseAppAt \/ CloseFocusedApp
    BY <1>2, <1>12 DEF CloseAppAt, CloseFocusedApp
  <1>13. CASE FocusApp \/ MinimizeFocused
    <2> DEFINE a == SetLauncher(ui, FALSE)
               b == SetSidebar(a, FALSE)
    <2>1. Lowered(ui, a) BY <1>3
    <2>2. Lowered(ui, b)
      <3> HIDE DEF a
      <3>1. Unmoved(a, b) BY <2>1, PanelsUnmoved DEF Lowered
      <3> QED BY <2>1, <3>1 DEF Lowered, Unmoved, Counted
    <2>3. ui' \in {SetScrim(b, "dimmed"), SetScrim(b, "hidden")}
      BY <1>13 DEF FocusApp, MinimizeFocused
    <2> HIDE DEF b
    <2> QED BY <2>2, <2>3, PanelsUnmoved DEF Lowered, Unmoved, Counted
  <1>14. ASSUME NEW k \in Keys, OskKey(k) PROVE Counted(ui, ui')
    <2> DEFINE u == ConsumeShift(ui, k)
    <2>1. CASE UiStep(MarkStateDirty([ui EXCEPT !.shift = ~@]))
      BY <1>6, <2>1
    <2>2. CASE UiStep(SetKeyboard(ui, FALSE))
      BY <1>1, <2>2, KeyboardCounted
    <2>3. CASE UiStep(MarkStateDirty([ui EXCEPT !.page = (@ + 1) % 3]))
      BY <1>6, <2>3
    <2>4. Plain(u) /\ Counted(ui, u)
      BY <1>1 DEF ConsumeShift, Plain, Counted, MarkStateDirty
    <2>5. CASE TypeIntoApp(u) \/ TypeOnSeat(u)
      BY <2>4, <2>5 DEF TypeIntoApp, TypeOnSeat
    <2>6. CASE TypeIntoSearch(k, u)
      <3> HIDE DEF u
      <3>1. \A m : Counted(ui, MarkStateDirty([u EXCEPT !.message = m]))
        BY <2>4 DEF Plain, MarkStateDirty, Counted
      <3> QED BY <2>6, <3>1 DEF TypeIntoSearch
    <2> QED BY <1>14, <2>1, <2>2, <2>3, <2>5, <2>6 DEF OskKey
  <1> QED BY <1>4, <1>5, <1>7, <1>8, <1>9, <1>10, <1>11, <1>12, <1>13, <1>14
          DEF Requests

\* Gestures; a touched window may bring the keyboard along.
LEMMA GestureCounted ==
  ASSUME UiOK(ui), Gestures
  PROVE  Counted(ui, ui')
  <1> USE DEF UiStep
  <1>1. Plain(ui) BY DEF UiOK, Settled, UiType, Plain
  <1>2. \A v : /\ Lowered(ui, SetLauncher(ui, v)) /\ Lowered(ui, SetAudit(ui, v))
              /\ Lowered(ui, HidePanels(ui, v)) /\ Lowered(ui, SetSidebar(ui, v))
    BY <1>1, LauncherLowered, AuditLowered, PanelsUnmoved, UnmovedIsLowered
  <1>3. CASE EdgeTop
    <2>1. PICK p \in Zones :
            ui' = TogglePanel(HidePanels(SetLauncher(ui, FALSE), Panels \ {p}), p)
      BY <1>3 DEF EdgeTop
    <2> DEFINE a == SetLauncher(ui, FALSE)
               u == HidePanels(a, Panels \ {p})
    <2>2. Lowered(ui, a) BY <1>2
    <2>3. Lowered(ui, u)
      <3> HIDE DEF a
      <3>1. Unmoved(a, u) BY <2>2, PanelsUnmoved DEF Lowered
      <3> QED BY <2>2, <3>1 DEF Lowered, Unmoved, Counted
    <2> HIDE DEF u
    <2>4. Unmoved(u, TogglePanel(u, p))
      BY <2>3, PanelsUnmoved DEF Lowered, TogglePanel
    <2> QED BY <2>1, <2>3, <2>4 DEF u, Lowered, Unmoved, Counted
  <1>4. CASE EdgeLeft BY <1>2, <1>4, PanelsUnmoved, <1>1 DEF EdgeLeft, Lowered
  <1>5. CASE EdgeRight
    <2> DEFINE a == HidePanels(ui, Panels)
               u == SetSidebar(a, FALSE)
    <2>1. Unmoved(ui, a) BY <1>1, PanelsUnmoved
    <2>2. Unmoved(ui, u)
      <3> HIDE DEF a
      <3> QED BY <2>1, PanelsUnmoved DEF Unmoved
    <2>3. \/ ui' \in {u, SetKeyboard(u, FALSE), SetLauncher(u, FALSE),
                      MarkLayersDirty(SetScrim(u, "hidden"))}
          \/ ui' = SetAudit(ui, FALSE)
      BY <1>5 DEF EdgeRight, BackClosesApp
    <2> HIDE DEF u
    <2>4. /\ Counted(ui, SetKeyboard(u, FALSE)) /\ Counted(ui, SetLauncher(u, FALSE))
          /\ Counted(ui, u)
      BY <2>2, HideLowered, LauncherLowered, UnmovedFirst
         DEF Lowered, Unmoved, Counted
    <2>5. Counted(ui, MarkLayersDirty(SetScrim(u, "hidden")))
      BY <2>2, PanelsUnmoved, MarksUnmoved DEF Unmoved, Counted
    <2> QED BY <1>2, <2>3, <2>4, <2>5 DEF Lowered
  <1>6. CASE EdgeBottom
    <2> DEFINE a == SetAudit(ui, FALSE)
               u == SetSidebar(a, FALSE)
               b == SetLauncher(a, FALSE)
    <2>1. Lowered(ui, a) BY <1>2
    <2>2. Lowered(ui, u) /\ Lowered(ui, b)
      <3> HIDE DEF a
      <3>1. Lowered(a, u) /\ Lowered(a, b)
        BY <2>1, PanelsUnmoved, UnmovedIsLowered, LauncherLowered DEF Lowered
      <3> QED BY <1>1, <2>1, <3>1, LoweredTwice
    <2>3. ui' \in {u, SetKeyboard(u, FALSE), SetKeyboard(b, FALSE),
                   MarkLayersDirty(SetScrim(u, "hidden"))}
      BY <1>6 DEF EdgeBottom
    <2> HIDE DEF u, b
    <2>4. Lowered(u, SetKeyboard(u, FALSE)) /\ Lowered(b, SetKeyboard(b, FALSE))
      BY <2>2, HideLowered DEF Lowered
    <2>5. Lowered(ui, SetKeyboard(u, FALSE)) /\ Lowered(ui, SetKeyboard(b, FALSE))
      BY <1>1, <2>2, <2>4, LoweredTwice
    <2>6. Counted(ui, MarkLayersDirty(SetScrim(u, "hidden")))
      BY <2>2, PanelsUnmoved, MarksUnmoved DEF Lowered, Unmoved, Counted
    <2> QED BY <2>2, <2>3, <2>5, <2>6 DEF Lowered
  <1>7. CASE \/ DismissPanels \/ DismissSidebar \/ DismissLauncher
             \/ PinchBegin \/ AuditCompleted
    BY <1>1, <1>2, <1>7, HideLowered
       DEF DismissPanels, DismissSidebar, DismissLauncher, PinchBegin,
           AuditCompleted, Lowered
  <1>8. \A w : Counted(ui, AutoShowKeyboard(ui, w))
    <2> DEFINE a == [ui EXCEPT !.autoShown = TRUE]
    <2>1. Unmoved(ui, a) BY <1>1 DEF Plain, Unmoved
    <2> HIDE DEF a
    <2>2. Counted(ui, SetKeyboard(a, TRUE))
      BY <2>1, KeyboardCounted, UnmovedFirst DEF Unmoved
    <2>3. Counted(ui, ui) BY DEF Counted
    <2> QED BY <2>2, <2>3 DEF AutoShowKeyboard, a
  <1>9. CASE TouchApp \/ TouchShell
    <2>1. UNCHANGED ui \/ \E w : ui' = AutoShowKeyboard(ui, w)
      BY <1>9 DEF TouchApp, TouchShell, FocusWindow
    <2> QED BY <1>8, <2>1 DEF Counted
  <1> QED BY <1>3, <1>4, <1>5, <1>6, <1>7, <1>9 DEF Gestures

\* Callbacks; a text input shows or hides the keyboard, never both.
LEMMA CallbackCounted ==
  ASSUME UiOK(ui), Callbacks
  PROVE  Counted(ui, ui')
  <1> USE DEF UiStep
  <1>1. ui \in UiType /\ Plain(ui) BY DEF UiOK, Settled, UiType, Plain
  <1>2. CASE UNCHANGED ui BY <1>2 DEF Counted
  <1>3. CASE NewToplevel \/ SurfaceDestroy \/ NewTextInput \/ InputRequest
    BY <1>2, <1>3
       DEF NewToplevel, SurfaceDestroy, NewTextInput, InputRequest, InputStep
  <1>4. CASE MapToplevel \/ LayerSurfaceCommit \/ UnmapToplevel
    <2>1. Unmoved(ui, MarkLayersDirty(ui)) BY <1>1, MarksUnmoved
    <2>2. Counted(ui, MarkStateDirty(MarkLayersDirty(ui)))
      BY <2>1, MarksUnmoved DEF Unmoved, Counted
    <2> QED BY <1>1, <1>4, <2>2, LayersUncounted
            DEF MapToplevel, LayerSurfaceCommit, UnmapToplevel
  <1>5. CASE DestroyToplevel
    <2>1. \A rest : /\ Plain(AfterDestroy(ui, rest))
                   /\ Counted(ui, AfterDestroy(ui, rest))
      BY <1>1, KeyboardCounted DEF AfterDestroy, Counted
    <2> QED BY <1>5, <2>1, MarksUnmoved DEF DestroyToplevel, Unmoved, Counted
  <1>6. /\ \A v \in BOOLEAN : Counted(ui, SetKeyboard(ui, v))
        /\ \A ins : Counted(ui, RefreshKeyboard(ui, ins))
    <2>1. \A v \in BOOLEAN : Counted(ui, SetKeyboard(ui, v))
      BY <1>1, KeyboardCounted
    <2>2. Counted(ui, ui) BY DEF Counted
    <2> QED BY <2>1, <2>2 DEF RefreshKeyboard
  <1>7. CASE InputCommit
    BY <1>2, <1>6, <1>7 DEF InputCommit, InputStep
  <1>8. CASE InputDestroy BY <1>6, <1>8 DEF InputDestroy, InputStep
  <1>9. CASE \/ OskSurfaceCreate \/ OskSurfaceDestroy \/ OskSurfaceMap
             \/ OutputRemove
    BY <1>1, <1>9
       DEF OskSurfaceCreate, OskSurfaceDestroy, OskSurfaceMap, MapOsk,
           OutputRemove, MarkLayersDirty, Counted, UiType
  <1>10. CASE OutputAdd
    <2> DEFINE a == [ui EXCEPT !.output = TRUE]
    <2>1. a \in UiType /\ Unmoved(ui, a) BY <1>1 DEF UiType, Unmoved, Plain
    <2> HIDE DEF a
    <2> QED BY <1>10, <2>1, LayersUncounted, UnmovedFirst DEF OutputAdd, a
  <1>11. CASE Frame \/ BroadcastIdle
    <2> DEFINE a == [ui EXCEPT !.stateIdle = FALSE]
    <2>1. a \in UiType /\ Unmoved(ui, a) BY <1>1 DEF UiType, Unmoved, Plain
    <2>2. \A built \in BOOLEAN : /\ Broadcast(ui, built) \in UiType
                                 /\ Unmoved(ui, Broadcast(ui, built))
      BY <1>1 DEF UiType, Unmoved, Plain, Broadcast
    <2> HIDE DEF a
    <2>3. \A built \in BOOLEAN : Counted(ui, Broadcast(a, built))
      BY <2>1 DEF Unmoved, Plain, Counted, Broadcast
    <2>4. \A built \in BOOLEAN : Counted(ui, Broadcast(ui, built))
      BY <2>2 DEF Unmoved, Counted
    <2>5. CASE BroadcastIdle BY <2>3, <2>5 DEF BroadcastIdle, a
    <2>6. CASE Frame
      BY <2>2, <2>4, <2>6, LayersUncounted, UnmovedFirst DEF Frame
    <2> QED BY <1>11, <2>5, <2>6
  <1>12. CASE SidebarTimeout
    BY <1>1, <1>12, PanelsUnmoved DEF SidebarTimeout, Unmoved, Counted
  <1> QED BY <1>3, <1>4, <1>5, <1>7, <1>8, <1>9, <1>10, <1>11, <1>12
          DEF Callbacks

\* Whatever handler runs, the keyboard flips at most once in it.
THEOREM ResizesCounted == Spec => ResizesAreCounted
  <1> DEFINE Count == ui'.serial = IF ui'.keyboard = ui.keyboard THEN ui.serial
                                   ELSE (ui.serial + 1) % SerialMod
  <1>1. UiOK(ui) /\ [Next]_vars => [Count]_vars
    BY RequestCounted, GestureCounted, CallbackCounted DEF Next, Counted
  <1> HIDE DEF Count
  <1>2. Spec => [][Count]_vars BY <1>1, UiInvariant, PTL DEF Spec
  <1> QED BY <1>2 DEF ResizesAreCounted, Count

-----------------------------------------------------------------------------
(* Type correctness.  The windows are listed once each, and nothing speaks *)
(* of a window that is gone.                                               *)

Elements(s) == {s[i] : i \in DOMAIN s}

\* Taking one element out of a sequence that lists each element once.
LEMMA RemoveAtFacts ==
  ASSUME NEW S, NEW s \in Seq(S), IsInjective(s), NEW i \in DOMAIN s
  PROVE  LET r == RemoveAt(s, i) IN
         /\ r \in Seq(S) /\ IsInjective(r)
         /\ Elements(r) = Elements(s) \ {s[i]}
  <1> DEFINE r == RemoveAt(s, i)
             n == Len(s)
             before == SubSeq(s, 1, i - 1)
             after == SubSeq(s, i + 1, n)
  <1>1. n \in Nat /\ DOMAIN s = 1 .. n /\ i \in 1 .. n OBVIOUS
  <1>2. /\ before \in Seq(S) /\ Len(before) = i - 1
        /\ \A j \in 1 .. i - 1 : before[j] = s[j]
    BY <1>1
  <1>3. /\ after \in Seq(S) /\ Len(after) = n - i
        /\ \A j \in 1 .. n - i : after[j] = s[i + j]
    BY <1>1
  <1>r. r = before \o after BY DEF RemoveAt
  <1> HIDE DEF before, after, r, n
  <1>4. r \in Seq(S) /\ Len(r) = n - 1 BY <1>1, <1>2, <1>3, <1>r
  <1>5. ASSUME NEW j \in 1 .. n - 1
        PROVE  r[j] = IF j < i THEN s[j] ELSE s[j + 1]
    <2>1. r[j] = IF j <= Len(before) THEN before[j] ELSE after[j - Len(before)]
      <3>1. j \in 1 .. Len(before) + Len(after) BY <1>1, <1>2, <1>3
      <3> QED BY <3>1, <1>2, <1>3, <1>r, ConcatProperties
    <2>2. CASE j < i BY <2>1, <2>2, <1>1, <1>2
    <2>3. CASE j >= i
      <3>1. j - (i - 1) \in 1 .. n - i /\ i + (j - (i - 1)) = j + 1
        BY <2>3, <1>1
      <3>2. r[j] = after[j - (i - 1)] BY <2>1, <2>3, <1>1, <1>2
      <3>3. after[j - (i - 1)] = s[j + 1] BY <3>1, <1>3
      <3> QED BY <2>3, <3>2, <3>3, <1>1
    <2> QED BY <2>2, <2>3, <1>1
  <1>6. DOMAIN r = 1 .. n - 1 BY <1>1, <1>4
  <1>7. IsInjective(r)
    <2> SUFFICES ASSUME NEW j \in 1 .. n - 1, NEW k \in 1 .. n - 1, r[j] = r[k]
                 PROVE  j = k
      BY <1>6 DEF IsInjective
    <2> DEFINE f(m) == IF m < i THEN m ELSE m + 1
    <2>1. f(j) \in 1 .. n /\ f(k) \in 1 .. n BY <1>1
    <2>2. s[f(j)] = s[f(k)] BY <1>5
    <2>3. f(j) = f(k)
      <3> HIDE DEF f
      <3> QED BY <2>1, <2>2, <1>1 DEF IsInjective
    <2> QED BY <2>3, <1>1
  <1>8. Elements(r) = Elements(s) \ {s[i]}
    <2>1. ASSUME NEW e \in Elements(r) PROVE e \in Elements(s) /\ e # s[i]
      <3>1. PICK j \in 1 .. n - 1 : e = r[j] BY <1>6 DEF Elements
      <3> DEFINE k == IF j < i THEN j ELSE j + 1
      <3>2. k \in 1 .. n /\ k # i BY <1>1
      <3>3. e = s[k] BY <3>1, <1>5
      <3> HIDE DEF k
      <3> QED BY <3>2, <3>3, <1>1 DEF Elements, IsInjective
    <2>2. ASSUME NEW e \in Elements(s), e # s[i] PROVE e \in Elements(r)
      <3>1. PICK j \in 1 .. n : e = s[j] BY <1>1 DEF Elements
      <3>2. CASE j < i BY <3>1, <3>2, <1>1, <1>5, <1>6 DEF Elements
      <3>3. CASE j > i
        <4>1. j - 1 \in 1 .. n - 1 /\ r[j - 1] = s[j]
          BY <3>3, <1>1, <1>5
        <4> QED BY <3>1, <4>1, <1>6 DEF Elements
      <3> QED BY <3>1, <3>2, <3>3, <2>2, <1>1
    <2> QED BY <2>1, <2>2
  <1> QED BY <1>4, <1>7, <1>8 DEF r

\* The parts of TypeOK beside the record.
WindowsOK ==
  /\ toplevels \in Seq(Windows) /\ IsInjective(toplevels)
  /\ mapped \subseteq Listed /\ shown \subseteq Listed /\ closing \subseteq Listed
  /\ focus \in Windows \cup {Shell, NoFocus}

InputsOK ==
  inputs \in [Windows -> [bound : BOOLEAN, pending : BOOLEAN,
                          current : BOOLEAN, focused : BOOLEAN]]

LEMMA ListedIsWindows ==
  ASSUME WindowsOK
  PROVE  Listed \subseteq Windows
  BY DEF WindowsOK, Listed

\* Windows come, go, and are named nowhere after they went.
LEMMA WindowsStep ==
  ASSUME WindowsOK, [Next]_vars
  PROVE  WindowsOK'
  <1>1. ASSUME UNCHANGED toplevels,
               mapped' \subseteq Listed, shown' \subseteq Listed,
               closing' \subseteq Listed, focus' \in Windows \cup {Shell, NoFocus}
        PROVE  WindowsOK'
    BY <1>1 DEF WindowsOK, Listed
  <1>0. Listed \subseteq Windows BY ListedIsWindows
  <1>2. CASE UNCHANGED winVars BY <1>2, <1>1 DEF winVars, WindowsOK
  <1>3. CASE NewToplevel
    <2>1. PICK w \in Windows \ Listed :
            /\ toplevels' = <<w>> \o toplevels
            /\ shown' = shown \cup {w}
            /\ UNCHANGED <<mapped, closing, focus>>
      BY <1>3 DEF NewToplevel
    <2> DEFINE n == Len(toplevels)
    <2>2. n \in Nat /\ DOMAIN toplevels = 1 .. n BY DEF WindowsOK
    <2>3. /\ toplevels' \in Seq(Windows) /\ Len(toplevels') = n + 1
          /\ toplevels'[1] = w
          /\ \A j \in 1 .. n : toplevels'[j + 1] = toplevels[j]
      <3>1. <<w>> \in Seq(Windows) /\ Len(<<w>>) = 1 /\ <<w>>[1] = w OBVIOUS
      <3>2. toplevels \in Seq(Windows) BY DEF WindowsOK
      <3> QED BY <2>1, <2>2, <3>1, <3>2, ConcatProperties
    <2>4. DOMAIN toplevels' = 1 .. n + 1 BY <2>3
    <2> HIDE DEF n
    <2>5. Listed' = Listed \cup {w}
      <3>1. ASSUME NEW e \in Listed' PROVE e \in Listed \cup {w}
        <4>1. PICK j \in 1 .. n + 1 : e = toplevels'[j] BY <2>4 DEF Listed
        <4>2. CASE j = 1 BY <4>1, <4>2, <2>3
        <4>3. CASE j # 1
          <5>1. j - 1 \in 1 .. n /\ (j - 1) + 1 = j BY <4>3, <2>2
          <5>2. e = toplevels[j - 1] BY <4>1, <5>1, <2>3
          <5>3. toplevels[j - 1] \in Listed BY <5>1, <2>2 DEF Listed
          <5> QED BY <5>2, <5>3
        <4> QED BY <4>2, <4>3
      <3>2. ASSUME NEW e \in Listed PROVE e \in Listed'
        <4>1. PICK j \in 1 .. n : e = toplevels[j] BY <2>2 DEF Listed
        <4>2. j + 1 \in 1 .. n + 1 BY <2>2
        <4> QED BY <4>1, <4>2, <2>3, <2>4 DEF Listed
      <3>3. w \in Listed' BY <2>2, <2>3, <2>4 DEF Listed
      <3> QED BY <3>1, <3>2, <3>3
    <2>6. IsInjective(toplevels')
      <3> SUFFICES ASSUME NEW j \in 1 .. n + 1, NEW k \in 1 .. n + 1,
                          toplevels'[j] = toplevels'[k], j < k
                   PROVE  FALSE
        BY <2>2, <2>4 DEF IsInjective
      <3>1. k - 1 \in 1 .. n /\ (k - 1) + 1 = k BY <2>2
      <3>2. toplevels'[k] = toplevels[k - 1] BY <3>1, <2>3
      <3>3. CASE j = 1 BY <3>1, <3>2, <3>3, <2>1, <2>2, <2>3 DEF Listed
      <3>4. CASE j # 1
        <4>1. j - 1 \in 1 .. n /\ (j - 1) + 1 = j BY <3>4, <2>2
        <4>2. toplevels'[j] = toplevels[j - 1] BY <4>1, <2>3
        <4> QED BY <3>1, <3>2, <4>1, <4>2, <2>2 DEF WindowsOK, IsInjective
      <3> QED BY <3>3, <3>4
    <2> QED BY <2>1, <2>3, <2>5, <2>6 DEF WindowsOK
  <1>4. CASE DestroyToplevel
    <2>1. PICK i \in DOMAIN toplevels :
            /\ toplevels[i] \notin mapped
            /\ toplevels' = RemoveAt(toplevels, i)
            /\ shown' = shown \ {toplevels[i]}
            /\ closing' = closing \ {toplevels[i]}
            /\ UNCHANGED <<mapped, focus>>
      BY <1>4 DEF DestroyToplevel, DropNode
    <2>2. /\ toplevels' \in Seq(Windows) /\ IsInjective(toplevels')
          /\ Elements(toplevels') = Elements(toplevels) \ {toplevels[i]}
      BY <2>1, RemoveAtFacts DEF WindowsOK
    <2>3. Listed' = Listed \ {toplevels[i]} BY <2>2 DEF Listed, Elements
    <2> QED BY <2>1, <2>2, <2>3 DEF WindowsOK
  <1>5. CASE Requests
    BY <1>0, <1>1, <1>2, <1>5
       DEF Requests, WindowsOK, UiStep, winVars, RequestLauncher,
           RequestKeyboard, RequestScrim, RequestAckResize, RequestAudit,
           ShowToast, CaptureScreenshot, OpenDrawer, CycleRotation,
           LauncherTile, GestureHandle, CloseAppAt, CloseFocusedApp, FocusApp,
           MinimizeFocused, NewWindow, OskKey, TypeIntoApp,
           TypeIntoSearch, TypeOnSeat
  <1>6. CASE Gestures
    <2>1. CASE TouchApp \/ TouchShell
      <3>1. toplevels # <<>> => Head(toplevels) \in Listed
        BY DEF WindowsOK, Listed
      <3> QED BY <2>1, <3>1, <1>0, <1>1
              DEF WindowsOK, TouchApp, TouchShell, FocusWindow
    <2>2. CASE ~(TouchApp \/ TouchShell)
      BY <1>0, <1>1, <1>2, <1>6, <2>2
         DEF Gestures, WindowsOK, UiStep, winVars, EdgeTop, EdgeLeft,
             EdgeRight, EdgeBottom, BackClosesApp, DismissPanels,
             DismissSidebar, DismissLauncher, PinchBegin, AuditCompleted
    <2> QED BY <2>1, <2>2
  <1>7. CASE Callbacks
    BY <1>0, <1>1, <1>2, <1>3, <1>4, <1>7
       DEF Callbacks, WindowsOK, UiStep, winVars, MapToplevel, UnmapToplevel,
           DropFocus, DropNode, SurfaceDestroy, NewTextInput, InputRequest,
           InputCommit, InputDestroy, InputStep, OskSurfaceCreate,
           OskSurfaceDestroy, OskSurfaceMap, LayerSurfaceCommit, OutputAdd,
           OutputRemove, Frame, BroadcastIdle, SidebarTimeout
  <1> QED BY <1>2, <1>5, <1>6, <1>7 DEF Next, vars, winVars

\* The four flags of a text input stay flags.
LEMMA InputsStep ==
  ASSUME InputsOK, WindowsOK, [Next]_vars
  PROVE  InputsOK'
  <1> DEFINE Flags == [bound : BOOLEAN, pending : BOOLEAN,
                       current : BOOLEAN, focused : BOOLEAN]
  <1>0. NoInput \in Flags BY DEF NoInput
  <1>1. ASSUME NEW w \in Windows, NEW i \in Flags,
               inputs' = [inputs EXCEPT ![w] = i]
        PROVE  InputsOK'
    BY <1>1 DEF InputsOK
  <1>2. ASSUME NEW w \in Windows, NEW b \in BOOLEAN,
               inputs' = [inputs EXCEPT ![w].focused = b]
        PROVE  InputsOK'
    BY <1>2 DEF InputsOK
  <1>3. CASE UNCHANGED inputs BY <1>3 DEF InputsOK
  <1>4. ASSUME NEW w \in Windows, FocusWindow(w) PROVE InputsOK'
    <2>1. (inputs[w].focused \/ inputs[w].bound) \in BOOLEAN OBVIOUS
    <2>2. inputs' = [inputs EXCEPT ![w].focused = (inputs[w].focused \/ inputs[w].bound)]
      BY <1>4 DEF FocusWindow, EnterInput
    <2> QED BY <1>2, <2>1, <2>2
  <1>5. CASE Requests
    <2>1. ASSUME NEW u, TypeIntoApp(u) PROVE InputsOK'
      <3>1. focus \in Windows /\ inputs' = [inputs EXCEPT ![focus].focused = TRUE]
        BY <2>1 DEF TypeIntoApp, FocusedInput
      <3> QED BY <3>1, <1>2
    <2>2. UNCHANGED inputs \/ \E u : TypeIntoApp(u)
      BY <1>5
         DEF Requests, UiStep, RequestLauncher, RequestKeyboard, RequestScrim,
             RequestAckResize, RequestAudit, ShowToast, CaptureScreenshot,
             OpenDrawer, CycleRotation, LauncherTile, GestureHandle,
             CloseAppAt, CloseFocusedApp, FocusApp, MinimizeFocused, NewWindow,
             OskKey, TypeIntoSearch, TypeOnSeat
    <2> QED BY <1>3, <2>1, <2>2
  <1>6. CASE Gestures
    <2>1. ASSUME TouchApp \/ TouchShell
          PROVE  UNCHANGED inputs \/ \E w \in Windows : FocusWindow(w)
      <3>1. shown \subseteq Windows BY ListedIsWindows DEF WindowsOK
      <3>2. toplevels # <<>> => Head(toplevels) \in Windows
        BY DEF WindowsOK
      <3> QED BY <2>1, <3>1, <3>2 DEF TouchApp, TouchShell
    <2>2. UNCHANGED inputs \/ TouchApp \/ TouchShell
      BY <1>6
         DEF Gestures, UiStep, EdgeTop, EdgeLeft, EdgeRight, EdgeBottom,
             BackClosesApp, DismissPanels, DismissSidebar, DismissLauncher,
             PinchBegin, AuditCompleted
    <2> QED BY <1>3, <1>4, <2>1, <2>2
  <1>7. CASE Callbacks
    <2>1. ASSUME NEW w \in TextClients, NEW i \in Flags, NEW u, InputStep(w, i, u)
          PROVE  InputsOK'
      BY <2>1, <1>1, WindowsAssumption DEF InputStep
    <2>2. CASE NewTextInput
      <3>1. \A w : [NoInput EXCEPT !.bound = TRUE, !.focused = focus = w] \in Flags
        BY DEF NoInput
      <3> QED BY <2>1, <2>2, <3>1 DEF NewTextInput
    <2>3. CASE InputRequest
      <3>1. PICK w \in TextClients, on \in BOOLEAN :
              InputStep(w, [inputs[w] EXCEPT !.pending = on], ui)
        BY <2>3 DEF InputRequest
      <3>2. inputs[w] \in Flags BY WindowsAssumption DEF InputsOK
      <3>3. [inputs[w] EXCEPT !.pending = on] \in Flags BY <3>2
      <3> QED BY <2>1, <3>1, <3>3
    <2>4. CASE InputCommit
      <3>1. PICK w \in TextClients, u \in {ui'} :
              InputStep(w, [inputs[w] EXCEPT !.current = inputs[w].pending], u)
        BY <2>4 DEF InputCommit, InputStep
      <3>2. inputs[w] \in Flags BY WindowsAssumption DEF InputsOK
      <3>3. [inputs[w] EXCEPT !.current = inputs[w].pending] \in Flags BY <3>2
      <3> QED BY <2>1, <3>1, <3>3
    <2>5. CASE InputDestroy BY <1>0, <2>1, <2>5 DEF InputDestroy
    <2>6. CASE SurfaceDestroy BY <1>2, <2>6 DEF SurfaceDestroy
    <2> QED
      BY <1>3, <1>7, <2>2, <2>3, <2>4, <2>5, <2>6
         DEF Callbacks, UiStep, NewToplevel, MapToplevel, UnmapToplevel,
             DestroyToplevel, OskSurfaceCreate, OskSurfaceDestroy,
             OskSurfaceMap, LayerSurfaceCommit, OutputAdd, OutputRemove, Frame, BroadcastIdle, SidebarTimeout
  <1> QED BY <1>3, <1>5, <1>6, <1>7 DEF Next, vars

\* Type correctness, with the two facts TLC's windows run checks as well: a
\* window is listed once, and map and visibility speak of listed ones.
THEOREM TypeCorrect == Spec => []TypeOK
  <1> DEFINE TypeInv == WindowsOK /\ InputsOK
  <1>1. Init => TypeInv
    <2> SUFFICES ASSUME Init PROVE TypeInv OBVIOUS
    <2>1. WindowsOK BY DEF Init, WindowsOK, IsInjective, Listed
    <2>2. InputsOK BY DEF Init, InputsOK, NoInput
    <2> QED BY <2>1, <2>2
  <1>2. TypeInv /\ [Next]_vars => TypeInv'
    <2> SUFFICES ASSUME TypeInv, [Next]_vars PROVE TypeInv' OBVIOUS
    <2> QED BY WindowsStep, InputsStep
  <1>3. TypeInv /\ UiOK(ui) => TypeOK
    BY DEF TypeOK, WindowsOK, InputsOK, UiOK, Settled
  <1> QED BY <1>1, <1>2, <1>3, UiInvariant, PTL DEF Spec
=============================================================================
