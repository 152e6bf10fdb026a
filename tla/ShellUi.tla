------------------------------ MODULE ShellUi ------------------------------
(***************************************************************************)
(* The compositor as the shell sees it: the record of UiState, the list of *)
(* application windows with the keyboard focus, and the text inputs, under *)
(* every handler that changes them - the requests of the shell bridge, the *)
(* edge gestures and taps, the Wayland callbacks of windows, text inputs,  *)
(* layer surfaces and outputs, the frame and the sidebar timer.  All of    *)
(* them run on the one event-loop thread, so each handler is one step, and *)
(* the hard part is that they come in any order.                           *)
(***************************************************************************)
EXTENDS UiState, SequencesExt

CONSTANTS
  Windows,      \* xdg toplevels; each is a client of its own
  AutoShow,     \* the windows whose app_id asks for the keyboard on focus
  Multi,        \* the windows of the apps that may open twice
  TextClients,  \* the windows whose client creates a text input
  Shell,        \* any surface of the shell, as a keyboard focus
  NoFocus,      \* no keyboard focus
  Zones,        \* the thirds of the top edge a run lets the user swipe
  Keys          \* the classes of OSK keys a run lets the user press

OskKeys == {"letter", "symbol", "backspace", "enter", "shift", "page",
            "close", "esc", "arrow"}

ASSUME WindowsAssumption ==
  /\ AutoShow \subseteq Windows /\ Multi \subseteq Windows
  /\ TextClients \subseteq Windows
  /\ Shell \notin Windows /\ NoFocus \notin Windows /\ Shell # NoFocus
  /\ Zones \subseteq Panels /\ Keys \subseteq OskKeys

VARIABLES
  ui,         \* the record of UiState
  toplevels,  \* compositor->toplevels, the newest window first
  mapped,     \* the windows whose surface is mapped
  shown,      \* the windows whose scene node is enabled
  closing,    \* the windows that were sent a close request
  focus,      \* seat->keyboard_state.focused_surface
  inputs      \* the text-input-v3 object of each client

winVars == <<toplevels, mapped, shown, closing, focus>>
vars == <<ui, toplevels, mapped, shown, closing, focus, inputs>>

Listed == {toplevels[i] : i \in DOMAIN toplevels}

NoInput == [bound |-> FALSE, pending |-> FALSE, current |-> FALSE,
            focused |-> FALSE]

Init ==
  /\ ui = UiInit
  /\ toplevels = <<>>
  /\ mapped = {} /\ shown = {} /\ closing = {}
  /\ focus = NoFocus
  /\ inputs = [w \in Windows |-> NoInput]

\* A step that changes the record of UiState and nothing else.
UiStep(u) == ui' = u /\ UNCHANGED <<winVars, inputs>>

-----------------------------------------------------------------------------
(* Requests of the shell bridge (lumo_shell_bridge_handle_request_frame).  *)

RequestLauncher == \E v \in BOOLEAN : UiStep(SetLauncher(ui, v))

RequestKeyboard == \E v \in BOOLEAN : UiStep(SetKeyboard(ui, v))

RequestScrim == \E s \in Scrims : UiStep(SetScrim(ui, s))

RequestAckResize == \E s \in 0 .. SerialMod - 1 : UiStep(AckResize(ui, s))

RequestAudit == \E v \in BOOLEAN : UiStep(SetAudit(ui, v))

ShowToast == UiStep(MarkStateDirty([ui EXCEPT !.message = "toast"]))

CaptureScreenshot == UiStep(HidePanels(ui, Panels))

OpenDrawer == UiStep(SetLauncher(SetSidebar(ui, FALSE), TRUE))

\* lumo_output_set_rotation, for an output that is there or is not.
CycleRotation ==
  \E scene \in {"off", "on"} :
    UiStep(Publish(IF ui.output THEN ConfigureAllLayers(ui, scene) ELSE ui))

\* A tile of the drawer: a running app is focused, any other is launched and
\* its window comes later.
LauncherTile ==
  \/ /\ \E w \in Listed \ Multi :
          /\ shown' = shown \cup {w}
          /\ focus' = w
          /\ ui' = SetLauncher(SetScrim(ui, "dimmed"), FALSE)
     /\ UNCHANGED <<toplevels, mapped, closing, inputs>>
  \/ UiStep(SetLauncher(ui, FALSE))

HideEverything(u) ==
  LET panels == HidePanels(u, Panels)
      osk == SetKeyboard(panels, FALSE)
      drawer == SetLauncher(osk, FALSE)
  IN  SetSidebar(drawer, FALSE)

GestureHandle ==
  /\ ui' = SetScrim(HideEverything(ui), "hidden")
  /\ shown' = {}
  /\ focus' = NoFocus
  /\ UNCHANGED <<toplevels, mapped, closing, inputs>>

CloseAppAt ==
  \E w \in Listed :
    /\ closing' = closing \cup {w}
    /\ UNCHANGED <<ui, toplevels, mapped, shown, focus, inputs>>

\* The keyboard focus is closed; without one, the window under the pointer
\* or the newest.
CloseFocusedApp ==
  \E w \in Listed :
    /\ focus \in {w, NoFocus}
    /\ closing' = closing \cup {w}
    /\ UNCHANGED <<ui, toplevels, mapped, shown, focus, inputs>>

FocusApp ==
  \E w \in Listed :
    /\ shown' = shown \cup {w}
    /\ focus' = w
    /\ ui' = SetScrim(SetSidebar(SetLauncher(ui, FALSE), FALSE), "dimmed")
    /\ UNCHANGED <<toplevels, mapped, closing, inputs>>

MinimizeFocused ==
  /\ shown # {}
  /\ shown' = {}
  /\ focus' = NoFocus
  /\ ui' = SetScrim(SetSidebar(SetLauncher(ui, FALSE), FALSE), "hidden")
  /\ UNCHANGED <<toplevels, mapped, closing, inputs>>

NewWindow == Listed \cap Multi # {} /\ UiStep(SetSidebar(ui, FALSE))

-----------------------------------------------------------------------------
(* OSK keys (lumo_shell_bridge_commit_osk_text).  A key is resolved against *)
(* the page of the moment, and nothing asks whether the keyboard is still  *)
(* shown: the shell's request can arrive after it was hidden.              *)

KeysOnPage(p) ==
  {"symbol", "backspace", "enter", "shift", "page", "close"}
    \cup (CASE p = 0 -> {"letter"} [] p = 1 -> {} [] p = 2 -> {"esc", "arrow"})

\* The close key, ESC and the cursor sequences all begin with 0x1b.
BeginsWithEsc == {"close", "esc", "arrow"}

TextKeys == {"letter", "symbol", "backspace", "enter"}

\* Mutant: the shell is not told that shift is off again.
ConsumeShift_Silent(u, k) ==
  IF u.shift /\ k = "letter" THEN [u EXCEPT !.shift = FALSE] ELSE u

\* One letter consumes the shift.
ConsumeShift(u, k) ==
  IF u.shift /\ k = "letter"
  THEN MarkStateDirty([u EXCEPT !.shift = FALSE]) ELSE u

\* Backspace may or may not take the last character of the query.
SearchAfter(k, m) ==
  CASE k = "backspace" -> {m, "none"}
    [] k = "enter" -> {m}
    [] OTHER -> {"search"}

FocusedInput == focus \in Windows /\ inputs[focus].bound

\* The text is committed to the input, which may have to be entered first.
TypeIntoApp(u) ==
  /\ FocusedInput
  /\ inputs' = [inputs EXCEPT ![focus].focused = TRUE]
  /\ ui' = u /\ UNCHANGED winVars

TypeIntoSearch(k, u) ==
  /\ ~FocusedInput /\ ui.launcher
  /\ \E m \in SearchAfter(k, ui.message) :
       UiStep(MarkStateDirty([u EXCEPT !.message = m]))

\* Key events to whatever has the keyboard focus.
TypeOnSeat(u) == ~FocusedInput /\ ~ui.launcher /\ UiStep(u)

OskKey(k) ==
  /\ k \in KeysOnPage(ui.page)
  /\ \/ k = "shift" /\ UiStep(MarkStateDirty([ui EXCEPT !.shift = ~@]))
     \/ k \in BeginsWithEsc /\ UiStep(SetKeyboard(ui, FALSE))
     \/ k = "page" /\ UiStep(MarkStateDirty([ui EXCEPT !.page = (@ + 1) % 3]))
     \/ /\ k \in TextKeys
        /\ LET u == ConsumeShift(ui, k) IN
           TypeIntoApp(u) \/ TypeIntoSearch(k, u) \/ TypeOnSeat(u)

-----------------------------------------------------------------------------
(* Edge gestures (lumo_input_touch_point_trigger_edge_action) and the taps *)
(* and drags of touch_down and touch_motion that dismiss shell surfaces.   *)

TogglePanel(u, p) == IF p \in u.panels THEN HidePanels(u, {p}) ELSE ShowPanel(u, p)

\* Mutant: the panels of the other thirds stay open.
EdgeTop_KeepsOthers ==
  \E p \in Zones : UiStep(TogglePanel(SetLauncher(ui, FALSE), p))

EdgeTop ==
  \E p \in Zones :
    UiStep(TogglePanel(HidePanels(SetLauncher(ui, FALSE), Panels \ {p}), p))

\* One thing is dismissed, the first there is; with none the sidebar shows.
FirstPanel(P) ==
  IF "notification" \in P THEN "notification"
  ELSE IF "time" \in P THEN "time" ELSE "quick"

EdgeLeft ==
  \/ ui.audit /\ UiStep(SetAudit(ui, FALSE))
  \/ ~ui.audit /\ ui.panels # {} /\ UiStep(HidePanels(ui, {FirstPanel(ui.panels)}))
  \/ ~ui.audit /\ ui.panels = {} /\ ui.launcher /\ UiStep(SetLauncher(ui, FALSE))
  \/ ~ui.audit /\ ui.panels = {} /\ ~ui.launcher /\ UiStep(SetSidebar(ui, TRUE))

\* The newest window that is shown.
FrontWindow(w) ==
  \E i \in DOMAIN toplevels :
    /\ toplevels[i] = w /\ w \in shown
    /\ \A j \in 1 .. i - 1 : toplevels[j] \notin shown

BackClosesApp(u, w) ==
  /\ FrontWindow(w)
  /\ closing' = closing \cup {w}
  /\ shown' = shown \ {w}
  /\ focus' = NoFocus
  /\ ui' = MarkLayersDirty(SetScrim(u, "hidden"))
  /\ UNCHANGED <<toplevels, mapped, inputs>>

EdgeRight ==
  LET u == SetSidebar(HidePanels(ui, Panels), FALSE) IN
  \/ ui.audit /\ UiStep(SetAudit(ui, FALSE))
  \/ ~ui.audit /\ ui.keyboard /\ UiStep(SetKeyboard(u, FALSE))
  \/ ~ui.audit /\ ~ui.keyboard /\ ui.launcher /\ UiStep(SetLauncher(u, FALSE))
  \/ /\ ~ui.audit /\ ~ui.keyboard /\ ~ui.launcher
     /\ \/ \E w \in Listed : BackClosesApp(u, w)
        \/ shown = {} /\ UiStep(u)

EdgeBottom ==
  LET a == SetAudit(ui, FALSE)
      u == SetSidebar(a, FALSE)
  IN
  \/ ui.launcher /\ UiStep(SetKeyboard(SetLauncher(a, FALSE), FALSE))
  \/ ~ui.launcher /\ ui.keyboard /\ UiStep(SetKeyboard(u, FALSE))
  \/ ~ui.launcher /\ ~ui.keyboard /\ toplevels = <<>> /\ UiStep(u)
  \/ /\ ~ui.launcher /\ ~ui.keyboard /\ toplevels # <<>>
     /\ closing' = closing \cup Listed
     /\ shown' = {}
     /\ focus' = NoFocus
     /\ ui' = MarkLayersDirty(SetScrim(u, "hidden"))
     /\ UNCHANGED <<toplevels, mapped, inputs>>

DismissPanels == ui.panels # {} /\ UiStep(HidePanels(ui, Panels))

DismissSidebar == ui.sidebar /\ UiStep(SetSidebar(ui, FALSE))

DismissLauncher == ui.launcher /\ UiStep(SetLauncher(ui, FALSE))

\* The second finger of a pinch on an application.
PinchBegin ==
  /\ toplevels # <<>> /\ ui.autoShown /\ ui.keyboard
  /\ UiStep(SetKeyboard(ui, FALSE))

\* The last target of a touch audit is hit: the audit ends by itself.
AuditCompleted == ui.audit /\ UiStep(SetAudit(ui, FALSE))

-----------------------------------------------------------------------------
(* Focus by touch (lumo_input_focus_surface).  Text inputs of other clients *)
(* keep the surface they entered.                                          *)

AutoShowKeyboard(u, w) ==
  IF w \in AutoShow \cap Listed /\ ~u.launcher /\ ~u.keyboard
  THEN SetKeyboard([u EXCEPT !.autoShown = TRUE], TRUE)
  ELSE u

EnterInput(w) ==
  [inputs EXCEPT ![w].focused = @ \/ inputs[w].bound]

FocusWindow(w) ==
  /\ focus' = w
  /\ ui' = AutoShowKeyboard(ui, w)
  /\ inputs' = EnterInput(w)
  /\ UNCHANGED <<toplevels, mapped, shown, closing>>

\* A touch on an application that no shell surface, hitbox or edge takes.
TouchApp ==
  /\ ui.panels = {} /\ ~ui.sidebar /\ ~ui.launcher
  /\ \E w \in shown \cap mapped : FocusWindow(w)

\* A touch on nothing goes to the newest window, shown or not, and so does a
\* touch on a shell surface while no shell interface is up; the drawer's
\* hitbox captures the touches on the drawer, and an audit sees no surface.
TouchShell ==
  /\ ~ui.sidebar
  /\ \/ toplevels # <<>> /\ ~ui.launcher /\ FocusWindow(Head(toplevels))
     \/ /\ toplevels = <<>> \/ ui.launcher \/ ui.panels # {}
        /\ ~ui.audit /\ "launcher" \notin ui.hitboxes
        /\ focus' = Shell
        /\ UNCHANGED <<ui, toplevels, mapped, shown, closing, inputs>>

-----------------------------------------------------------------------------
(* Wayland callbacks (src/compositor/src/protocol/protocol.c).             *)

NewToplevel ==
  \E w \in Windows \ Listed :
    /\ toplevels' = <<w>> \o toplevels
    /\ shown' = shown \cup {w}
    /\ UNCHANGED <<ui, mapped, closing, focus, inputs>>

\* Without a keyboard on the seat, a new window is not focused.
MapToplevel ==
  \E w \in Listed \ mapped :
    /\ mapped' = mapped \cup {w}
    /\ shown' = shown \cup {w}
    /\ focus' \in {focus, w}
    /\ ui' = MarkLayersDirty(ui)
    /\ UNCHANGED <<toplevels, closing, inputs>>

\* Mutant: a window that goes stays shown.
DropNode_Never(w) == UNCHANGED shown

DropNode(w) == shown' = shown \ {w}

DropFocus(w) == focus' = IF focus = w THEN NoFocus ELSE focus

UnmapToplevel ==
  \E w \in mapped :
    /\ mapped' = mapped \ {w}
    /\ DropNode(w)
    /\ DropFocus(w)
    /\ ui' = MarkStateDirty(MarkLayersDirty(ui))
    /\ UNCHANGED <<toplevels, closing, inputs>>

AfterDestroy(u, rest) == IF rest = <<>> THEN SetKeyboard(u, FALSE) ELSE u

\* lumo_protocol_teardown_toplevel; wlroots unmaps the surface first.  The
\* surface itself may stay, and with it a focus that came back to it.
DestroyToplevel ==
  \E i \in DOMAIN toplevels :
    LET w == toplevels[i]
        rest == RemoveAt(toplevels, i)
    IN
    /\ w \notin mapped
    /\ toplevels' = rest
    /\ DropNode(w)
    /\ closing' = closing \ {w}
    /\ ui' = MarkStateDirty(AfterDestroy(ui, rest))
    /\ UNCHANGED <<mapped, focus, inputs>>

\* The seat and the text input forget a wl_surface that is destroyed; its
\* window goes before it.
SurfaceDestroy ==
  \E w \in Windows \ Listed :
    /\ focus = w \/ inputs[w].focused
    /\ DropFocus(w)
    /\ inputs' = [inputs EXCEPT ![w].focused = FALSE]
    /\ UNCHANGED <<ui, toplevels, mapped, shown, closing>>

Wanting(i) == i.bound /\ (i.current \/ i.pending)

ExplicitlyDisabled(i) == i.bound /\ i.focused /\ ~i.current /\ ~i.pending

RefreshKeyboard(u, ins) ==
  IF \E w \in Windows : Wanting(ins[w]) THEN SetKeyboard(u, TRUE)
  ELSE IF u.autoShown /\ ~\E w \in Windows : ExplicitlyDisabled(ins[w]) THEN u
  ELSE SetKeyboard(u, FALSE)

InputStep(w, i, u) ==
  /\ inputs' = [inputs EXCEPT ![w] = i]
  /\ ui' = u
  /\ UNCHANGED winVars

\* A client that has the focus already is told at once.
NewTextInput ==
  \E w \in TextClients :
    /\ ~inputs[w].bound
    /\ InputStep(w, [NoInput EXCEPT !.bound = TRUE, !.focused = focus = w], ui)

\* The client's enable and disable requests only prepare the next commit.
InputRequest ==
  \E w \in TextClients, on \in BOOLEAN :
    /\ inputs[w].bound
    /\ InputStep(w, [inputs[w] EXCEPT !.pending = on], ui)

\* A commit is a no-op before enter; it raises one of three events.
CommitEvent(i) ==
  CASE i.pending /\ ~i.current -> "enable"
    [] ~i.pending /\ i.current -> "disable"
    [] OTHER -> "commit"

InputCommit ==
  \E w \in TextClients :
    LET i == inputs[w]
        j == [i EXCEPT !.current = i.pending]
        e == CommitEvent(i)
    IN
    /\ i.bound /\ i.focused
    /\ \/ e = "enable" /\ InputStep(w, j, SetKeyboard(ui, TRUE))
       \/ e = "disable" /\ InputStep(w, j, RefreshKeyboard(ui, [inputs EXCEPT ![w] = j]))
       \/ /\ e = "commit"
          /\ InputStep(w, j, IF j.current THEN SetKeyboard(ui, TRUE)
                             ELSE IF ui.autoShown THEN ui ELSE SetKeyboard(ui, FALSE))

\* The destroy listener refreshes while the object may still be listed.
InputDestroy ==
  \E w \in TextClients :
    /\ inputs[w].bound
    /\ \E ins \in {inputs, [inputs EXCEPT ![w] = NoInput]} :
         InputStep(w, NoInput, RefreshKeyboard(ui, ins))

OskSurfaceCreate ==
  /\ ui.oskSurface = "none"
  /\ UiStep(MarkLayersDirty([ui EXCEPT !.oskSurface = "created",
                                       !.oskNode = "off"]))

OskSurfaceDestroy ==
  /\ ui.oskSurface # "none"
  /\ UiStep(MarkLayersDirty([ui EXCEPT !.oskSurface = "none", !.oskNode = "off"]))

\* The shell draws on every surface it has a configuration for, hidden or not.
OskSurfaceMap == ui.oskSurface = "configured" /\ UiStep(MapOsk(ui))

\* A commit that is the first or changes the layout.
LayerSurfaceCommit == UiStep(MarkLayersDirty(ui))

\* lumo_output_add configures the scene at once.
OutputAdd ==
  /\ ~ui.output
  /\ \E scene \in {"off", "on"} :
       UiStep(ConfigureAllLayers([ui EXCEPT !.output = TRUE], scene))

OutputRemove == ui.output /\ UiStep([ui EXCEPT !.output = FALSE])

\* An output frame broadcasts the pending state, then configures the layers.
Frame ==
  /\ ui.output /\ (ui.layersDirty \/ ui.stateDirty)
  /\ \E built \in BOOLEAN :
       LET u == Broadcast(ui, built) IN
       IF ui.layersDirty
       THEN \E scene \in {"off", "on"} : UiStep(ConfigureAllLayers(u, scene))
       ELSE UiStep(u)

\* The idle source that lumo_shell_mark_state_dirty arms fires once.
BroadcastIdle ==
  /\ ui.stateIdle
  /\ \E built \in BOOLEAN :
       UiStep(Broadcast([ui EXCEPT !.stateIdle = FALSE], built))

SidebarTimeout == ui.sidebarTimer /\ UiStep(SetSidebar(ui, FALSE))

-----------------------------------------------------------------------------
Requests ==
  \/ RequestLauncher \/ RequestKeyboard \/ RequestScrim \/ RequestAckResize
  \/ RequestAudit \/ ShowToast \/ CaptureScreenshot \/ OpenDrawer
  \/ CycleRotation \/ LauncherTile \/ GestureHandle \/ CloseAppAt
  \/ CloseFocusedApp \/ FocusApp \/ MinimizeFocused \/ NewWindow
  \/ \E k \in Keys : OskKey(k)

Gestures ==
  \/ EdgeTop \/ EdgeLeft \/ EdgeRight \/ EdgeBottom \/ DismissPanels
  \/ DismissSidebar \/ DismissLauncher \/ PinchBegin \/ AuditCompleted
  \/ TouchApp \/ TouchShell

Callbacks ==
  \/ NewToplevel \/ MapToplevel \/ UnmapToplevel \/ DestroyToplevel
  \/ SurfaceDestroy \/ NewTextInput \/ InputRequest \/ InputCommit \/ InputDestroy
  \/ OskSurfaceCreate \/ OskSurfaceDestroy \/ OskSurfaceMap
  \/ LayerSurfaceCommit
  \/ OutputAdd \/ OutputRemove \/ Frame \/ BroadcastIdle \/ SidebarTimeout

Next == Requests \/ Gestures \/ Callbacks

\* The event loop serves a scheduled frame and a timer.
Fairness == WF_vars(Frame) /\ WF_vars(SidebarTimeout)

Spec == Init /\ [][Next]_vars /\ Fairness

-----------------------------------------------------------------------------
(* Properties.                                                             *)

TypeOK ==
  /\ ui \in UiType
  /\ toplevels \in Seq(Windows) /\ IsInjective(toplevels)
  /\ mapped \subseteq Listed /\ shown \subseteq Listed /\ closing \subseteq Listed
  /\ focus \in Windows \cup {Shell, NoFocus}
  /\ inputs \in [Windows -> [bound : BOOLEAN, pending : BOOLEAN,
                             current : BOOLEAN, focused : BOOLEAN]]

(***************************************************************************)
(* What the comment at the creation of the OSK surface says of its scene   *)
(* node: disabled "so its bootstrap 1px surface does not intercept         *)
(* wlr_scene_node_at; it will be enabled when keyboard_visible becomes     *)
(* true" (protocol.c:1074-1076).                                           *)
(***************************************************************************)
HiddenOskTakesNoTouch == ~ui.keyboard => ui.oskNode # "on"

(***************************************************************************)
(* Once a frame has configured the layers, the hitboxes are exactly those  *)
(* the visible shell surfaces want - although the touch audit, layer       *)
(* commits and output changes move that set without refreshing it          *)
(* (protocol.c:504-604).                                                   *)
(***************************************************************************)
HitboxesFresh ==
  ui.output /\ ~ui.layersDirty => ui.hitboxes = WantedHitboxes(ui)

(***************************************************************************)
(* Between frames a hitbox may be missing but never outlives its surface:  *)
(* a touch is not captured for a keyboard or a drawer that is gone.        *)
(***************************************************************************)
NoGhostHitbox ==
  /\ "osk" \in ui.hitboxes => ui.keyboard
  /\ "launcher" \in ui.hitboxes => ui.launcher

(***************************************************************************)
(* The resize handshake: a pending resize belongs to a visible keyboard,   *)
(* and resize_pending and resize_acked, both broadcast, never agree.       *)
(***************************************************************************)
ResizeHandshake ==
  /\ ui.pending => ui.keyboard
  /\ ui.acked = ~ui.pending

(***************************************************************************)
(* keyboard_auto_shown, which shields the keyboard from text inputs, never *)
(* survives the keyboard it was set for.                                   *)
(***************************************************************************)
AutoShownIsVisible == ui.autoShown => ui.keyboard

(***************************************************************************)
(* The drawer's search query is gone once the drawer is closed             *)
(* (CHANGELOG.md:918), although it shares its buffer with the toasts.      *)
(***************************************************************************)
SearchEndsWithDrawer == ui.message = "search" => ui.launcher

\* The three pull-down panels, each opened by its third of the top edge and
\* closed from many places, are never open together.
OnePanelAtMost == \A p, q \in ui.panels : p = q

\* What a state frame says of the record (shell_bridge.c:126-258).  The rest
\* of it - notifications, rotation, touch audit and debug, volume, weather -
\* is in no module.
Drawn(u) == <<u.launcher, u.keyboard, u.panels, u.sidebar, u.scrim, u.audit,
              u.shift, u.page, u.message, u.serial, u.pending, u.acked,
              u.output>>

\* The handlers that change a state frame and announce nothing: the
\* acknowledgement of a resize, a new window in the list of running
\* applications, and an output that comes or goes with its size.
Unannounced == RequestAckResize \/ NewToplevel \/ OutputAdd \/ OutputRemove

(***************************************************************************)
(* Every other handler, however many setters it calls and whichever of     *)
(* them return early, leaves a broadcast pending and its idle source armed *)
(* when it has changed anything the state frame says, the list of running  *)
(* applications included (lumo_shell_mark_state_dirty, shell_bridge.c:365).*)
(***************************************************************************)
ChangesAreAnnounced ==
  [][<<Drawn(ui), toplevels>>' # <<Drawn(ui), toplevels>>
       => (ui'.stateDirty /\ ui'.stateIdle) \/ Unannounced]_vars

\* The sidebar goes away by itself (docs/lumo-gesture-system.md:53).
SidebarAutoHides == ui.sidebar ~> ~ui.sidebar

(***************************************************************************)
(* A layer change reaches the screen: mark_layers_dirty schedules a frame, *)
(* and that frame configures the layers unless the output goes first.      *)
(***************************************************************************)
LayersSettle == (ui.output /\ ui.layersDirty) ~> (~ui.output \/ ~ui.layersDirty)
=============================================================================
