# Lumo compositor: verification project

TLA+ models of the Lumo touch compositor (C, wlroots), the configurations that
model-check them with TLC, and theorems proved with TLAPS. Source references
are relative to the repository root; `protocol.c:64` means
`compositor/src/protocol/protocol.c`, line 64.

## 1. The system

Lumo is one compositor process and one or more shell processes.

* **lumo-compositor** owns the Wayland display. It is single-threaded: every
  handler (Wayland request, libinput event, output frame, timer, idle source,
  bridge socket) runs to completion on one `wl_event_loop`. What makes it hard
  is not data races but the *order* in which handlers come, and that each of
  some sixty handlers changes a few of the same dozen flags.
* **lumo-shell** draws the launcher, status bar, panels, sidebar, gesture
  handle and on-screen keyboard (OSK) as layer surfaces. It holds a *copy* of
  the compositor's UI state, received as state frames over a Unix socket (the
  bridge), and sends requests back ("set launcher visible", "OSK key 12",
  "focus app 3"). A request is formed from the copy and served in the original.
* **applications** are xdg toplevels (or X11 windows through XWayland) with
  text-input-v3 objects.

### Components

| component | state | operations | hard behaviour |
|---|---|---|---|
| UI state (`protocol_setters.c`) | launcher, keyboard, three panels, sidebar and its timer, scrim, resize handshake, toast/search buffer, dirty flags | setters that call one another | cascades; a setter that forgets a part |
| Wayland handlers (`protocol.c`) | toplevels, layer surfaces, text inputs, hitboxes | new/map/unmap/destroy, text-input enable/commit/disable/destroy, layer commit, hitbox refresh | objects die in any order; auto-shown keyboard against text inputs |
| shell bridge (`shell_bridge.c`) | clients, pending broadcast, idle source | accept, read, ~25 requests, broadcast | stale requests, partial writes, size limits |
| touch input (`input.c`, `input_touch.c`) | touch points with samples, hitbox and surface; pinch; gesture timer | down, motion, up, cancel, capture, deliver, replay, edge actions | surfaces and hitboxes vanish under a finger, timer races |
| touch audit (`touch_audit.c`) | step, samples | start, note touch, finish | activation from and during other UI |
| outputs (`output.c`) | outputs, usable area, rotation | add, destroy, frame, rotate | layers dirty without an output |
| shell supervisor (`shell_launch.c`) | process slots, SIGCHLD | start, reap, respawn, stop | exits racing stop and respawn |
| framing (`shell_protocol.c`) | partial line and frame | feed, parse, format | split and oversized input |
| shell surfaces (`shell_client.c`, `shell_protocol_client.c`) | copy of the UI state; for each of six surfaces its target, configuration, animation, mark and input region | apply a frame, configure, tick, redraw, time out | marks cleared by others, animations turned around |
| shell input (`shell_input.c`) | mode, position, finger, pointer, target, page, drag, menu | touch, pointer, request | one structure for all fingers, surfaces and devices |
| background (`shell_background.c`) | tasks, generation, barrier | draw a picture with a pool of threads | late starts, spurious wakeups, two passes |
| OSK tables (`shell_osk.c`), geometry (`shell_ui.c`) | current page | key by index, hit tests | page at press and page at lookup |
| pointer (`input_pointer.c`), XWayland (`xwayland.c`) | cursor, work areas | forward, focus, close | |
| life cycle (`main.c`, `compositor.c`, `backend.c`) | started parts, outputs, devices, listeners | start, unwind, hotplug, stop | failure half-way, an order of the stop that is not the reverse of the start |
| pixels, hardware status, setup tool, screenshot tools | - | drawing, /sys, files | not modelled |

What makes each correct, in one line: the UI flags never contradict one
another, the scene, the hitboxes or the timers; every visible change reaches
the shell; touches go where the screen says; no process, surface or finger is
used after it is gone.

`PROJECT.json` lists the components with their status, and under "hazards" the
places where this code is hard to test, with the properties aimed at them.

## 2. Modules

| module | what it is |
|---|---|
| `UiState` | the record of UI flags and every setter as an operator on it |
| `ShellUi` | the state machine: every handler that changes UI state, windows, focus or text inputs |
| `ShellSupervisor` | the compositor's child processes, their exits and reaping |
| `LifeCycle` | the compositor from `main` to its end, composed with `ShellSupervisor`, its last part |
| `StateBridge` | how the shells learn the state, and how they name windows back |
| `TouchRouting` | what touch input promises about each finger (abstract) |
| `TouchInput` | the touch handlers, the gesture timer and the seat; implements `TouchRouting` |
| `ShellView` | the state that the shell process has read, and what it derives for each surface |
| `ShellSurfaces` | the shell's surfaces: frames, answers, animations, input regions, event loop |
| `ShellInput` | the shell's touches and pointer, and the requests they send |
| `StripedFill` | what drawing the background promises (abstract) |
| `BackgroundPool` | the pool of threads that does it; implements `StripedFill` |
| `MC...` | constants, constraints and symmetry of the runs |
| `UiStateProofs` | one lemma per setter: it preserves the invariant of the record |
| `ShellUiProofs`, `LifeCycleProofs` (with `ShellSupervisor`), `StateBridgeProofs`, `TouchInputProofs`, `ShellSurfacesProofs`, `ShellInputProofs`, `BackgroundPoolProofs` | the theorems about each module |

How they fit together. `ShellUi` is the compositor's interface as a whole; `StateBridge`,
`TouchInput` and `ShellSupervisor` take one interaction of it apart. `StateBridge` refines its
`BroadcastIdle`, in which a broadcast succeeds or fails at random, and its
requests, which there come from nowhere: a state is a version number, a flag
changes when the version does. `TouchInput` refines its gestures and touches, which there happen
at any time: it has the five flags that the touch handlers read, which
`UiChanges` moves as anything in `ShellUi` could. `ShellSupervisor` is joined to
those only through a shell that is there or gone (`ShellGone`, `Exit`);
`LifeCycle` extends it, says when each of its steps can happen, and is proved to
implement it. On the shell's side `ShellSurfaces` and `ShellInput` share
`ShellView`: both take the frames that `StateBridge` delivers as any sequence of
states, and what one reads of the other (`ShellSurfaces`, whether a page is being
dragged) is a choice.

### UiState

`struct lumo_compositor` is passed to every handler, and the setters call one
another (opening the launcher hides the keyboard, which resets shift and page,
moves the scrim, bumps the resize serial, refreshes hitboxes and dirties the
layers). So the flags are a record and a setter is an operator from record to
record: `SetKeyboard`, `SetLauncher`, `SetSidebar`, `SetScrim`, `SetAudit`,
`AckResize`, `ConfigureAllLayers`. A handler that calls several is their
composition, in the order of the code. Abstractions:

* `message` is `toast_message`, reduced to *empty, a toast, a query*;
* `hitboxes` is the set of kinds registered by `refresh_shell_hitboxes`;
* `oskNode` is the enabled flag of the "osk" scene node and `oskSurface` how far
  its layer surface has come: *none, created, configured, mapped*. What
  `wlr_scene_layer_surface_v1_configure` leaves in the node is either value
  (`SceneConfigure`), because it depends on whether the surface is mapped and
  its layout changed; the first buffer maps the surface and enables the node
  (`MapOsk`, the scene helper of wlroots, external);
* `stateDirty` and `stateIdle` are `state_broadcast_pending` and
  `state_broadcast_source`. A broadcast that cannot be built or formatted leaves
  the first set with the second gone (`Broadcast`, `shell_bridge.c:326-334`),
  until the next mark or output frame;
* `serial` is a `uint32_t`, kept modulo `SerialMod`;
* `output` is "there is an output", i.e. a work area.

### ShellUi

One action per handler. Its windows are `toplevels` (the list, newest first, as
`wl_list_insert` leaves it), `mapped`, `shown` (scene node enabled), `closing`
(was sent a close request), `focus` (the seat's keyboard focus). `inputs` holds
for each client the pending/current enabled flags of its text input and whether
it has entered a surface. An OSK key is one of a few classes; where its text
goes is the branch that is taken. A window that is destroyed leaves its
`wl_surface` behind, with the focus and a text input that may have come back to
it, until that is destroyed as well (`SurfaceDestroy`).

| actions | code |
|---|---|
| `RequestLauncher` ... `NewWindow`, `OpenDrawer` | requests in `shell_bridge.c:828-1303` |
| `OskKey` | `commit_osk_text`, `shell_bridge.c:483-733` |
| `EdgeTop/Left/Right/Bottom` | `trigger_edge_action`, `input_touch.c:813-1010` |
| `DismissPanels/Sidebar/Launcher`, `PinchBegin`, `TouchApp`, `TouchShell` | `touch_down`, `touch_motion` in `input.c` |
| `NewToplevel` ... `OskSurfaceDestroy` | listeners in `protocol.c` |
| `OutputAdd/Remove`, `Frame` | `output.c` |
| `BroadcastIdle`, `SidebarTimeout` | idle source and timer |

What a gesture needs to be recognised (distance, velocity, angle, the boot
splash) is left out: an edge action may happen at any time. What the text-input
object of wlroots does between the requests of the client and the events the
code listens to (`CommitEvent`, `InputRequest`) is modelled from the use the
code makes of it and marked external. Whether a broadcast fits is a choice here;
sizes and clients are in `StateBridge`. Titles and application ids, notifications,
the steps of the touch audit and the rotation are in no module, although a state
frame carries them.

### ShellSupervisor

`slot` and `count` are `state->processes` and `state->count`
(`shell_launch.c`), `life` is what the kernel knows of each child, `signal` is
the one pending SIGCHLD. Process ids are few and used again. `Start` begins
`autostart_start`, `ForkShell` is one of its up to three attempts to fork the
shell, 100 ms apart, in which children may exit, and `StartEnds` the two helpers
that follow; no signal is read before the start is through.
`ForkHelper` any handler that forks an application or a tool, `ReapOnSignal`
and `ReapOnFrame` the two callers of `reap_children`, `Stop` the shutdown with
SIGTERM, the wait and SIGKILL taken together.

### StateBridge

`pending` and `source` are `state_broadcast_pending` and its idle source,
`clients` is `bridge.clients`, `link`, `toShell`, `view` and `requests` are a
shell's socket in both directions and the copy it has read. A state is a
version and the list of windows; the length of a frame is counted in windows
(a long title counts twice), because that is all that makes it grow: without a
window it is some 850 bytes of fixed fields, each window adds 50 to 180, the
snapshot buffer holds 1024 and the broadcast buffer 2048. `Broadcast` is the
loop of `broadcast_state` with its early return when the frame cannot be built
and with the removal of clients that cannot be written. `Respond` may leave a `Torn`
answer; `torn` remembers to whom. The torn bytes run into the next frame:
either the line they meet in is refused and the shell closes its socket, or the
answer was torn in the middle of a value and the shell takes the frame for the
rest of it (`Read`; `shell_protocol.c:49-72, 488-510`).
`NewToplevel` inserts a window at the head of the list and marks nothing, as in
`protocol.c:982`.

### TouchInput

`points` are the tracked touch points with the surface they are bound to, the
surface whose destruction they listen for (after a replay these differ), their
hitbox, edge and flags; `seat` is what wlroots has open for each finger; `pinch`
is `pinch_touch_ids` while `pinch_active`. Where a finger lands is any
combination the code tells apart (`Landing`), so `TouchDown` is the cascade of
`input.c:509-938` in its order: audit, pinch, panel, sidebar and drawer
dismissals, system edge, reserved hitbox, handle, surface, fallback to an
application. `TouchUp` is the whole of `touch_up` with tap, fling, suppressed
edge tap and replay. `GestureTimeout` replays every late touch on the handle
and sets the timer anew. `DestroyWindow` and `ShellGone` run the destroy
listeners of all the points.

Hitboxes are freed and rebuilt while points keep pointers to them. A point's
hitbox is then `stale`, and what the code reads through it is any kind of
hitbox (`Reads`); `Deadline` lets `gesture_timeout_ms` pass at any moment after
the capture, which covers every order of timer, motion and lift.

Left out: popups, clients without `wl_touch`, a failed allocation, the scale of
a pinch and all coordinates.

### LifeCycle

`at` is the part that `lumo_compositor_run` starts or `lumo_compositor_cleanup`
stops next. `made` is what exists, by the names of the fields of
`struct lumo_compositor`; `links` stands for the groups of listeners of each
part, with the memory they are in (`Owner`) and the signal they are linked into
(`Emitter`). `plugged` is what the backend has, `wrapped` the outputs with a
`struct lumo_output`, `hooked` those whose signals hold its listeners: in
`output.c:248-277` the structure goes and the listeners do not. `PartFails` is a
failure that undoes itself; `StartInputFails` may leave the keyboard of the OSK
(`input.c:1240-1248` unwinds the seat and the context only). What an output or a
device brings with it beside its wrapper is left out, and so are command line,
logs, settings and the readiness notification.

### ShellView, ShellSurfaces

A slot's fields are those of `struct lumo_shell_surface_slot`: `target`
(`target_visible`), `hidden`, `config`, `dirty`, `drawn` (`configured`), and the
animation with the value it began from. The code swaps a slot into the client,
works on the client and swaps it out again (`shell_client.c:611-656`); the
operators work on the slot. `StateFrame` is `apply_state_frame` with its redraw,
`PumpEnds` the redraw after the last frame that could be read, `Configure` an
answer of the compositor, which draws and clears the mark, `Timeout` the
`poll` that returns for nothing. An animation's value is *hidden, between,
shown*; `Age` is its time. A buffer is always found. Of the fields that frames
carry it has those that surfaces depend on.

### ShellInput

The variables are fields of `struct lumo_shell_client` with the fingers the
compositor has told of. A position is a record of what the surface shows there
(`on`), its column, and the control that a panel has at the same coordinates,
because panels are hit-tested on whatever surface the client has in its hand.
`Lift` is the cascade of `touch_up` in its order. A long press, a row of the
context menu and the slot of a slider are choices. A window of the sidebar's list is
an index.

### BackgroundPool, StripedFill

What happens under `start_mutex` is one step. A worker that has been woken reads
its task and draws without the lock (`Draw`); the barrier opens for all at once
(`Opens`). A stripe records the generation it was drawn for. All workers were
created: a failed `pthread_create` is ignored (`shell_background.c:492`) and would
leave the barrier one short for good.

## 3. Runs

A run of module `MC<Module>` uses `<Module>_<run>.cfg`. Deadlock checking is
off: the compositor may be idle for ever, and the supervisor ends.

| run | module | bounds | shows |
|---|---|---|---|
| `panels` | `ShellUi` | no windows, no keys, three zones, serial modulo 2, no constraint | flags against hitboxes, handshake, panels; changes are announced; with fairness, the sidebar hides and layers settle |
| `windows` | `ShellUi` | two windows, one auto-showing, one multi-instance with a text input, four key classes, panels and output at rest | lists, focus, automatic keyboard, search query, announcements |
| `processes` | `LifeCycle` | three process ids, six slots, an output and a device | no exit is missed, nobody else is killed, zombies are reaped; nothing dangles and only children are left, wherever the start fails |
| `bridge` | `StateBridge` | two shells, one window, three changes, one request each; a frame with a long title exceeds the broadcast buffer, one with a window the snapshot | the dirty flag tells the truth and changes arrive, but for clients an answer was torn for |
| `touch` | `TouchInput` | one finger, one window, every edge and flag, two streams | timer, held touches, the hidden keyboard |
| `fingers` | `TouchInput` | two fingers, one window, bottom edge, drawer and keyboard, one stream each, fingers symmetric | refinement of `TouchRouting`, surfaces are told |
| `surfaces` | `ShellSurfaces` | drawer, keyboard and handle; six states on two outputs | targets, layouts, regions and rest follow the last frame; animations end |
| `input` | `ShellInput` | two fingers, or one and the pointer; three surfaces, two pages, one window, four states | what a lift sends and when |
| `pool` | `BackgroundPool` | three workers, two pictures of two passes | refinement of `StripedFill`, tasks are quiet, every call returns |
| `oskmap`, `respawn`, `outputs` | `ShellUi`, `ShellSupervisor`, `LifeCycle` | as small as the divergence allows | counterexamples, section 4 |

Why the bounds are enough.

*ShellUi.* The UI record is finite but for the serial; modulo 2 an
acknowledgement is for the current resize or for another, and every second
increment wraps. The code treats windows alike but for the list order,
so two windows show every relation of *this window* and *another*; the back
gesture and destruction of a window that is not the focused one need two. No
handler reads panels together with windows other than as guards, so a run holds
one side at rest: `WindowsOnly` keeps panels, audit and output at rest, which
`panels` explores completely, and `closing` empty, because a close request
changes nothing until the client destroys the window, which it may do anyway;
toasts come in `panels`, the query in `windows`, which is also the one that
types keys. It leaves out four key classes: `symbol`, `backspace` and `enter`
differ from `letter` in not consuming shift or in shortening the query, `close`
and `arrow` take the branch of `esc`.

*LifeCycle.* Three ids are a shell, a helper and one to be used again;
`Attempts` is the code's three. No handler relates two outputs or two devices, and any number may be announced by
the start of the backend or later.
*StateBridge.* Two shells are needed for a broadcast that fails in the middle
of its loop, three changes for one that is marked while a broadcast is pending
and another while it is read; the room constants are scaled down so that one
window with a long title already overflows each buffer.
*TouchInput.* One finger meets everything around it in `touch`; what fingers do
to each other (pinch, cancel of a whole client, the shared timer) needs two,
and a third only ever meets `pinch_active` or two independent others.
`fingers` keeps one edge because edges differ only in their UI actions; its
refinement was also explored with two streams per finger.

*ShellSurfaces.* Slots are told apart by three things: never hidden or not, one
layout or one per output, and whether answers overwrite the hints. The handle,
the keyboard and the drawer are these kinds; the status bar and the background
are like the handle, the sidebar like the drawer.
*ShellInput.* The client listens to one finger, so a second is every other one;
`OneHand` leaves out two fingers *and* the pointer, which share nothing that two
of the three do not. Two pages have a first and a last; one window is the list
empty and not. The states are the desktop, the drawer, the drawer under quick
settings (which `ShellUi` reaches, see section 4) and quick settings over the
keyboard.
*BackgroundPool.* Three workers are the last at the barrier, one that is early
and one that sleeps; four generations are each pass once as the first and once
after another (`MaxGeneration` stands for a `uint64_t`; no call is made at the
bound).

The proofs have none of these bounds.

Fairness is weak fairness of what the event loop promises: an idle source runs
before the loop blocks, an armed timer that stays armed fires, a readable signal
descriptor is dispatched, and a scheduled frame comes while the output is there
(`Frame`; the shell redraws its clock, so frames go on). A shell that lives
reads its socket. A start that has begun runs through (`Starts`, `ForkShell`,
`StartEnds`: none of them waits for anything). Time passes (`Deadline`). `ReapOnFrame` has no fairness, and
none is assumed of users, fingers or applications.
Threads that can run do, the shell's `poll` returns (within 33 ms while something
moves), and each part of a stop comes to its end (the
longest wait is one second for children). `ShellInput` assumes nothing.

## 4. What TLC found

Places where a document says one thing and the code does another; each is a
violation run whose trace shows it (`PROJECT.json`, "findings"):

1. `respawn`: a shell that exits is never respawned: its slot is not counted,
   so it is taken for an untracked child. For the same reason it is not
   terminated at shutdown (`CHANGELOG.md:1244` says it is).
2. `outputs`: `docs/lumo-security-audit.md:101-102` says that outputs are
   unlinked and freed at shutdown. They are freed with their three listeners
   still in the signals of the `wlr_output`, which the backend emits when it is
   destroyed next: `lumo_output_destroy` runs on freed memory. A
   `reload_session` with an output, and a start that fails after the backend has
   announced one, both get there (`StopBackendCrashes`).

3. `oskmap`: the comments at `protocol.c:1074-1076` and
   `protocol_setters.c:397-399` say that the node of a hidden keyboard is disabled
   at its creation and again whenever the layers are configured, because its
   one-pixel surface would take touches. The surface's first buffer enables it in
   between, and the commit handler asks for a new configuration only when the
   layout differs (`protocol.c:450-481, 827-856`), which it does not. Until the
   layers are configured for another reason, a touch on that pixel lands on the
   hidden keyboard; `TouchInput` lets it land there (`Landing`).

Disagreements that the models contain, without a run of their own:

* ESC, arrows, PgUp/PgDn and Home close the keyboard and are never typed
  (`shell_bridge.c:514`), although `README.md:259` lists them on the terminal
  page (`OskKey` in `ShellUi`).
* The swipes documented as minimizing (`docs/lumo-gesture-system.md:41,49`) send
  close requests (`input_touch.c:943,990`).
* A window that was created since the last broadcast shifts the index of every
  icon, so that a tap reaches another window (`NewToplevel`, `Tap` and `Serve` in
  `StateBridge`; `docs/lumo-gesture-system.md:59`).
* When both fingers of a pinch are cancelled, `pinch_active` stays set and every
  further touch is ignored (`TouchCancel`; `docs/lumo-gesture-system.md:79`).
* A tap while the drawer's page still moves opens the tile of the page that is
  left: the target is looked up before the move is completed (`Down` in
  `ShellInput`; `CHANGELOG.md:80` says this was fixed).
* The drawer can open under quick settings. They are then not drawn
  (`shell_render.c:311-314`), but their controls are still hit
  (`shell_input.c:94`), also by a touch on the keyboard: hence the exceptions in
  `DragsLaunchNothing` and `KeysAreTyped`.
* A drag of the drawer's page that is lifted over the search bar opens the
  keyboard, because the bar is looked at before the swipe (`shell_input.c:493-515,
  586`), and leaves `launcher_swiping` set: the exception in `DragsLaunchNothing`.
* The icon whose context menu is open is remembered by index; the menu's rows
  are sent for it although the list may have changed (`shell_input.c:530-566`).
  The compositor looks any index up in its own list (`shell_bridge.c:1206-1233`).
* A page's animation ends by being drawn (`shell_render.c:552`), and a closed
  drawer is not (`shell_render.c:481-484`): one that is closed in the middle of a
  move leaves `launcher_snap_active` set, and the event loop wakes every 16 ms
  (`shell_client.c:1132-1135`) until the drawer is opened again; the same with a
  drag that was lifted over the search bar or cancelled. So no property says that
  pages come to rest.
* A start that fails at the cursor leaves the keyboard of the OSK, and the shell
  survives the stop: the exceptions in `StopLeavesOnlyChildren`.
* An answer that is written in part may cost a client the next state frame, and
  nobody marks that state again (`shell_bridge.c:390-426`): the exception in
  `CleanMeansSent` and `ChangesArrive`.
* Four handlers change what a state frame says and mark nothing: the
  acknowledgement of a resize (`protocol_setters.c:254-275`), a new window
  (`protocol.c:909-984`), an output that comes or goes. `ChangesAreAnnounced` names
  them. Until something else is marked the shell counts one application too few
  and, for the first one, sleeps 200 ms instead of 5 s at a time
  (`shell_client.c:1119-1128`). A new title or application id marks nothing either
  (`protocol.c:762-790`).
* A surface that is shown and hidden within one millisecond begins and ends its
  animation at the same value, so it is never counted as hidden and keeps its
  large configuration (`shell_client.c:374`).

And behaviour that is rather an oddity:

* An OSK key that arrives after the keyboard hid sets shift or page of the
  hidden keyboard (`docs/lumo-osk.md:94-100` say they are reset).
* With a text field focused, OSK keys go to the application behind the open
  drawer (`docs/lumo-apps.md:15` says to its search bar).
* The back gesture closes the newest shown window, not the focused one
  (comment at `input_touch.c:938`).
* A text input of another client that was never enabled hides the auto-shown
  keyboard (comment at `protocol.c:163-168`).
* A downward swipe that closes the drawer removes a touch that was already
  delivered: its surface gets neither up nor cancel. `LeavingIsTold` names this
  as its one exception.
* The tap on the handle goes home or closes, where
  `docs/lumo-gesture-system.md:28` says it toggles the launcher; `:31` says
  suppressed edge taps are dropped, `CHANGELOG.md:738` and the code replay them.
* The scale last announced by a pinch is static and not reset by the next one
  (`input.c:395`).

## 5. Proofs

`ShellUiProofs` proves, for every set of windows, every serial modulus, every
subset of zones and keys:

| theorem | property |
|---|---|
| `TypeCorrect` | `TypeOK` |
| `HitboxesSafe`, `GhostsSafe`, `ResizeSafe`, `AutoShownSafe`, `SearchSafe`, `PanelsSafe` | `HitboxesFresh`, `NoGhostHitbox`, `ResizeHandshake`, `AutoShownIsVisible`, `SearchEndsWithDrawer`, `OnePanelAtMost` |
| `AnnouncementsSafe` | `ChangesAreAnnounced`: what changes a state frame leaves a broadcast pending and its idle source armed, but for four handlers that are named |
| `ResizesCounted` | `ResizesAreCounted` (no run): a flip of the keyboard counts one resize, and nothing else does |

The argument. The record has one inductive invariant, `UiOK`, the conjunction
of its type and of named parts (`Settled`, `Fresh`, `NoGhost`, `Reserved`,
`AutoShown` ...). The parts need one another: `NoGhost` is preserved by a
setter that hides the keyboard only because it also refreshes; `Fresh` is
stated for a clean layer flag, and survives an audit toggle only because the
toggle dirties it. `UiStateProofs` shows that each setter maps a record in
`UiOK` to one in `UiOK`, so a handler, being a composition of setters, is
proved by citing one lemma per call: the proof has the shape of the code.
`ShellUiProofs` then has one step lemma per group of handlers (`RequestStep`,
`GestureStep`, `CallbackStep`), `UiInvariant` from them, and the type of the
remaining variables (`WindowsStep`, `InputsStep`), where the fact that matters is that removing one element of an injective list removes
exactly that window (`RemoveAtFacts`). `AnnouncementsSafe`
(`ChangesAreAnnounced`) needs a relation between two records that composes:
`Said`, a setter leaves the record as it was or leaves a broadcast pending.
Each setter is shown to be in it (`KeyboardSaid` ... `AuditSaid`), `SaidTwice`
composes them, and of what is in no setter layers, frames and idle sources move
nothing of `Drawn` and a window that is destroyed is marked (`ListChanges`,
`DestroyAnnounced`).
`ResizesCounted` needs another one: "one flip, one serial" does not compose by
itself, since two flips in one handler would end where they began with two
serials spent. It composes while the keyboard goes one way, so `UiStateProofs`
shows that every setter but one is `Lowered` (it may hide the keyboard and
never shows it) and that handlers that show it call nothing else that moves it.

`LifeCycleProofs` proves for any set of ids and any number of slots
`SupervisorInvariant`, `ExitsAreSignalled` (`NoMissedExit`) and `StopIsHarmless`
(`StopSparesOthers`). The invariant says
that the count is zero whatever happens: this is what makes the stop harmless,
and also what makes the respawn of section 4 impossible. For the composition
it proves `LifeImplementsSupervisor`, so that the theorems hold of the whole
compositor (`LifeSupervises`), and for any outputs and devices `LifeDangles`
(`NothingDangles`) and `ChildrenAreLeft` (`StopLeavesOnlyChildren`, which needs of
the supervisor that a shell that is alive is the one in the first slot,
`InSlot`). Their invariant `LifeOK` says
which parts are whole (`Whole`: a part is there with its listeners or not at
all), that later parts stand on earlier ones (`Stacked`), and how far start and
stop have come (`Progress`); this is what a stop in another order than the
reverse of the start needs at each of its parts. `LifeStopsHarmlessly` carries
`StopSparesOthers` over to the specification that the run checks.
`OutputsDangleOnce` (`ListensToWhatIsThere`) is the positive half of the
finding about outputs: a listener is in the signals of an output exactly while
its structure exists, at every point of a start, a run and a stop but the one
between `StopOutput` and the stop of the backend, which is where the run
`outputs` finds the freed structures called.

`ShellSurfacesProofs` proves for any surfaces and states `SurfacesInvariant`,
`TargetsFollow`, `HiddenIsSmall`, `LayoutsFollow` and `RegionsFollow` (which has
content for the drawer, the panels and the bar: the regions of the keyboard and
of the sidebar never change). The
properties lean on one another: a surface that is shown again while it hides
gets its layout only because a target that differs begins a transition, and an
answer or a hangup may clear a mark only because no mark is left outside of a
step once a frame was read. `SurfacesOK` adds this to the four (`SlotOK`); `Led` is
a slot in step with the state, `Sane` one that has still to meet it. Beyond the
run's invariants, `AnimationsOnlyAdvance` (`AnimationsAdvance`) says that
while what is said of a surface stays, its animation only goes forward - no
frame about something else, no repeated frame, no answer starts it again - and
that what is over does not survive a redraw; fairness then gives
`AnimationsEnd`. `ClosedDrawersPassTouches`: the region of a closing drawer
is empty although its pixels still fade.

`ShellInputProofs` proves for any fingers, positions and states `PressesSend`,
`DragsAreQuiet` (`DragsLaunchNothing`) and `KeysReach` from `InputOK`, which says
what a lift needs to know of target and position. A second invariant, `TypedOK`,
gives `InputTyped` (`TypeOK`, whose page is in bounds only because a snap heads
for a page next to the shown one, `SnapsToANeighbour`, and that only because
every new swipe ends the old snap), `NoGhostFinger` (`FingerIsDown`) and
`NoPageSkipped` (`PagesTurnByOne`).

`BackgroundPoolProofs` proves for any workers `PoolInvariant`, `TasksStayQuiet`
and `PoolImplementsFill` (`FillsInTwoPasses`). `PoolOK` says where workers may be
while the caller writes tasks (`Rests`) and while it waits (`Works`, `Waits`),
and that no stripe is from a later generation than the last posted (`Past`).
`PicturesStayWhole` (`PicturesAreWhole`) relates the two calls of a picture: the
blended stripes stand on the waves of the call before, a neighbour's stripe
like the worker's own. `EverybodyIsAwake` (`NobodyOversleeps`) and `PassesGoOn`
(`WorkersGoOn`) are the safety core of `FillEnds`: during a pass no worker
sleeps, somebody has something to do, and every step takes one worker one
place further, so a pass has at most three steps of each worker and two of the
caller.

`StateBridgeProofs` proves for any shells, windows and sizes `BridgeInvariant`,
`CleanBridge` (`CleanMeansSent`) and `OrderedFrames`. `CleanMeansSent` alone is
not inductive: reading a frame replaces the view, so a client could lose a
newer state for an older one. The invariant adds that the frames in a queue are
in the order of their versions and none is older than the view, that nothing
sent is newer than the state, that nothing is marked that did not happen, and
that a torn answer is under way only to clients known to have one
(`TornAreKnown`): who is exempt has to be known before the bytes are read.
From it follow `ViewsOnlyAdvance` (`ShellsNeverGoBack`) and `ShellsCatchUp`
(`QuietShellsAreCurrent`: when all is quiet a shell shows the last marked
change, the safety core of `ChangesArrive`). `RemovedStayForgotten`
(`RemovedAreForgotten`) has an invariant of its own about who is served.

`TouchInputProofs` proves for any fingers and windows `TouchInvariant`,
`TouchesAreRouted` (`FingersAreRouted`: the refinement of `TouchRouting`),
`WaitersHaveTimer` (`WaitingHasTimer`) and `HiddenKeyboardSafe`
(`HiddenKeyboardHearsNothing`). A finger's owner depends on its own
point only, so every step is examined finger by finger (`Good`); that hitboxes
become stale changes no owner (`Refreshed`), so each handler is examined on the
points before that. The invariant is needed where a surface goes: a point is
bound to one surface and may listen for another, and only because these are
equal or both of the shell, whose surfaces go together, is no finger left with
a surface that is gone.

`LeavingTold` (`LeavingIsTold`) needs to know what the seat of wlroots holds:
`SeatInvariant` says that a delivered finger is the newest stream that its
surface was told of, or that the surface's client has no stream left, as after
a pinch has cancelled it. A cancel takes all the streams of a client out of a
sequence of any length, so the proof needs induction over the sequence. The
library's induction theorems take an operator as a parameter and cannot be
instantiated by the installed provers; `SetInduction` states the principle for
a set of numbers instead, from the well-foundedness of `<`, and `Without` is
written as a recursive function so that the proof can unfold one element.

Assumptions are those named in the modules (`SerialModAssumption`,
`WindowsAssumption`, `PidsAssumption`, `BridgeAssumption`, `TouchAssumption`,
`ModesAssumption`, `InputAssumption`, `PoolAssumption`);
`TouchAssumption` keeps windows, shell surfaces, `None` and the three owners
that are not surfaces apart.

Every invariant and action property of the runs is a theorem, and so are both
refinements. Theorems without a run (`ResizesCounted`, `SeatInvariant`,
`OutputsDangleOnce`, `AnimationsOnlyAdvance`, `ClosedDrawersPassTouches`,
`InputTyped`, `NoGhostFinger`, `NoPageSkipped`, `PicturesStayWhole`,
`EverybodyIsAwake`, `PassesGoOn`, `ViewsOnlyAdvance`, `ShellsCatchUp`,
`RemovedStayForgotten`) were checked with TLC under the constants of the
component's runs before they were proved (`NoPageSkipped` with four pages,
`ResizesCounted` with three serials under the configurations of `ShellUi`).

Only model-checked: the liveness properties (`SidebarAutoHides`,
`LayersSettle`, `ExitedAreReaped`, `ChangesArrive`, `HeldTouchIsReplayed`,
`AnimationsEnd`, `FillEnds`). They rest
on fairness and so on ENABLED, which is outside the prover's reach; what
can be proved of them is what no step undoes: `ExitsAreSignalled`, `ShellsCatchUp`, `WaitersHaveTimer`,
`AnimationsOnlyAdvance`, and `EverybodyIsAwake` with `PassesGoOn`.

## 6. Not modelled, and the plan

Done: all modules of section 2, with the theorems of section 5. What would come
next, in order:

1. `ShellFrame`: stream feed and frame parser against a reference definition
   over bounded inputs; with it the notification ring and `PinchZoom`, the
   announced scale over several pinches.
2. `EdgeGeometry`: edge zones, coordinate transforms under rotation and hit
   tests over small sizes, against a reference definition; OSK layout.
3. The composition of `StateBridge` with `ShellSurfaces` and `ShellInput`.
4. Touch audit samples, layer configuration in detail, XWayland surfaces.

What the models leave out of the parts they cover: failed allocations, a
client's request that is only partly in the socket, setting up and closing the
bridge socket, a lost snapshot's effect on drawing; popups, negotiated sizes,
the scale of a pinch, coordinates and thresholds; the shell's mode with one
surface per process, which the compositor no longer starts. Code that is never
run is not modelled either: `wave_prerender_thread`, the notification ring's
writer `push_notification`, and `--rotation`, which is parsed and not used.

Left out for good: pixels, the forwarding of pointer and keyboard events to
wlroots, hardware status, the setup tool and the icon
cache, which keep no state that another component reads; the GPU library and
the applications, which are submodules and not in the repository.
