------------------------------ MODULE UiState ------------------------------
(***************************************************************************)
(* The shell-facing state of the compositor and the setters that change it *)
(* (src/compositor/src/protocol/protocol_setters.c).  The setters call one *)
(* another - opening the launcher hides the keyboard, which moves the      *)
(* scrim, which ... - so each is written as an operator from one state of  *)
(* the record to the next, and a handler that calls several of them is     *)
(* their composition.  The state is a record because the code keeps it in  *)
(* one struct lumo_compositor that every handler passes to every setter.   *)
(***************************************************************************)
EXTENDS Naturals

CONSTANT SerialMod   \* keyboard_resize_serial is a uint32_t: 2^32 in the code

ASSUME SerialModAssumption == SerialMod \in Nat \ {0}

Panels == {"notification", "time", "quick"}
Scrims == {"hidden", "dimmed", "modal"}
OskNodes == {"off", "on"}
OskSurfaces == {"none", "created", "configured", "mapped"}
ShellHitboxes == {"gesture", "edge-top", "launcher", "osk"}
OskPages == 0 .. 2

(***************************************************************************)
(* message is toast_message, which the drawer reuses as its search query;  *)
(* oskSurface is how far the "osk" layer surface has come and oskNode its  *)
(* scene node; output tells whether an output (hence a work area) exists;  *)
(* layersDirty is layer_config_dirty, stateDirty is                        *)
(* state_broadcast_pending and stateIdle tells that state_broadcast_source *)
(* is not NULL.                                                            *)
(***************************************************************************)
UiType ==
  [launcher : BOOLEAN, keyboard : BOOLEAN, panels : SUBSET Panels,
   sidebar : BOOLEAN, sidebarTimer : BOOLEAN, scrim : Scrims, audit : BOOLEAN,
   autoShown : BOOLEAN, shift : BOOLEAN, page : OskPages,
   message : {"none", "toast", "search"},
   serial : 0 .. SerialMod - 1, pending : BOOLEAN, acked : BOOLEAN,
   oskSurface : OskSurfaces, oskNode : OskNodes,
   hitboxes : SUBSET ShellHitboxes, output : BOOLEAN,
   layersDirty : BOOLEAN, stateDirty : BOOLEAN, stateIdle : BOOLEAN]

UiInit ==
  [launcher |-> FALSE, keyboard |-> FALSE, panels |-> {},
   sidebar |-> FALSE, sidebarTimer |-> FALSE, scrim |-> "hidden",
   audit |-> FALSE, autoShown |-> FALSE, shift |-> FALSE, page |-> 0,
   message |-> "none", serial |-> 0, pending |-> FALSE, acked |-> TRUE,
   oskSurface |-> "none", oskNode |-> "off", hitboxes |-> {},
   output |-> FALSE, layersDirty |-> TRUE, stateDirty |-> FALSE,
   stateIdle |-> FALSE]

\* Mutant: the idle source is armed by the first of several marks only.
MarkStateDirty_Once(u) ==
  IF u.stateDirty THEN u ELSE [u EXCEPT !.stateDirty = TRUE, !.stateIdle = TRUE]

MarkStateDirty(u) == [u EXCEPT !.stateDirty = TRUE, !.stateIdle = TRUE]

\* A frame that cannot be built, or is too long to be formatted, is not sent
\* and stays pending.
Broadcast(u, built) == [u EXCEPT !.stateDirty = @ /\ ~built]

MarkLayersDirty(u) == [u EXCEPT !.layersDirty = TRUE]

\* The hitboxes a refresh registers, in a compositor that has a work area.
WantedHitboxes(u) ==
  {"gesture", "edge-top"}
    \cup (IF u.launcher /\ ~u.audit THEN {"launcher"} ELSE {})
    \cup (IF u.keyboard THEN {"osk"} ELSE {})

RefreshHitboxes(u) ==
  [u EXCEPT !.hitboxes = IF u.output THEN WantedHitboxes(u) ELSE {}]

\* Mutant: a visible change that leaves the hitboxes to the next frame.
Publish_NoRefresh(u) == MarkLayersDirty(MarkStateDirty(u))

\* What every visible change ends with: broadcast, hitboxes, layers.
Publish(u) == MarkLayersDirty(RefreshHitboxes(MarkStateDirty(u)))

ToggleOskNode(u, visible) ==
  IF visible /\ u.oskSurface # "none" THEN "on" ELSE "off"

KeyboardScrim(u, visible) ==
  IF visible THEN "dimmed" ELSE IF u.launcher THEN u.scrim ELSE "hidden"

\* Mutant: the keyboard stays "shown automatically" after it is hidden.
ResetKeys_KeepsAutoShown(u) == [u EXCEPT !.shift = FALSE, !.page = 0]

\* A keyboard that hides forgets how it was shown, its shift and its page.
ResetKeys(u) == [u EXCEPT !.autoShown = FALSE, !.shift = FALSE, !.page = 0]

\* Mutant: hiding the keyboard asks for a resize as well.
ToggleKeyboard_AlwaysPending(u, visible) ==
  [u EXCEPT !.keyboard = visible,
            !.serial = (@ + 1) % SerialMod,
            !.pending = TRUE,
            !.acked = FALSE,
            !.oskNode = ToggleOskNode(u, visible),
            !.scrim = KeyboardScrim(u, visible)]

ToggleKeyboard(u, visible) ==
  [u EXCEPT !.keyboard = visible,
            !.serial = (@ + 1) % SerialMod,
            !.pending = visible,
            !.acked = ~visible,
            !.oskNode = ToggleOskNode(u, visible),
            !.scrim = KeyboardScrim(u, visible)]

SetKeyboard(u, visible) ==
  IF u.keyboard = visible THEN u
  ELSE Publish(ToggleKeyboard(IF visible THEN u ELSE ResetKeys(u), visible))

OpenLauncher(u) ==
  IF u.launcher THEN u
  ELSE Publish([SetKeyboard([u EXCEPT !.launcher = TRUE], FALSE)
                  EXCEPT !.scrim = "modal"])

\* Mutant: the search query stays in the toast buffer.
CloseLauncher_KeepsQuery(u) ==
  IF ~u.launcher THEN u
  ELSE Publish([u EXCEPT
         !.launcher = FALSE,
         !.scrim = IF u.keyboard THEN @ ELSE "hidden"])

CloseLauncher(u) ==
  IF ~u.launcher THEN u
  ELSE Publish([u EXCEPT
         !.launcher = FALSE,
         !.message = "none",
         !.scrim = IF u.keyboard THEN @ ELSE "hidden"])

SetLauncher(u, visible) ==
  IF visible THEN OpenLauncher(u) ELSE CloseLauncher(u)

ShowPanel(u, p) ==
  IF p \in u.panels THEN u
  ELSE MarkLayersDirty(MarkStateDirty([u EXCEPT !.panels = @ \cup {p}]))

HidePanels(u, P) ==
  IF u.panels \cap P = {} THEN u
  ELSE MarkLayersDirty(MarkStateDirty([u EXCEPT !.panels = @ \ P]))

\* Mutant: a sidebar that shows gets no timer.
SetSidebar_NoTimer(u, visible) ==
  IF u.sidebar = visible THEN u ELSE Publish([u EXCEPT !.sidebar = visible])

\* The ten-second timer is armed when the sidebar shows and cancelled, or
\* forgotten by its own callback, when it hides.
SetSidebar(u, visible) ==
  IF u.sidebar = visible THEN u
  ELSE Publish([u EXCEPT !.sidebar = visible, !.sidebarTimer = visible])

SetScrim(u, s) == MarkStateDirty([u EXCEPT !.scrim = s])

AckResize(u, s) ==
  IF u.pending /\ u.serial = s
  THEN [u EXCEPT !.pending = FALSE, !.acked = TRUE]
  ELSE u

AuditOffScrim(u) ==
  IF u.launcher THEN "modal" ELSE IF u.keyboard THEN "dimmed" ELSE "hidden"

SetAudit(u, active) ==
  IF u.audit = active THEN u
  ELSE LET cleared == SetKeyboard(SetLauncher(u, FALSE), FALSE)
           on  == SetScrim([cleared EXCEPT !.audit = TRUE], "dimmed")
           off == SetScrim([u EXCEPT !.audit = FALSE], AuditOffScrim(u))
       IN  MarkLayersDirty(MarkStateDirty(IF active THEN on ELSE off))

(***************************************************************************)
(* Layer configuration.  scene is the enabled flag in which the scene      *)
(* helper of wlroots leaves the OSK node (protocol_setters.c:396-399 takes *)
(* it to re-enable mapped surfaces; a surface whose layout is unchanged is *)
(* skipped): either value can come out of it, and a hidden keyboard        *)
(* overrides it afterwards.  A new surface may be drawn from then on.      *)
(***************************************************************************)
SceneConfigure(u, scene) ==
  IF u.oskSurface = "none" THEN u
  ELSE [u EXCEPT !.oskNode = scene,
                 !.oskSurface = IF @ = "created" THEN "configured" ELSE @]

RedisableOsk(u) == IF u.keyboard THEN u ELSE [u EXCEPT !.oskNode = "off"]

(***************************************************************************)
(* The first buffer of the OSK surface maps it, and the scene helper       *)
(* enables its node.  The commit handler compares layout fields only       *)
(* (protocol.c:450-481), so the layers are not configured again for it.    *)
(***************************************************************************)
MapOsk(u) == [u EXCEPT !.oskSurface = "mapped", !.oskNode = "on"]

\* Mutant: layers are configured and the hitboxes forgotten.
ConfigureLayers_NoRefresh(u, scene) == RedisableOsk(SceneConfigure(u, scene))

ConfigureLayers(u, scene) ==
  RedisableOsk(RefreshHitboxes(SceneConfigure(u, scene)))

\* Mutant: layer_config_dirty is never cleared.
ConfigureAllLayers_StaysDirty(u, scene) ==
  IF u.output THEN ConfigureLayers(u, scene) ELSE MarkLayersDirty(u)

ConfigureAllLayers(u, scene) ==
  IF u.output
  THEN ConfigureLayers([u EXCEPT !.layersDirty = FALSE], scene)
  ELSE MarkLayersDirty(u)
=============================================================================
