--------------------------- MODULE UiStateProofs ---------------------------
(***************************************************************************)
(* What each setter of UiState preserves, for every record and every width *)
(* of the resize serial.  The invariant of the record falls into three     *)
(* parts because the setters restore them at different points: Settled     *)
(* holds throughout, Reserved is restored by the final Publish or by the   *)
(* configuration of the layers, and AutoShown may be broken on purpose by  *)
(* a handler that is about to show the keyboard.                           *)
(***************************************************************************)
EXTENDS UiState, TLAPS

Settled(u) ==
  /\ u \in UiType
  /\ u.pending => u.keyboard
  /\ u.acked = ~u.pending
  /\ u.sidebarTimer = u.sidebar
  /\ u.message = "search" => u.launcher
  /\ \A p, q \in u.panels : p = q

Fresh(u) == u.output /\ ~u.layersDirty => u.hitboxes = WantedHitboxes(u)

NoGhost(u) ==
  /\ "osk" \in u.hitboxes => u.keyboard
  /\ "launcher" \in u.hitboxes => u.launcher

Reserved(u) == Fresh(u) /\ NoGhost(u)

AutoShown(u) == u.autoShown => u.keyboard

UiOK(u) == Settled(u) /\ Reserved(u) /\ AutoShown(u)

\* The record at start-up.
LEMMA InitOK == UiOK(UiInit)
  <1>1. UiInit \in UiType
    BY SerialModAssumption DEF UiInit, UiType, Panels, Scrims, OskNodes,
       OskSurfaces, ShellHitboxes, OskPages
  <1>2. Settled(UiInit) BY <1>1 DEF Settled, UiInit
  <1>3. Reserved(UiInit) BY DEF Reserved, Fresh, NoGhost, UiInit
  <1>4. AutoShown(UiInit) BY DEF AutoShown, UiInit
  <1> QED BY <1>2, <1>3, <1>4 DEF UiOK

\* Marking the state dirty moves no part of the invariant.
LEMMA MarkStateDirtyOK ==
  ASSUME NEW u \in UiType
  PROVE  LET v == MarkStateDirty(u) IN
         /\ v \in UiType
         /\ Settled(u) => Settled(v)
         /\ Reserved(u) => Reserved(v)
         /\ AutoShown(u) => AutoShown(v)
         /\ v.keyboard = u.keyboard /\ v.panels = u.panels
         /\ v.launcher = u.launcher
  <1> DEFINE v == MarkStateDirty(u)
  <1>1. v \in UiType BY DEF MarkStateDirty, UiType
  <1>2. Settled(u) => Settled(v) BY <1>1 DEF Settled, MarkStateDirty, UiType
  <1>3. Reserved(u) => Reserved(v)
    BY DEF Reserved, Fresh, NoGhost, WantedHitboxes, MarkStateDirty, UiType
  <1>4. AutoShown(u) => AutoShown(v) BY DEF AutoShown, MarkStateDirty, UiType
  <1>5. /\ v.keyboard = u.keyboard /\ v.panels = u.panels
        /\ v.launcher = u.launcher
    BY DEF MarkStateDirty, UiType
  <1> QED BY <1>1, <1>2, <1>3, <1>4, <1>5

\* Marking the layers dirty excuses stale hitboxes until the next frame.
LEMMA MarkLayersDirtyOK ==
  ASSUME NEW u \in UiType
  PROVE  LET v == MarkLayersDirty(u) IN
         /\ v \in UiType
         /\ Settled(u) => Settled(v)
         /\ NoGhost(u) => Reserved(v)
         /\ AutoShown(u) => AutoShown(v)
         /\ v.keyboard = u.keyboard /\ v.panels = u.panels
         /\ v.launcher = u.launcher
  <1> DEFINE v == MarkLayersDirty(u)
  <1>1. v \in UiType BY DEF MarkLayersDirty, UiType
  <1>2. Settled(u) => Settled(v) BY <1>1 DEF Settled, MarkLayersDirty, UiType
  <1>3. NoGhost(u) => Reserved(v)
    BY DEF Reserved, Fresh, NoGhost, MarkLayersDirty, UiType
  <1>4. AutoShown(u) => AutoShown(v) BY DEF AutoShown, MarkLayersDirty, UiType
  <1>5. /\ v.keyboard = u.keyboard /\ v.panels = u.panels
        /\ v.launcher = u.launcher
    BY DEF MarkLayersDirty, UiType
  <1> QED BY <1>1, <1>2, <1>3, <1>4, <1>5

\* A refresh makes the hitboxes right whatever they were.
LEMMA RefreshHitboxesOK ==
  ASSUME NEW u \in UiType
  PROVE  LET v == RefreshHitboxes(u) IN
         /\ v \in UiType
         /\ Settled(u) => Settled(v)
         /\ Reserved(v)
         /\ AutoShown(u) => AutoShown(v)
         /\ v.keyboard = u.keyboard /\ v.panels = u.panels
         /\ v.launcher = u.launcher
  <1> DEFINE v == RefreshHitboxes(u)
  <1>1. v \in UiType
    BY DEF RefreshHitboxes, WantedHitboxes, ShellHitboxes, UiType
  <1>2. Settled(u) => Settled(v) BY <1>1 DEF Settled, RefreshHitboxes, UiType
  <1>3. Reserved(v)
    BY DEF Reserved, Fresh, NoGhost, WantedHitboxes, RefreshHitboxes, UiType
  <1>4. AutoShown(u) => AutoShown(v) BY DEF AutoShown, RefreshHitboxes, UiType
  <1>5. /\ v.keyboard = u.keyboard /\ v.panels = u.panels
        /\ v.launcher = u.launcher
    BY DEF RefreshHitboxes, UiType
  <1> QED BY <1>1, <1>2, <1>3, <1>4, <1>5

\* What every visible change ends with restores the hitboxes.
LEMMA PublishOK ==
  ASSUME NEW u \in UiType
  PROVE  LET v == Publish(u) IN
         /\ v \in UiType
         /\ Settled(u) => Settled(v)
         /\ Reserved(v)
         /\ AutoShown(u) => AutoShown(v)
         /\ v.keyboard = u.keyboard /\ v.panels = u.panels
         /\ v.launcher = u.launcher
  <1> DEFINE a == MarkStateDirty(u)
             b == RefreshHitboxes(a)
             c == MarkLayersDirty(b)
  <1>1. /\ a \in UiType /\ (Settled(u) => Settled(a))
        /\ AutoShown(u) => AutoShown(a)
        /\ a.keyboard = u.keyboard /\ a.panels = u.panels
        /\ a.launcher = u.launcher
    BY MarkStateDirtyOK
  <1>2. /\ b \in UiType /\ (Settled(a) => Settled(b)) /\ Reserved(b)
        /\ AutoShown(a) => AutoShown(b)
        /\ b.keyboard = a.keyboard /\ b.panels = a.panels
        /\ b.launcher = a.launcher
    <2> HIDE DEF a
    <2> QED BY <1>1, RefreshHitboxesOK
  <1>3. /\ c \in UiType /\ (Settled(b) => Settled(c))
        /\ NoGhost(b) => Reserved(c)
        /\ AutoShown(b) => AutoShown(c)
        /\ c.keyboard = b.keyboard /\ c.panels = b.panels
        /\ c.launcher = b.launcher
    <2> HIDE DEF b
    <2> QED BY <1>2, MarkLayersDirtyOK
  <1>4. Publish(u) = c BY DEF Publish
  <1> HIDE DEF a, b, c
  <1> QED BY <1>1, <1>2, <1>3, <1>4 DEF Reserved

\* A hidden keyboard is not the one that was shown automatically.
LEMMA ResetKeysOK ==
  ASSUME NEW u \in UiType
  PROVE  LET v == ResetKeys(u) IN
         /\ v \in UiType /\ ~v.autoShown
         /\ Settled(u) => Settled(v)
         /\ v.keyboard = u.keyboard /\ v.panels = u.panels
         /\ v.launcher = u.launcher
  <1> DEFINE v == ResetKeys(u)
  <1>1. 0 \in OskPages BY DEF OskPages
  <1>2. v \in UiType BY <1>1 DEF ResetKeys, UiType
  <1>3. Settled(u) => Settled(v) BY <1>2 DEF Settled, ResetKeys, UiType
  <1>4. /\ v.keyboard = u.keyboard /\ v.panels = u.panels
        /\ v.launcher = u.launcher /\ ~v.autoShown
    BY DEF ResetKeys, UiType
  <1> QED BY <1>2, <1>3, <1>4

\* A keyboard that comes or goes takes its resize along.
LEMMA ToggleKeyboardOK ==
  ASSUME NEW u \in UiType, NEW visible \in BOOLEAN
  PROVE  LET v == ToggleKeyboard(u, visible) IN
         /\ v \in UiType
         /\ Settled(u) => Settled(v)
         /\ v.keyboard = visible /\ v.autoShown = u.autoShown
         /\ v.panels = u.panels /\ v.launcher = u.launcher
  <1> DEFINE v == ToggleKeyboard(u, visible)
  <1>1. (u.serial + 1) % SerialMod \in 0 .. SerialMod - 1
    BY SerialModAssumption DEF UiType
  <1>2. ToggleOskNode(u, visible) \in OskNodes
    BY DEF ToggleOskNode, OskNodes
  <1>3. KeyboardScrim(u, visible) \in Scrims
    BY DEF KeyboardScrim, Scrims, UiType
  <1>4. v \in UiType BY <1>1, <1>2, <1>3 DEF ToggleKeyboard, UiType
  <1>5. /\ v.keyboard = visible
        /\ v.pending = visible /\ v.acked = ~visible
        /\ v.sidebar = u.sidebar /\ v.sidebarTimer = u.sidebarTimer
        /\ v.autoShown = u.autoShown /\ v.launcher = u.launcher
        /\ v.message = u.message /\ v.panels = u.panels
    BY DEF ToggleKeyboard, UiType
  <1>6. Settled(u) => Settled(v)
    <2> HIDE DEF v
    <2> QED BY <1>4, <1>5 DEF Settled
  <1> QED BY <1>4, <1>5, <1>6

\* Whoever shows the keyboard may have set keyboard_auto_shown before.
LEMMA SetKeyboardOK ==
  ASSUME NEW u \in UiType, NEW visible \in BOOLEAN
  PROVE  LET v == SetKeyboard(u, visible) IN
         /\ v \in UiType
         /\ Settled(u) => Settled(v)
         /\ Reserved(u) => Reserved(v)
         /\ (u.autoShown => u.keyboard \/ visible) => AutoShown(v)
         /\ v.keyboard = visible /\ v.panels = u.panels
         /\ v.launcher = u.launcher
  <1> DEFINE base == IF visible THEN u ELSE ResetKeys(u)
             a == ToggleKeyboard(base, visible)
  <1>1. /\ base \in UiType /\ (Settled(u) => Settled(base))
        /\ base.panels = u.panels /\ base.launcher = u.launcher
        /\ ~visible => ~base.autoShown
    BY ResetKeysOK
  <1>2. /\ a \in UiType /\ (Settled(base) => Settled(a))
        /\ a.keyboard = visible /\ a.autoShown = base.autoShown
        /\ a.panels = base.panels /\ a.launcher = base.launcher
    <2> HIDE DEF base
    <2> QED BY <1>1, ToggleKeyboardOK
  <1>3. CASE u.keyboard = visible
    BY <1>3 DEF SetKeyboard, AutoShown
  <1>4. CASE u.keyboard # visible
    <2>1. SetKeyboard(u, visible) = Publish(a) BY <1>4 DEF SetKeyboard
    <2> HIDE DEF a, base
    <2>2. AutoShown(a) BY <1>1, <1>2 DEF AutoShown
    <2> QED BY <1>1, <1>2, <2>1, <2>2, PublishOK
  <1> QED BY <1>3, <1>4

\* Any scrim fits any state.
LEMMA ScrimOK ==
  ASSUME NEW u \in UiType, NEW s \in Scrims
  PROVE  LET v == [u EXCEPT !.scrim = s] IN
         /\ v \in UiType
         /\ Settled(u) => Settled(v)
         /\ Reserved(u) => Reserved(v)
         /\ AutoShown(u) => AutoShown(v)
         /\ v.keyboard = u.keyboard /\ v.panels = u.panels
         /\ v.launcher = u.launcher /\ v.autoShown = u.autoShown
  <1> DEFINE v == [u EXCEPT !.scrim = s]
  <1>1. v \in UiType BY DEF UiType
  <1>2. Settled(u) => Settled(v) BY <1>1 DEF Settled, UiType
  <1>3. Reserved(u) => Reserved(v)
    BY DEF Reserved, Fresh, NoGhost, WantedHitboxes, UiType
  <1>4. /\ v.keyboard = u.keyboard /\ v.panels = u.panels
        /\ v.launcher = u.launcher /\ v.autoShown = u.autoShown
    BY DEF UiType
  <1> QED BY <1>1, <1>2, <1>3, <1>4 DEF AutoShown

LEMMA SetScrimOK ==
  ASSUME NEW u, UiOK(u), NEW s \in Scrims
  PROVE  /\ UiOK(SetScrim(u, s))
         /\ SetScrim(u, s).panels = u.panels
         /\ SetScrim(u, s).launcher = u.launcher
         /\ SetScrim(u, s).keyboard = u.keyboard
  <1> DEFINE a == [u EXCEPT !.scrim = s]
  <1>1. u \in UiType BY DEF UiOK, Settled
  <1>2. /\ UiOK(a) /\ a \in UiType /\ a.panels = u.panels
        /\ a.launcher = u.launcher /\ a.keyboard = u.keyboard
    BY <1>1, ScrimOK DEF UiOK
  <1>3. SetScrim(u, s) = MarkStateDirty(a) BY DEF SetScrim
  <1> HIDE DEF a
  <1> QED BY <1>2, <1>3, MarkStateDirtyOK DEF UiOK

\* Opening the drawer hides the keyboard.
LEMMA OpenLauncherOK ==
  ASSUME NEW u, UiOK(u)
  PROVE  UiOK(OpenLauncher(u)) /\ OpenLauncher(u).panels = u.panels
  <1> DEFINE a == [u EXCEPT !.launcher = TRUE]
             b == SetKeyboard(a, FALSE)
             c == [b EXCEPT !.scrim = "modal"]
  <1>1. u \in UiType BY DEF UiOK, Settled
  <1>2. a \in UiType BY <1>1 DEF UiType
  <1>3. Settled(a) BY <1>1, <1>2 DEF UiOK, Settled, UiType
  <1>4. a.panels = u.panels /\ (a.autoShown => a.keyboard)
    BY <1>1 DEF UiOK, AutoShown, UiType
  <1>5. b \in UiType /\ Settled(b) /\ AutoShown(b) /\ b.panels = u.panels
    <2> HIDE DEF a
    <2> QED BY <1>2, <1>3, <1>4, SetKeyboardOK
  <1>6. c \in UiType /\ Settled(c) /\ AutoShown(c) /\ c.panels = u.panels
    <2> HIDE DEF b
    <2>1. "modal" \in Scrims BY DEF Scrims
    <2> QED BY <1>5, <2>1, ScrimOK
  <1>7. CASE u.launcher BY <1>7 DEF OpenLauncher
  <1>8. CASE ~u.launcher
    <2>1. OpenLauncher(u) = Publish(c) BY <1>8 DEF OpenLauncher
    <2> HIDE DEF c
    <2> QED BY <1>6, <2>1, PublishOK DEF UiOK
  <1> QED BY <1>7, <1>8

\* Closing it forgets the search query.
LEMMA CloseLauncherOK ==
  ASSUME NEW u, UiOK(u)
  PROVE  UiOK(CloseLauncher(u)) /\ CloseLauncher(u).panels = u.panels
  <1> DEFINE s == IF u.keyboard THEN u.scrim ELSE "hidden"
             a == [u EXCEPT !.launcher = FALSE, !.message = "none", !.scrim = s]
  <1>1. u \in UiType BY DEF UiOK, Settled
  <1>2. s \in Scrims BY <1>1 DEF Scrims, UiType
  <1>3. a \in UiType /\ a.panels = u.panels
    <2> HIDE DEF s
    <2> QED BY <1>1, <1>2 DEF UiType
  <1>4. Settled(a) /\ AutoShown(a)
    <2> HIDE DEF s
    <2> QED BY <1>1, <1>3 DEF UiOK, Settled, AutoShown, UiType
  <1>5. CASE ~u.launcher BY <1>5 DEF CloseLauncher
  <1>6. CASE u.launcher
    <2>1. CloseLauncher(u) = Publish(a) BY <1>1, <1>6 DEF CloseLauncher, UiType
    <2> HIDE DEF a
    <2> QED BY <1>3, <1>4, <2>1, PublishOK DEF UiOK
  <1> QED BY <1>5, <1>6

LEMMA SetLauncherOK ==
  ASSUME NEW u, UiOK(u), NEW visible \in BOOLEAN
  PROVE  /\ UiOK(SetLauncher(u, visible))
         /\ SetLauncher(u, visible).panels = u.panels
  BY OpenLauncherOK, CloseLauncherOK DEF SetLauncher

\* A change of the panels leaves hitboxes and keyboard alone.
LEMMA PanelsOK ==
  ASSUME NEW u, UiOK(u), NEW P \in SUBSET Panels, \A p, q \in P : p = q
  PROVE  LET v == MarkLayersDirty(MarkStateDirty([u EXCEPT !.panels = P])) IN
         UiOK(v) /\ v.panels = P
  <1> DEFINE a == [u EXCEPT !.panels = P]
             b == MarkStateDirty(a)
  <1>1. u \in UiType BY DEF UiOK, Settled
  <1>2. a \in UiType /\ a.panels = P BY <1>1 DEF UiType
  <1>3. Settled(a) BY <1>1, <1>2 DEF UiOK, Settled, UiType
  <1>4. Reserved(a) /\ AutoShown(a)
    BY <1>1 DEF UiOK, Reserved, Fresh, NoGhost, WantedHitboxes, AutoShown, UiType
  <1>5. /\ b \in UiType /\ Settled(b) /\ Reserved(b) /\ AutoShown(b)
        /\ b.panels = P
    <2> HIDE DEF a
    <2> QED BY <1>2, <1>3, <1>4, MarkStateDirtyOK
  <1>6. UiOK(MarkLayersDirty(b)) /\ MarkLayersDirty(b).panels = P
    <2> HIDE DEF b
    <2> QED BY <1>5, MarkLayersDirtyOK DEF UiOK, Reserved
  <1> QED BY <1>6

\* The caller has closed the other panels.
LEMMA ShowPanelOK ==
  ASSUME NEW u, UiOK(u), NEW p \in Panels, u.panels \subseteq {p}
  PROVE  UiOK(ShowPanel(u, p))
  <1>1. u.panels \cup {p} \in SUBSET Panels OBVIOUS
  <1>2. \A q, r \in u.panels \cup {p} : q = r OBVIOUS
  <1>3. u \in UiType BY DEF UiOK, Settled
  <1>4. CASE p \in u.panels BY <1>4 DEF ShowPanel
  <1>5. CASE p \notin u.panels
    <2>1. ShowPanel(u, p) =
            MarkLayersDirty(MarkStateDirty([u EXCEPT !.panels = u.panels \cup {p}]))
      BY <1>3, <1>5 DEF ShowPanel, UiType
    <2> QED BY <1>1, <1>2, <2>1, PanelsOK
  <1> QED BY <1>4, <1>5

LEMMA HidePanelsOK ==
  ASSUME NEW u, UiOK(u), NEW P
  PROVE  /\ UiOK(HidePanels(u, P))
         /\ HidePanels(u, P).panels = u.panels \ P
  <1>1. u \in UiType BY DEF UiOK, Settled
  <1>2. u.panels \ P \in SUBSET Panels /\ \A q, r \in u.panels \ P : q = r
    BY <1>1 DEF UiOK, Settled, UiType
  <1>3. CASE u.panels \cap P = {} BY <1>3 DEF HidePanels
  <1>4. CASE u.panels \cap P # {}
    <2>1. HidePanels(u, P) =
            MarkLayersDirty(MarkStateDirty([u EXCEPT !.panels = u.panels \ P]))
      BY <1>1, <1>4 DEF HidePanels, UiType
    <2> QED BY <1>2, <2>1, PanelsOK
  <1> QED BY <1>3, <1>4

\* The sidebar and its timer come and go together.
LEMMA SetSidebarOK ==
  ASSUME NEW u, UiOK(u), NEW visible \in BOOLEAN
  PROVE  /\ UiOK(SetSidebar(u, visible))
         /\ SetSidebar(u, visible).panels = u.panels
  <1> DEFINE a == [u EXCEPT !.sidebar = visible, !.sidebarTimer = visible]
  <1>1. u \in UiType BY DEF UiOK, Settled
  <1>2. a \in UiType /\ a.panels = u.panels BY <1>1 DEF UiType
  <1>3. Settled(a) /\ AutoShown(a)
    BY <1>1, <1>2 DEF UiOK, Settled, AutoShown, UiType
  <1>4. CASE u.sidebar = visible BY <1>4 DEF SetSidebar
  <1>5. CASE u.sidebar # visible
    <2>1. SetSidebar(u, visible) = Publish(a) BY <1>5 DEF SetSidebar
    <2> HIDE DEF a
    <2> QED BY <1>2, <1>3, <2>1, PublishOK DEF UiOK
  <1> QED BY <1>4, <1>5

\* Only the acknowledgement that carries the current serial counts.
LEMMA AckResizeOK ==
  ASSUME NEW u, UiOK(u), NEW s
  PROVE  UiOK(AckResize(u, s))
  <1> DEFINE a == [u EXCEPT !.pending = FALSE, !.acked = TRUE]
  <1>1. u \in UiType BY DEF UiOK, Settled
  <1>2. a \in UiType BY <1>1 DEF UiType
  <1>3. Settled(a) BY <1>1, <1>2 DEF UiOK, Settled, UiType
  <1>4. Reserved(a) /\ AutoShown(a)
    BY <1>1 DEF UiOK, Reserved, Fresh, NoGhost, WantedHitboxes, AutoShown, UiType
  <1> QED BY <1>3, <1>4 DEF AckResize, UiOK

\* The touch audit moves the wanted hitboxes and leaves them to the frame.
LEMMA AuditFlagOK ==
  ASSUME NEW u, UiOK(u), NEW active \in BOOLEAN, NEW s \in Scrims
  PROVE  UiOK(MarkLayersDirty(MarkStateDirty(
                SetScrim([u EXCEPT !.audit = active], s))))
  <1> DEFINE a == [u EXCEPT !.audit = active]
             b == [a EXCEPT !.scrim = s]
             c == MarkStateDirty(b)
             d == MarkStateDirty(c)
  <1>1. u \in UiType BY DEF UiOK, Settled
  <1>2. a \in UiType BY <1>1 DEF UiType
  <1>3. Settled(a) /\ NoGhost(a) /\ AutoShown(a)
    BY <1>1, <1>2 DEF UiOK, Settled, Reserved, NoGhost, AutoShown, UiType
  <1>4. b \in UiType /\ Settled(b) /\ NoGhost(b) /\ AutoShown(b)
    <2> HIDE DEF a
    <2>1. NoGhost(b) BY <1>2, <1>3 DEF NoGhost, UiType
    <2> QED BY <1>2, <1>3, <2>1, ScrimOK
  <1>5. c \in UiType /\ Settled(c) /\ NoGhost(c) /\ AutoShown(c)
    <2> HIDE DEF b
    <2>1. NoGhost(c) BY <1>4 DEF NoGhost, MarkStateDirty, UiType
    <2> QED BY <1>4, <2>1, MarkStateDirtyOK
  <1>6. d \in UiType /\ Settled(d) /\ NoGhost(d) /\ AutoShown(d)
    <2> HIDE DEF c
    <2>1. NoGhost(d) BY <1>5 DEF NoGhost, MarkStateDirty, UiType
    <2> QED BY <1>5, <2>1, MarkStateDirtyOK
  <1>7. UiOK(MarkLayersDirty(d))
    <2> HIDE DEF d
    <2> QED BY <1>6, MarkLayersDirtyOK DEF UiOK
  <1> QED BY <1>7 DEF SetScrim

LEMMA SetKeyboardUiOK ==
  ASSUME NEW u, UiOK(u), NEW visible \in BOOLEAN
  PROVE  /\ UiOK(SetKeyboard(u, visible))
         /\ SetKeyboard(u, visible).panels = u.panels
         /\ SetKeyboard(u, visible).keyboard = visible
  <1>1. u \in UiType /\ (u.autoShown => u.keyboard)
    BY DEF UiOK, Settled, AutoShown
  <1> QED BY <1>1, SetKeyboardOK DEF UiOK

LEMMA SetAuditOK ==
  ASSUME NEW u, UiOK(u), NEW active \in BOOLEAN
  PROVE  UiOK(SetAudit(u, active))
  <1> DEFINE cleared == SetKeyboard(SetLauncher(u, FALSE), FALSE)
  <1>1. u \in UiType BY DEF UiOK, Settled
  <1>2. UiOK(cleared) BY SetLauncherOK, SetKeyboardUiOK
  <1>3. "dimmed" \in Scrims /\ AuditOffScrim(u) \in Scrims
    BY DEF Scrims, AuditOffScrim
  <1>4. CASE u.audit = active BY <1>4 DEF SetAudit
  <1>5. CASE u.audit # active /\ active
    <2>1. SetAudit(u, active) = MarkLayersDirty(MarkStateDirty(
            SetScrim([cleared EXCEPT !.audit = TRUE], "dimmed")))
      BY <1>5 DEF SetAudit
    <2> HIDE DEF cleared
    <2> QED BY <1>2, <1>3, <2>1, AuditFlagOK
  <1>6. CASE u.audit # active /\ ~active
    <2>1. SetAudit(u, active) = MarkLayersDirty(MarkStateDirty(
            SetScrim([u EXCEPT !.audit = FALSE], AuditOffScrim(u))))
      BY <1>6 DEF SetAudit
    <2> QED BY <1>3, <2>1, AuditFlagOK
  <1> QED BY <1>4, <1>5, <1>6

(***************************************************************************)
(* A configuration of the layers makes the hitboxes right; nothing is      *)
(* asked of those of an output that is just being added.                   *)
(***************************************************************************)
LEMMA ConfigureAllLayersOK ==
  ASSUME NEW u, Settled(u), AutoShown(u), u.output \/ Reserved(u),
         NEW scene \in {"off", "on"}
  PROVE  UiOK(ConfigureAllLayers(u, scene))
  <1> DEFINE a == [u EXCEPT !.layersDirty = FALSE]
             b == SceneConfigure(a, scene)
             c == RefreshHitboxes(b)
             d == RedisableOsk(c)
  <1>1. u \in UiType BY DEF Settled
  <1>2. CASE ~u.output
    BY <1>1, <1>2, MarkLayersDirtyOK DEF ConfigureAllLayers, UiOK, Reserved
  <1>3. CASE u.output
    <2>1. a \in UiType BY <1>1 DEF UiType
    <2>2. Settled(a) /\ AutoShown(a)
      BY <1>1, <2>1 DEF Settled, AutoShown, UiType
    <2>3. b \in UiType
      <3> HIDE DEF a
      <3> DEFINE s == IF a.oskSurface = "created" THEN "configured" ELSE a.oskSurface
      <3>1. scene \in OskNodes BY DEF OskNodes
      <3>2. s \in OskSurfaces BY <2>1 DEF OskSurfaces, UiType
      <3>3. b \in {a, [a EXCEPT !.oskNode = scene, !.oskSurface = s]}
        BY DEF SceneConfigure
      <3> HIDE DEF b, s
      <3> QED BY <2>1, <3>1, <3>2, <3>3 DEF UiType
    <2>4. c \in UiType /\ Reserved(c)
      <3> HIDE DEF b
      <3> QED BY <2>3, RefreshHitboxesOK
    <2>5. /\ c.keyboard = a.keyboard /\ c.pending = a.pending
          /\ c.acked = a.acked /\ c.sidebar = a.sidebar
          /\ c.sidebarTimer = a.sidebarTimer /\ c.message = a.message
          /\ c.launcher = a.launcher /\ c.panels = a.panels
          /\ c.autoShown = a.autoShown
      <3> HIDE DEF a
      <3> QED BY <2>1 DEF SceneConfigure, RefreshHitboxes, UiType
    <2>6. d \in UiType
      <3> HIDE DEF c
      <3>1. "off" \in OskNodes BY DEF OskNodes
      <3> QED BY <2>4, <3>1 DEF RedisableOsk, UiType
    <2>7. /\ d.keyboard = c.keyboard /\ d.pending = c.pending
          /\ d.acked = c.acked /\ d.sidebar = c.sidebar
          /\ d.sidebarTimer = c.sidebarTimer /\ d.message = c.message
          /\ d.launcher = c.launcher /\ d.panels = c.panels
          /\ d.autoShown = c.autoShown
      <3> HIDE DEF c
      <3> QED BY <2>4 DEF RedisableOsk, UiType
    <2>8. Reserved(d)
      <3> HIDE DEF c
      <3> QED BY <2>4 DEF RedisableOsk, Reserved, Fresh, NoGhost,
                 WantedHitboxes, UiType
    <2>9. Settled(d) /\ AutoShown(d)
      <3> HIDE DEF a, c, d
      <3> QED BY <2>2, <2>5, <2>6, <2>7 DEF Settled, AutoShown
    <2>10. ConfigureAllLayers(u, scene) = d
      BY <1>3 DEF ConfigureAllLayers, ConfigureLayers
    <2> HIDE DEF d
    <2> QED BY <2>8, <2>9, <2>10 DEF UiOK
  <1> QED BY <1>2, <1>3

-----------------------------------------------------------------------------
(* What the setters announce. A setter either returns early and leaves     *)
(* the record alone, or it leaves a broadcast pending and armed; no later  *)
(* setter takes that back, so a handler that calls several of them         *)
(* announces what any of them did. Of the record only the flags have to    *)
(* exist.                                                                  *)
HasFlag(u) == {"stateDirty", "stateIdle"} \subseteq DOMAIN u

\* A broadcast is pending and its idle source armed.
Marked(u) == u.stateDirty /\ u.stateIdle

Said(u, v) == HasFlag(v) /\ (v = u \/ Marked(v))

\* One setter after another.
LEMMA SaidTwice ==
  ASSUME NEW u, NEW v, NEW w, Said(u, v), Said(v, w)
  PROVE  Said(u, w)
  BY DEF Said

\* The marks that end every change.
LEMMA MarksSaid ==
  ASSUME NEW u, HasFlag(u)
  PROVE  /\ HasFlag(MarkStateDirty(u)) /\ Marked(MarkStateDirty(u))
         /\ HasFlag(Publish(u)) /\ Marked(Publish(u))
         /\ HasFlag(MarkLayersDirty(u))
         /\ Marked(u) => Marked(MarkLayersDirty(u))
  BY DEF HasFlag, Marked, MarkStateDirty, Publish, MarkLayersDirty, RefreshHitboxes

\* Each setter in turn.
LEMMA KeyboardSaid ==
  ASSUME NEW u, HasFlag(u), NEW visible
  PROVE  Said(u, SetKeyboard(u, visible))
  <1>1. CASE u.keyboard = visible BY <1>1 DEF SetKeyboard, Said
  <1>2. CASE u.keyboard # visible
    <2> DEFINE a == ToggleKeyboard(IF visible THEN u ELSE ResetKeys(u), visible)
    <2>1. HasFlag(a) BY DEF HasFlag, ToggleKeyboard, ResetKeys
    <2>2. SetKeyboard(u, visible) = Publish(a) BY <1>2 DEF SetKeyboard
    <2> HIDE DEF a
    <2> QED BY <2>1, <2>2, MarksSaid DEF Said
  <1> QED BY <1>1, <1>2

LEMMA LauncherSaid ==
  ASSUME NEW u, HasFlag(u), NEW visible
  PROVE  Said(u, SetLauncher(u, visible))
  <1> DEFINE a == [u EXCEPT !.launcher = TRUE]
             b == [SetKeyboard(a, FALSE) EXCEPT !.scrim = "modal"]
             c == [u EXCEPT !.launcher = FALSE, !.message = "none",
                            !.scrim = IF u.keyboard THEN @ ELSE "hidden"]
  <1>1. HasFlag(b)
    <2>1. HasFlag(a) BY DEF HasFlag
    <2> HIDE DEF a
    <2>2. HasFlag(SetKeyboard(a, FALSE)) BY <2>1, KeyboardSaid DEF Said
    <2> QED BY <2>2 DEF HasFlag
  <1>2. HasFlag(c) BY DEF HasFlag
  <1>3. SetLauncher(u, visible) \in {u, Publish(b), Publish(c)}
    BY DEF SetLauncher, OpenLauncher, CloseLauncher
  <1> HIDE DEF b, c
  <1> QED BY <1>1, <1>2, <1>3, MarksSaid DEF Said

LEMMA PanelsSaid ==
  ASSUME NEW u, HasFlag(u), NEW P, NEW p
  PROVE  Said(u, HidePanels(u, P)) /\ Said(u, ShowPanel(u, p))
  <1> DEFINE a == [u EXCEPT !.panels = @ \ P]
             b == [u EXCEPT !.panels = @ \cup {p}]
  <1>1. HasFlag(a) /\ HasFlag(b) BY DEF HasFlag
  <1>2. /\ HidePanels(u, P) \in {u, MarkLayersDirty(MarkStateDirty(a))}
        /\ ShowPanel(u, p) \in {u, MarkLayersDirty(MarkStateDirty(b))}
    BY DEF HidePanels, ShowPanel
  <1> HIDE DEF a, b
  <1> QED BY <1>1, <1>2, MarksSaid DEF Said

LEMMA SidebarSaid ==
  ASSUME NEW u, HasFlag(u), NEW visible
  PROVE  Said(u, SetSidebar(u, visible))
  <1> DEFINE a == [u EXCEPT !.sidebar = visible, !.sidebarTimer = visible]
  <1>1. HasFlag(a) BY DEF HasFlag
  <1>2. SetSidebar(u, visible) \in {u, Publish(a)} BY DEF SetSidebar
  <1> HIDE DEF a
  <1> QED BY <1>1, <1>2, MarksSaid DEF Said

LEMMA ScrimSaid ==
  ASSUME NEW u, HasFlag(u), NEW s
  PROVE  /\ HasFlag(SetScrim(u, s)) /\ Marked(SetScrim(u, s))
         /\ Said(u, SetScrim(u, s))
         /\ Said(u, MarkLayersDirty(SetScrim(u, s)))
  <1> DEFINE a == [u EXCEPT !.scrim = s]
  <1>1. HasFlag(a) BY DEF HasFlag
  <1>2. SetScrim(u, s) = MarkStateDirty(a) BY DEF SetScrim
  <1> HIDE DEF a
  <1> QED BY <1>1, <1>2, MarksSaid DEF Said

\* An audit that starts hides drawer and keyboard first.
LEMMA AuditSaid ==
  ASSUME NEW u, HasFlag(u), NEW active
  PROVE  Said(u, SetAudit(u, active))
  <1> DEFINE a == SetLauncher(u, FALSE)
             b == SetKeyboard(a, FALSE)
             c == [b EXCEPT !.audit = TRUE]
             d == [u EXCEPT !.audit = FALSE]
             on == SetScrim(c, "dimmed")
             off == SetScrim(d, AuditOffScrim(u))
  <1>1. HasFlag(a) BY LauncherSaid DEF Said
  <1>2. HasFlag(b)
    <2> HIDE DEF a
    <2> QED BY <1>1, KeyboardSaid DEF Said
  <1>3. HasFlag(c) /\ HasFlag(d)
    <2> HIDE DEF b
    <2> QED BY <1>2 DEF HasFlag
  <1>4. HasFlag(on) /\ HasFlag(off)
    <2> HIDE DEF c, d
    <2> QED BY <1>3, ScrimSaid
  <1>5. SetAudit(u, active) \in {u, MarkLayersDirty(MarkStateDirty(on)),
                                    MarkLayersDirty(MarkStateDirty(off))}
    BY DEF SetAudit
  <1> HIDE DEF on, off
  <1> QED BY <1>4, <1>5, MarksSaid DEF Said

(***************************************************************************)
(* Every flip of the keyboard is one resize.  Counted composes only while  *)
(* the keyboard goes one way, so the setters that may hide it and never    *)
(* show it are Lowered, which does compose, and those that leave it alone  *)
(* are Unmoved.                                                            *)
(***************************************************************************)
Plain(u) == {"keyboard", "serial"} \subseteq DOMAIN u /\ u.keyboard \in BOOLEAN

Counted(u, v) ==
  v.serial = IF v.keyboard = u.keyboard THEN u.serial
             ELSE (u.serial + 1) % SerialMod

Lowered(u, v) == Plain(v) /\ Counted(u, v) /\ (v.keyboard => u.keyboard)

Unmoved(u, v) == Plain(v) /\ v.keyboard = u.keyboard /\ v.serial = u.serial

\* One setter after another.
LEMMA LoweredTwice ==
  ASSUME NEW u, NEW v, NEW w, Plain(u), Lowered(u, v), Lowered(v, w)
  PROVE  Lowered(u, w)
  BY Zenon DEF Lowered, Counted, Plain

LEMMA UnmovedIsLowered ==
  ASSUME NEW u, NEW v, Plain(u), Unmoved(u, v)
  PROVE  Lowered(u, v)
  BY DEF Lowered, Counted, Unmoved

LEMMA UnmovedFirst ==
  ASSUME NEW u, NEW v, NEW w, Unmoved(u, v)
  PROVE  Counted(v, w) => Counted(u, w)
  BY DEF Counted, Unmoved

\* The marks that end every change.
LEMMA MarksUnmoved ==
  ASSUME NEW u, Plain(u)
  PROVE  /\ Unmoved(u, MarkStateDirty(u)) /\ Unmoved(u, MarkLayersDirty(u))
         /\ Unmoved(u, Publish(u))
  BY DEF Unmoved, Plain, MarkStateDirty, MarkLayersDirty, Publish,
         RefreshHitboxes

\* A keyboard that flips counts one resize.
LEMMA KeyboardCounted ==
  ASSUME NEW u, Plain(u), NEW visible \in BOOLEAN
  PROVE  /\ Plain(SetKeyboard(u, visible))
         /\ Counted(u, SetKeyboard(u, visible))
         /\ SetKeyboard(u, visible).keyboard = visible
  <1>1. CASE u.keyboard = visible BY <1>1 DEF SetKeyboard, Counted
  <1>2. CASE u.keyboard # visible
    <2> DEFINE r == IF visible THEN u ELSE ResetKeys(u)
               a == ToggleKeyboard(r, visible)
    <2>1. Plain(r) /\ r.keyboard = u.keyboard /\ r.serial = u.serial
      BY DEF Plain, ResetKeys
    <2>2. /\ Plain(a) /\ a.keyboard = visible
          /\ a.serial = (u.serial + 1) % SerialMod
      <3> HIDE DEF r
      <3> QED BY <2>1 DEF Plain, ToggleKeyboard
    <2>3. SetKeyboard(u, visible) = Publish(a) BY <1>2 DEF SetKeyboard
    <2> HIDE DEF a
    <2> QED BY <1>2, <2>2, <2>3, MarksUnmoved DEF Unmoved, Counted
  <1> QED BY <1>1, <1>2

LEMMA HideLowered ==
  ASSUME NEW u, Plain(u)
  PROVE  Lowered(u, SetKeyboard(u, FALSE))
  BY KeyboardCounted DEF Lowered

\* The drawer hides the keyboard when it opens and nothing when it closes.
LEMMA LauncherLowered ==
  ASSUME NEW u, Plain(u), NEW visible
  PROVE  Lowered(u, SetLauncher(u, visible))
  <1> DEFINE a == [u EXCEPT !.launcher = TRUE]
             k == SetKeyboard(a, FALSE)
             b == [k EXCEPT !.scrim = "modal"]
             c == [u EXCEPT !.launcher = FALSE, !.message = "none",
                            !.scrim = IF u.keyboard THEN @ ELSE "hidden"]
  <1>1. Lowered(u, b)
    <2>1. Unmoved(u, a) BY DEF Unmoved, Plain
    <2> HIDE DEF a
    <2>2. Lowered(a, k) BY <2>1, HideLowered DEF Unmoved
    <2>3. Lowered(u, k) BY <2>1, <2>2, UnmovedIsLowered, LoweredTwice
    <2> HIDE DEF k
    <2>4. Unmoved(k, b) BY <2>3 DEF Unmoved, Plain, Lowered
    <2> QED BY <2>3, <2>4 DEF Lowered, Unmoved, Counted
  <1>2. Lowered(u, c) BY DEF Lowered, Plain, Counted
  <1>3. SetLauncher(u, visible) \in {u, Publish(b), Publish(c)}
    BY DEF SetLauncher, OpenLauncher, CloseLauncher
  <1>4. Lowered(u, u) BY DEF Lowered, Counted
  <1> HIDE DEF b, c
  <1>5. Lowered(u, Publish(b)) /\ Lowered(u, Publish(c))
    BY <1>1, <1>2, MarksUnmoved DEF Lowered, Unmoved, Counted
  <1> QED BY <1>3, <1>4, <1>5

\* Panels, sidebar and scrim leave the keyboard alone.
LEMMA PanelsUnmoved ==
  ASSUME NEW u, Plain(u), NEW P, NEW p, NEW visible, NEW s
  PROVE  /\ Unmoved(u, HidePanels(u, P)) /\ Unmoved(u, ShowPanel(u, p))
         /\ Unmoved(u, SetSidebar(u, visible)) /\ Unmoved(u, SetScrim(u, s))
  <1> DEFINE a == [u EXCEPT !.panels = @ \ P]
             b == [u EXCEPT !.panels = @ \cup {p}]
             c == [u EXCEPT !.sidebar = visible, !.sidebarTimer = visible]
             d == [u EXCEPT !.scrim = s]
  <1>1. /\ Unmoved(u, u) /\ Unmoved(u, a) /\ Unmoved(u, b) /\ Unmoved(u, c)
        /\ Unmoved(u, d)
    BY DEF Unmoved, Plain
  <1>2. /\ HidePanels(u, P) \in {u, MarkLayersDirty(MarkStateDirty(a))}
        /\ ShowPanel(u, p) \in {u, MarkLayersDirty(MarkStateDirty(b))}
        /\ SetSidebar(u, visible) \in {u, Publish(c)}
        /\ SetScrim(u, s) = MarkStateDirty(d)
    BY DEF HidePanels, ShowPanel, SetSidebar, SetScrim
  <1> HIDE DEF a, b, c, d
  <1> QED BY <1>1, <1>2, MarksUnmoved DEF Unmoved

\* An audit that starts hides drawer and keyboard: one flip at most.
LEMMA AuditLowered ==
  ASSUME NEW u, Plain(u), NEW active
  PROVE  Lowered(u, SetAudit(u, active))
  <1> DEFINE a == SetLauncher(u, FALSE)
             b == SetKeyboard(a, FALSE)
             c == [b EXCEPT !.audit = TRUE]
             d == [u EXCEPT !.audit = FALSE]
             on == SetScrim(c, "dimmed")
             off == SetScrim(d, AuditOffScrim(u))
  <1>1. Lowered(u, a) BY LauncherLowered
  <1>2. Lowered(u, b)
    <2> HIDE DEF a
    <2>1. Lowered(a, b) BY <1>1, HideLowered DEF Lowered
    <2> QED BY <1>1, <2>1, LoweredTwice
  <1>3. Lowered(u, c) /\ Lowered(u, d)
    <2> HIDE DEF b
    <2>1. Unmoved(b, c) /\ Unmoved(u, d) BY <1>2 DEF Unmoved, Plain, Lowered
    <2> QED BY <1>2, <2>1 DEF Lowered, Unmoved, Counted
  <1>4. Lowered(u, on) /\ Lowered(u, off)
    <2> HIDE DEF c, d
    <2> QED BY <1>3, PanelsUnmoved DEF Lowered, Unmoved, Counted
  <1>5. SetAudit(u, active) \in {u, MarkLayersDirty(MarkStateDirty(on)),
                                    MarkLayersDirty(MarkStateDirty(off))}
    BY DEF SetAudit
  <1>6. Lowered(u, u) BY DEF Lowered, Counted
  <1> HIDE DEF on, off
  <1> QED BY <1>4, <1>5, <1>6, MarksUnmoved DEF Lowered, Unmoved, Counted
=============================================================================
