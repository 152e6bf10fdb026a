------------------------ MODULE ShellSurfacesProofs ------------------------
(***************************************************************************)
(* The surfaces of the shell for any modes and announced states.  What is  *)
(* proved speaks of one slot at a time: each operator that changes a slot  *)
(* keeps it in order for the state it is given, and the steps of the event *)
(* loop apply those operators to every slot.                               *)
(***************************************************************************)
EXTENDS ShellSurfaces, TLAPS

\* What a surface may take touches in.
Places == {"drawer", "quick", "time", "notification", "keys", "handle", "bar", "icons"}

\* A slot that is on its way to what v says of its surface.
Led(m, s, v) ==
  /\ s.target = ShouldBeVisible(m, v)
  /\ m \in Static => ~s.hidden
  /\ s.hidden => ~s.target /\ s.anim = "none" /\ s.config = "boot"
  /\ m \notin Static /\ s.target => ~s.hidden /\ s.config = Configured(m, s, v.output)

\* A slot before it meets a state: what it shows may be of another one.
Sane(m, s) ==
  /\ m \in Static => s.target /\ ~s.hidden
  /\ s.hidden => ~s.target /\ s.anim = "none" /\ s.config = "boot"
  /\ m \notin Static /\ s.target => ~s.hidden

\* Only before the first frame are surfaces marked outside of a step, and then
\* all that may hide are hidden.
SlotOK(m) ==
  /\ slot[m] \in Slots
  /\ Led(m, slot[m], seen)
  /\ slot[m].dirty => seen = Nothing(Unknown)
  /\ slot[m].drawn => slot[m].region = InputRegion(m, seen)

SurfacesOK ==
  /\ loop \in {"poll", "pump", "dispatch"} /\ running \in BOOLEAN /\ linked \in BOOLEAN
  /\ seen \in Announced \cup {Nothing(Unknown)} /\ hint \in Outputs
  /\ slot = [m \in Modes |-> slot[m]]
  /\ \A m \in Modes : SlotOK(m)

-----------------------------------------------------------------------------
(* What a state says of a surface.                                         *)

Seen == Announced \cup {Nothing(Unknown)}

LEMMA SeenType ==
  ASSUME NEW v \in Seen
  PROVE  v.output \in Outputs /\ v \in Views({v.output})
  <1>1. CASE v \in Announced BY <1>1, ModesAssumption DEF Outputs
  <1>2. CASE v = Nothing(Unknown)
    <2>1. v.output = Unknown BY <1>2 DEF Nothing
    <2>2. v \in Views({Unknown}) BY <1>2 DEF Nothing, Views
    <2> QED BY <2>1, <2>2 DEF Outputs
  <1> QED BY <1>1, <1>2 DEF Seen

LEMMA VisibleType ==
  ASSUME NEW m \in Modes, NEW v \in Seen
  PROVE  ShouldBeVisible(m, v) \in BOOLEAN /\ (m \in Static => ShouldBeVisible(m, v))
  BY SeenType, ModesAssumption DEF ShouldBeVisible, Views, AllModes, Static

LEMMA NothingShown ==
  ASSUME NEW m \in Modes \ Static
  PROVE  ~ShouldBeVisible(m, Nothing(Unknown))
  BY ModesAssumption DEF ShouldBeVisible, Nothing, AllModes, Static

LEMMA RegionType ==
  ASSUME NEW m \in Modes, NEW v \in Seen
  PROVE  InputRegion(m, v) \in SUBSET Places
  <1>1. v.panel \in {"none", "quick", "time", "notification"} BY SeenType DEF Views
  <1>2. m \in {"gesture", "status", "background", "launcher", "osk", "sidebar"}
    BY ModesAssumption DEF AllModes, Static
  <1>3. CASE m = "launcher" BY <1>1, <1>3 DEF InputRegion, Places
  <1>4. CASE m = "status" BY <1>4 DEF InputRegion, Places
  <1>5. CASE m \in {"gesture", "osk", "sidebar", "background"}
    BY <1>5 DEF InputRegion, Places
  <1> QED BY <1>2, <1>3, <1>4, <1>5

LEMMA ConfiguredType ==
  ASSUME NEW m \in Modes, NEW s \in Slots, NEW o \in Outputs
  PROVE  Configured(m, s, o) \in {"boot", "shown"} \cup Outputs
  BY DEF Configured, Slots

-----------------------------------------------------------------------------
(* The operators on one slot.                                              *)

\* An output to lay a surface out for; what hides does not look at it.
Fits(m, v, o) ==
  o \in Outputs /\ (m \notin Static /\ ShouldBeVisible(m, v) => o = v.output)

LEMMA BeginOK ==
  ASSUME NEW m \in Modes, NEW s \in Slots, NEW v \in Seen, NEW o, Fits(m, v, o),
         Sane(m, s), ShouldBeVisible(m, v) # s.target
  PROVE  LET t == BeginTransition(m, s, ShouldBeVisible(m, v), o) IN
         t \in Slots /\ Led(m, t, v)
           /\ t.dirty = s.dirty /\ t.drawn = s.drawn /\ t.region = s.region
  <1> DEFINE b == ShouldBeVisible(m, v)
             t == BeginTransition(m, s, b, o)
  <1>1. b \in BOOLEAN /\ m \notin Static BY VisibleType DEF Sane, Slots
  <1>2. Value(s) \in 0 .. 2 BY DEF Value, Slots
  <1>3. Configured(m, s, o) \in {"boot", "shown"} \cup Outputs
    BY ConfiguredType DEF Fits
  <1>4. t = [s EXCEPT !.target = b,
                      !.config = IF b THEN Configured(m, s, o) ELSE s.config,
                      !.hidden = s.hidden /\ ~b,
                      !.from = Value(s),
                      !.anim = IF Value(s) = (IF b THEN 2 ELSE 0) THEN "none" ELSE "new"]
    BY <1>1 DEF BeginTransition
  <1>5. t \in Slots BY <1>1, <1>2, <1>3, <1>4 DEF Slots
  <1>6. /\ t.target = b /\ t.hidden = (s.hidden /\ ~b)
        /\ b => t.config = Configured(m, s, o)
        /\ t.dirty = s.dirty /\ t.drawn = s.drawn /\ t.region = s.region
    BY <1>4 DEF Slots
  <1>7. ~t.hidden
    <2>1. CASE b BY <2>1, <1>6
    <2>2. CASE ~b
      <3>1. s.target BY <2>2, <1>1 DEF Slots
      <3> QED BY <3>1, <1>6, <1>1 DEF Sane
    <2> QED BY <2>1, <2>2
  <1>8. b => Configured(m, t, o) = t.config BY <1>6 DEF Configured
  <1>9. Led(m, t, v) BY <1>1, <1>6, <1>7, <1>8 DEF Led, Fits
  <1> HIDE DEF t
  <1> QED BY <1>5, <1>6, <1>9 DEF t

LEMMA SyncOK ==
  ASSUME NEW m \in Modes, NEW s \in Slots, NEW v \in Seen, NEW o, Fits(m, v, o),
         Sane(m, s)
  PROVE  LET t == Sync(m, s, v, o) IN
         t \in Slots /\ Led(m, t, v)
           /\ t.dirty = s.dirty /\ t.drawn = s.drawn /\ t.region = s.region
  <1> DEFINE b == ShouldBeVisible(m, v)
             c == Configured(m, s, o)
  <1>1. b \in BOOLEAN /\ ~(m \in Static /\ s.hidden) BY VisibleType DEF Sane
  <1>2. CASE b # s.target BY <1>1, <1>2, BeginOK DEF Sync
  <1>3. CASE b = s.target /\ ~(b /\ c # s.config)
    <2>1. Sync(m, s, v, o) = s BY <1>1, <1>3 DEF Sync
    <2>2. Led(m, s, v) BY <1>1, <1>3 DEF Led, Sane, Fits
    <2> QED BY <2>1, <2>2
  <1>4. CASE b = s.target /\ b /\ c # s.config
    <2> DEFINE t == [s EXCEPT !.config = c, !.hidden = FALSE]
    <2>1. Sync(m, s, v, o) = t BY <1>1, <1>4 DEF Sync
    <2>2. c \in {"boot", "shown"} \cup Outputs BY ConfiguredType DEF Fits
    <2>3. t \in Slots BY <2>2 DEF Slots
    <2>4. /\ t.target = s.target /\ ~t.hidden /\ t.config = c
          /\ t.dirty = s.dirty /\ t.drawn = s.drawn /\ t.region = s.region
      BY DEF Slots
    <2>5. Configured(m, t, o) = t.config BY <2>4 DEF Configured
    <2>6. Led(m, t, v) BY <1>4, <2>4, <2>5 DEF Led, Fits
    <2> HIDE DEF t
    <2> QED BY <2>1, <2>3, <2>4, <2>6
  <1> QED BY <1>2, <1>3, <1>4, <1>1 DEF Slots

\* A tick ends an animation; what was hidden by it becomes small again.
LEMMA TickOK ==
  ASSUME NEW m \in Modes, NEW s \in Slots, NEW v \in Seen, Led(m, s, v)
  PROVE  LET t == Tick(m, s) IN
         t \in Slots /\ Led(m, t, v)
           /\ t.dirty = s.dirty /\ t.drawn = s.drawn /\ t.region = s.region
  <1> DEFINE r == [s EXCEPT !.anim = "none"]
             h == [r EXCEPT !.config = "boot", !.hidden = TRUE]
  <1>1. /\ r \in Slots /\ r.target = s.target /\ r.hidden = s.hidden /\ r.anim = "none"
        /\ r.config = s.config
        /\ r.dirty = s.dirty /\ r.drawn = s.drawn /\ r.region = s.region
    BY DEF Slots
  <1>2. /\ h \in Slots /\ h.target = s.target /\ h.hidden /\ h.anim = "none"
        /\ h.config = "boot"
        /\ h.dirty = s.dirty /\ h.drawn = s.drawn /\ h.region = s.region
    BY DEF Slots
  <1>3. Led(m, r, v)
    <2>1. Configured(m, r, v.output) = Configured(m, s, v.output) BY <1>1 DEF Configured
    <2> QED BY <1>1, <2>1 DEF Led
  <1>4. CASE s.anim # "over" BY <1>4 DEF Tick
  <1>5. CASE s.anim = "over" /\ (m \in Static \/ r.target \/ r.hidden)
    <2>1. Tick(m, s) = r BY <1>5 DEF Tick, FinishHide
    <2> HIDE DEF r
    <2> QED BY <2>1, <1>1, <1>3
  <1>6. CASE s.anim = "over" /\ ~(m \in Static \/ r.target \/ r.hidden)
    <2>1. Tick(m, s) = h BY <1>6 DEF Tick, FinishHide
    <2>2. ~s.target BY <1>6, <1>1
    <2>3. Led(m, h, v) BY <1>2, <1>6, <2>2 DEF Led
    <2> HIDE DEF h
    <2> QED BY <2>1, <2>3, <1>2
  <1> QED BY <1>4, <1>5, <1>6

LEMMA DrawOK ==
  ASSUME NEW m \in Modes, NEW s \in Slots, NEW v \in Seen, NEW w, Led(m, s, w)
  PROVE  LET t == Draw(m, s, v) IN
         t \in Slots /\ Led(m, t, w) /\ t.dirty = s.dirty /\ t.region = InputRegion(m, v)
  <1> DEFINE t == Draw(m, s, v)
  <1>1. InputRegion(m, v) \in SUBSET Places BY RegionType
  <1>2. /\ t \in Slots /\ t.region = InputRegion(m, v)
        /\ t.target = s.target /\ t.hidden = s.hidden /\ t.anim = s.anim
        /\ t.config = s.config /\ t.dirty = s.dirty
    BY <1>1 DEF Draw, Slots, Places
  <1>3. Configured(m, t, w.output) = Configured(m, s, w.output) BY <1>2 DEF Configured
  <1> HIDE DEF t
  <1>4. Led(m, t, w) BY <1>2, <1>3 DEF Led
  <1> QED BY <1>2, <1>4 DEF t

\* A marked slot, or one that already follows the state, follows it after a
\* turn of the redraw; a marked one is drawn.
LEMMA RedrawnOK ==
  ASSUME NEW m \in Modes, NEW s \in Slots, NEW v \in Seen, NEW o, NEW p \in BOOLEAN,
         s.dirty => Sane(m, s) /\ Fits(m, v, o),
         ~s.dirty => Led(m, s, v) /\ (s.drawn => s.region = InputRegion(m, v))
  PROVE  LET t == Redrawn(m, s, v, o, p) IN
         /\ t \in Slots /\ Led(m, t, v) /\ ~t.dirty
         /\ t.drawn => t.region = InputRegion(m, v)
  <1> DEFINE synced == IF s.dirty THEN Sync(m, s, v, o) ELSE s
             ticked == Tick(m, synced)
             t == [ticked EXCEPT !.dirty = FALSE]
             drawn == Draw(m, t, v)
  <1>1. /\ synced \in Slots /\ Led(m, synced, v)
        /\ synced.dirty = s.dirty /\ synced.drawn = s.drawn /\ synced.region = s.region
    <2>1. CASE s.dirty BY <2>1, SyncOK
    <2>2. CASE ~s.dirty BY <2>2
    <2> QED BY <2>1, <2>2 DEF Slots
  <1> HIDE DEF synced
  <1>2. /\ ticked \in Slots /\ Led(m, ticked, v)
        /\ ticked.drawn = s.drawn /\ ticked.region = s.region
    BY <1>1, TickOK
  <1> HIDE DEF ticked
  <1>3. /\ t \in Slots /\ ~t.dirty /\ t.drawn = s.drawn /\ t.region = s.region
        /\ t.target = ticked.target /\ t.hidden = ticked.hidden
        /\ t.anim = ticked.anim /\ t.config = ticked.config
    BY <1>2 DEF Slots
  <1>4. Led(m, t, v)
    <2>1. Configured(m, t, v.output) = Configured(m, ticked, v.output)
      BY <1>3 DEF Configured
    <2> QED BY <1>2, <1>3, <2>1 DEF Led
  <1> HIDE DEF t
  <1>5. /\ drawn \in Slots /\ Led(m, drawn, v) /\ drawn.dirty = t.dirty
        /\ drawn.region = InputRegion(m, v)
    BY <1>3, <1>4, DrawOK
  <1> HIDE DEF drawn
  <1>6. Redrawn(m, s, v, o, p) =
          IF (s.dirty \/ synced.anim # "none" \/ p) /\ t.drawn THEN drawn ELSE t
    BY DEF Redrawn, synced, ticked, t, drawn
  <1>7. ~s.dirty /\ t.drawn => t.region = InputRegion(m, v) BY <1>3
  <1>8. s.dirty \in BOOLEAN /\ t.drawn \in BOOLEAN BY <1>3 DEF Slots
  <1> QED BY <1>3, <1>4, <1>5, <1>6, <1>7, <1>8

-----------------------------------------------------------------------------
(* The steps of the event loop.                                            *)

LEMMA LedIsSane ==
  ASSUME NEW m \in Modes, NEW s \in Slots, NEW v \in Seen, Led(m, s, v)
  PROVE  Sane(m, s)
  BY VisibleType DEF Led, Sane, Slots

\* A step that redraws every slot of xs for the state v.
LEMMA RedrawsOK ==
  ASSUME NEW xs, NEW v \in Seen, NEW o, NEW P,
         slot' = RedrawUnified(xs, v, o, P), seen' = v,
         \A m \in Modes : /\ xs[m] \in Slots
                          /\ xs[m].dirty => Sane(m, xs[m]) /\ Fits(m, v, o)
                          /\ ~xs[m].dirty => /\ Led(m, xs[m], v)
                                             /\ xs[m].drawn => xs[m].region = InputRegion(m, v)
  PROVE  slot' = [m \in Modes |-> slot'[m]] /\ \A m \in Modes : SlotOK(m)'
  <1>1. slot' = [m \in Modes |-> Redrawn(m, xs[m], v, o, m \in P)] BY DEF RedrawUnified
  <1>2. ASSUME NEW m \in Modes PROVE SlotOK(m)'
    <2> DEFINE t == Redrawn(m, xs[m], v, o, m \in P)
    <2>1. slot'[m] = t BY <1>1
    <2>2. (m \in P) \in BOOLEAN OBVIOUS
    <2>3. /\ t \in Slots /\ Led(m, t, v) /\ ~t.dirty
          /\ t.drawn => t.region = InputRegion(m, v)
      BY <2>2, RedrawnOK
    <2> HIDE DEF t
    <2>4. /\ slot'[m] \in Slots /\ Led(m, slot'[m], v) /\ ~slot'[m].dirty
          /\ slot'[m].drawn => slot'[m].region = InputRegion(m, v)
      BY <2>1, <2>3
    <2> QED BY <2>4 DEF SlotOK, Led
  <1> QED BY <1>1, <1>2

\* Before the first frame a marked slot needs nothing: whatever the hint, what
\* is hidden stays so.
LEMMA IdleOK ==
  ASSUME SurfacesOK, Redraw, UNCHANGED seen
  PROVE  slot' = [m \in Modes |-> slot'[m]] /\ \A m \in Modes : SlotOK(m)'
  <1>1. PICK P : slot' = RedrawUnified(slot, seen, hint, P) BY DEF Redraw
  <1>2. seen \in Seen BY DEF SurfacesOK, Seen
  <1>3. ASSUME NEW m \in Modes
        PROVE  /\ slot[m] \in Slots
               /\ slot[m].dirty => Sane(m, slot[m]) /\ Fits(m, seen, hint)
               /\ ~slot[m].dirty => /\ Led(m, slot[m], seen)
                                    /\ slot[m].drawn => slot[m].region = InputRegion(m, seen)
    <2>1. SlotOK(m) BY DEF SurfacesOK
    <2>2. Sane(m, slot[m]) BY <2>1, <1>2, LedIsSane DEF SlotOK
    <2>3. slot[m].dirty => Fits(m, seen, hint)
      BY <2>1, NothingShown DEF SlotOK, Fits, SurfacesOK
    <2> QED BY <2>1, <2>2, <2>3 DEF SlotOK
  <1> QED BY <1>1, <1>2, <1>3, RedrawsOK

LEMMA FrameOK ==
  ASSUME SurfacesOK, NEW v \in Announced, StateFrame(v)
  PROVE  SurfacesOK'
  <1> DEFINE xs == [m \in Modes |-> [slot[m] EXCEPT !.dirty = TRUE]]
  <1>1. v \in Seen BY DEF Seen
  <1>2. ASSUME NEW m \in Modes
        PROVE  xs[m] \in Slots /\ xs[m].dirty /\ Sane(m, xs[m]) /\ Fits(m, v, v.output)
    <2>1. SlotOK(m) BY DEF SurfacesOK
    <2>2. Sane(m, slot[m]) BY <2>1, LedIsSane DEF SlotOK, SurfacesOK, Seen
    <2>3. xs[m] = [slot[m] EXCEPT !.dirty = TRUE] OBVIOUS
    <2> HIDE DEF xs
    <2>4. /\ xs[m] \in Slots /\ xs[m].dirty /\ xs[m].target = slot[m].target
          /\ xs[m].hidden = slot[m].hidden /\ xs[m].anim = slot[m].anim
          /\ xs[m].config = slot[m].config
      BY <2>1, <2>3 DEF SlotOK, Slots
    <2> QED BY <2>2, <2>4, <1>1, SeenType DEF Sane, Fits
  <1>3. slot' = RedrawUnified(xs, v, v.output, {}) /\ seen' = v BY DEF StateFrame
  <1> HIDE DEF xs
  <1>4. slot' = [m \in Modes |-> slot'[m]] /\ \A m \in Modes : SlotOK(m)'
    BY <1>1, <1>2, <1>3, RedrawsOK
  <1> QED BY <1>1, <1>4, SeenType DEF SurfacesOK, StateFrame, Seen

LEMMA ConfigureOK ==
  ASSUME SurfacesOK, NEW m \in Modes, Configure(m)
  PROVE  SurfacesOK'
  <1> DEFINE d == Draw(m, slot[m], seen)
             t == [d EXCEPT !.dirty = FALSE]
  <1>1. SlotOK(m) /\ seen \in Seen BY DEF SurfacesOK, Seen
  <1>2. /\ d \in Slots /\ Led(m, d, seen) /\ d.region = InputRegion(m, seen)
    BY <1>1, DrawOK DEF SlotOK
  <1>3. slot' = [slot EXCEPT ![m] = t] /\ UNCHANGED seen BY DEF Configure
  <1> HIDE DEF d
  <1>4. /\ t \in Slots /\ ~t.dirty /\ t.region = d.region /\ t.target = d.target
        /\ t.hidden = d.hidden /\ t.anim = d.anim /\ t.config = d.config
    BY <1>2 DEF Slots
  <1> HIDE DEF t
  <1>5. Led(m, t, seen)
    <2>1. Configured(m, t, seen.output) = Configured(m, d, seen.output)
      BY <1>4 DEF Configured
    <2> QED BY <1>2, <1>4, <2>1 DEF Led
  <1>6. slot' = [k \in Modes |-> IF k = m THEN t ELSE slot[k]]
    BY <1>3 DEF SurfacesOK
  <1>7. ASSUME NEW k \in Modes PROVE SlotOK(k)'
    <2>1. CASE k = m
      <3>1. slot'[k] = t BY <1>6, <2>1
      <3> QED BY <3>1, <2>1, <1>2, <1>3, <1>4, <1>5 DEF SlotOK, Led
    <2>2. CASE k # m
      <3>1. slot'[k] = slot[k] BY <1>6, <2>2
      <3> QED BY <3>1, <1>3 DEF SurfacesOK, SlotOK, Led
    <2> QED BY <2>1, <2>2
  <1>8. hint' \in Outputs BY DEF Configure, SurfacesOK, Outputs
  <1>9. slot' = [k \in Modes |-> slot'[k]] BY <1>6
  <1> QED BY <1>7, <1>8, <1>9 DEF SurfacesOK, Configure

LEMMA AgeOK ==
  ASSUME SurfacesOK, NEW m \in Modes, Age(m)
  PROVE  SurfacesOK'
  <1> DEFINE t == [slot[m] EXCEPT !.anim = IF slot[m].anim = "new" THEN "runs" ELSE "over"]
  <1>1. SlotOK(m) BY DEF SurfacesOK
  <1>2. slot' = [slot EXCEPT ![m] = t] /\ UNCHANGED seen BY DEF Age, SurfacesOK
  <1>3. /\ t \in Slots /\ t.dirty = slot[m].dirty /\ t.region = slot[m].region
        /\ t.target = slot[m].target /\ t.hidden = slot[m].hidden
        /\ t.config = slot[m].config /\ t.drawn = slot[m].drawn
    BY <1>1 DEF Slots, SlotOK
  <1> HIDE DEF t
  <1>4. ~slot[m].hidden BY <1>1 DEF Age, SlotOK, Led
  <1>5. Led(m, t, seen)
    <2>1. Configured(m, t, seen.output) = Configured(m, slot[m], seen.output)
      BY <1>3 DEF Configured
    <2> QED BY <1>1, <1>3, <1>4, <2>1 DEF Led, SlotOK
  <1>6. slot' = [k \in Modes |-> IF k = m THEN t ELSE slot[k]]
    BY <1>2 DEF SurfacesOK
  <1>7. ASSUME NEW k \in Modes PROVE SlotOK(k)'
    <2>1. CASE k = m
      <3>1. slot'[k] = t BY <1>6, <2>1
      <3> QED BY <3>1, <2>1, <1>1, <1>2, <1>3, <1>5 DEF SlotOK, Led
    <2>2. CASE k # m
      <3>1. slot'[k] = slot[k] BY <1>6, <2>2
      <3> QED BY <3>1, <1>2 DEF SurfacesOK, SlotOK, Led
    <2> QED BY <2>1, <2>2
  <1>8. slot' = [k \in Modes |-> slot'[k]] BY <1>6
  <1> QED BY <1>7, <1>8 DEF SurfacesOK, Age

LEMMA SurfacesStep == ASSUME SurfacesOK, [Next]_vars PROVE SurfacesOK'
  <1>1. CASE Timeout \/ PumpEnds \/ Hangup
    <2>1. Redraw /\ UNCHANGED <<seen, hint>> BY <1>1 DEF Timeout, PumpEnds, Hangup
    <2>2. slot' = [m \in Modes |-> slot'[m]] /\ \A m \in Modes : SlotOK(m)'
      BY <2>1, IdleOK
    <2> QED BY <1>1, <2>1, <2>2 DEF SurfacesOK, Timeout, PumpEnds, Hangup
  <1>2. CASE DispatchEnds
    <2>1. CASE Animating
      <3>1. slot' = [m \in Modes |-> slot'[m]] /\ \A m \in Modes : SlotOK(m)'
        BY <1>2, <2>1, IdleOK DEF DispatchEnds
      <3> QED BY <1>2, <3>1 DEF SurfacesOK, DispatchEnds
    <2>2. CASE ~Animating BY <1>2, <2>2 DEF DispatchEnds, SurfacesOK, SlotOK, Led
    <2> QED BY <2>1, <2>2
  <1>3. CASE Closed BY <1>3 DEF Closed, SurfacesOK, SlotOK, Led
  <1>4. CASE \E v \in Announced : StateFrame(v) BY <1>4, FrameOK
  <1>5. CASE \E m \in Modes : Age(m) \/ Configure(m) BY <1>5, AgeOK, ConfigureOK
  <1>6. CASE UNCHANGED vars BY <1>6 DEF vars, SurfacesOK, SlotOK, Led
  <1> QED BY <1>1, <1>2, <1>3, <1>4, <1>5, <1>6 DEF Next

LEMMA SurfacesInit == Init => SurfacesOK
  <1> SUFFICES ASSUME Init PROVE SurfacesOK OBVIOUS
  <1> USE DEF Init
  <1>1. ASSUME NEW m \in Modes PROVE SlotOK(m)
    <2>1. slot[m] = NewSlot(m) BY DEF Init
    <2>2. slot[m] \in Slots BY <2>1 DEF NewSlot, Slots
    <2>3. ShouldBeVisible(m, seen) <=> m \in Static
      BY NothingShown, VisibleType DEF Seen
    <2>4. CASE m \in Static
      BY <2>1, <2>2, <2>3, <2>4, VisibleType DEF NewSlot, Led, SlotOK, Seen
    <2>5. CASE m \notin Static
      BY <2>1, <2>2, <2>3, <2>5, VisibleType DEF NewSlot, Led, SlotOK, Seen
    <2> QED BY <2>2, <2>4, <2>5
  <1> QED BY <1>1 DEF SurfacesOK, Outputs

(***************************************************************************)
(* The slots follow the state that was read last at every point of the     *)
(* event loop, for any modes and any states that are announced.            *)
(***************************************************************************)
THEOREM SurfacesInvariant == Spec => []SurfacesOK
  BY SurfacesInit, SurfacesStep, PTL DEF Spec

(***************************************************************************)
(* The client's variables have their types.                                *)
(***************************************************************************)
THEOREM SurfacesTyped == Spec => []TypeOK
  <1>1. SurfacesOK => TypeOK BY DEF SurfacesOK, SlotOK, TypeOK
  <1> QED BY <1>1, SurfacesInvariant, PTL

(***************************************************************************)
(* Every surface is on its way to what the last frame says of it.          *)
(***************************************************************************)
THEOREM TargetsFollow == Spec => []TargetFollowsState
  <1>1. SurfacesOK => TargetFollowsState
    BY DEF SurfacesOK, SlotOK, Led, TargetFollowsState
  <1> QED BY <1>1, SurfacesInvariant, PTL

(***************************************************************************)
(* What counts as hidden is small and rests.                               *)
(***************************************************************************)
THEOREM HiddenIsSmall == Spec => []HiddenRests
  <1>1. SurfacesOK => HiddenRests
    BY DEF SurfacesOK, SlotOK, Led, HiddenRests
  <1> QED BY <1>1, SurfacesInvariant, PTL

(***************************************************************************)
(* A shown surface is laid out for the output that was announced last.     *)
(***************************************************************************)
THEOREM LayoutsFollow == Spec => []LayoutFollowsOutput
  <1>1. SurfacesOK => LayoutFollowsOutput
    BY DEF SurfacesOK, SlotOK, Led, LayoutFollowsOutput
  <1> QED BY <1>1, SurfacesInvariant, PTL

(***************************************************************************)
(* A mapped surface takes touches where the last frame shows something.    *)
(***************************************************************************)
THEOREM RegionsFollow == Spec => []RegionFollowsState
  <1>1. SurfacesOK => RegionFollowsState
    BY DEF SurfacesOK, SlotOK, RegionFollowsState
  <1> QED BY <1>1, SurfacesInvariant, PTL
-----------------------------------------------------------------------------
(* What becomes of an animation.                                           *)

Advances(a, b) == <<a, b>> \in {<<"new", "runs">>, <<"runs", "over">>, <<"over", "none">>}

(***************************************************************************)
(* An animation goes on, or ends, and nothing starts it again while what   *)
(* is said of its surface stays as it is: neither a frame that changes     *)
(* something else, nor a frame that comes twice, nor an answer of the      *)
(* compositor; and what is over when the loop redraws is ended then        *)
(* (shell_client.c:379-405, 342-359, 655-709).                             *)
(***************************************************************************)
AnimationsAdvance ==
  [][/\ \A m \in Modes :
          ShouldBeVisible(m, seen') = ShouldBeVisible(m, seen)
            => slot'[m].anim = slot[m].anim \/ Advances(slot[m].anim, slot'[m].anim)
     /\ Timeout \/ PumpEnds \/ Hangup => \A m \in Modes : slot'[m].anim # "over"]_vars

\* A turn of the redraw ends what is over and leaves the other animations.
LEMMA RedrawnAdvances ==
  ASSUME NEW m \in Modes, NEW s \in Slots, NEW v, NEW o, NEW p,
         s.dirty => s.target = ShouldBeVisible(m, v) /\ (m \in Static => ~s.hidden)
  PROVE  Redrawn(m, s, v, o, p).anim = IF s.anim = "over" THEN "none" ELSE s.anim
  <1> DEFINE synced == IF s.dirty THEN Sync(m, s, v, o) ELSE s
             ticked == Tick(m, synced)
             t == [ticked EXCEPT !.dirty = FALSE]
             drawn == Draw(m, t, v)
  <1>1. /\ synced.anim = s.anim
        /\ DOMAIN synced = DOMAIN s
    <2>1. CASE s.dirty
      <3>1. Sync(m, s, v, o)
              \in {s, [s EXCEPT !.config = Configured(m, s, o), !.hidden = FALSE]}
        BY <2>1 DEF Sync
      <3> QED BY <2>1, <3>1 DEF Slots
    <2>2. CASE ~s.dirty BY <2>2
    <2> QED BY <2>1, <2>2
  <1> HIDE DEF synced
  <1>2. /\ ticked.anim = IF s.anim = "over" THEN "none" ELSE s.anim
        /\ DOMAIN ticked = DOMAIN s
    <2>1. "anim" \in DOMAIN synced BY <1>1 DEF Slots
    <2>2. CASE s.anim # "over" BY <1>1, <2>2 DEF Tick
    <2>3. CASE s.anim = "over"
      <3> DEFINE r == [synced EXCEPT !.anim = "none"]
      <3>1. r.anim = "none" /\ DOMAIN r = DOMAIN s BY <1>1, <2>1
      <3>2. ticked = FinishHide(m, r) BY <1>1, <2>3 DEF Tick
      <3> HIDE DEF r
      <3>3. ticked \in {r, [r EXCEPT !.config = "boot", !.hidden = TRUE]}
        BY <3>2 DEF FinishHide
      <3>4. [r EXCEPT !.config = "boot", !.hidden = TRUE].anim = r.anim
        BY <3>1 DEF Slots
      <3> QED BY <3>1, <3>3, <3>4, <2>3
    <2> QED BY <2>2, <2>3
  <1> HIDE DEF ticked
  <1>3. t.anim = ticked.anim /\ DOMAIN t = DOMAIN s BY <1>2 DEF Slots
  <1> HIDE DEF t
  <1>4. drawn.anim = t.anim BY <1>3 DEF Draw, Slots
  <1>5. Redrawn(m, s, v, o, p) \in {drawn, t} BY DEF Redrawn, synced, ticked, t
  <1> HIDE DEF drawn
  <1> QED BY <1>2, <1>3, <1>4, <1>5

LEMMA RedrawAdvances ==
  ASSUME SurfacesOK, Redraw, NEW m \in Modes
  PROVE  slot'[m].anim = IF slot[m].anim = "over" THEN "none" ELSE slot[m].anim
  <1>1. PICK P : slot' = RedrawUnified(slot, seen, hint, P) BY DEF Redraw
  <1>2. slot'[m] = Redrawn(m, slot[m], seen, hint, m \in P) BY <1>1 DEF RedrawUnified
  <1>3. SlotOK(m) BY DEF SurfacesOK
  <1> QED BY <1>2, <1>3, RedrawnAdvances DEF SlotOK, Led

LEMMA FrameAdvances ==
  ASSUME SurfacesOK, NEW v \in Announced, StateFrame(v), NEW m \in Modes,
         ShouldBeVisible(m, v) = ShouldBeVisible(m, seen)
  PROVE  slot'[m].anim = IF slot[m].anim = "over" THEN "none" ELSE slot[m].anim
  <1> DEFINE s == [slot[m] EXCEPT !.dirty = TRUE]
  <1>1. slot'[m] = Redrawn(m, s, v, v.output, m \in {})
    BY DEF StateFrame, RedrawUnified
  <1>2. SlotOK(m) BY DEF SurfacesOK
  <1>3. /\ s \in Slots /\ s.anim = slot[m].anim /\ s.target = slot[m].target
        /\ s.hidden = slot[m].hidden
    BY <1>2 DEF SlotOK, Slots
  <1> HIDE DEF s
  <1>4. s.target = ShouldBeVisible(m, v) /\ (m \in Static => ~s.hidden)
    BY <1>2, <1>3 DEF SlotOK, Led
  <1> QED BY <1>1, <1>3, <1>4, RedrawnAdvances

(***************************************************************************)
(* No animation is started again without a reason, and none outlives a     *)
(* redraw once it is over: together with the passing of time, this is why  *)
(* the loop comes to rest.                                                 *)
(***************************************************************************)
THEOREM AnimationsOnlyAdvance == Spec => AnimationsAdvance
  <1> DEFINE Kept(m) == slot'[m].anim = slot[m].anim
                          \/ Advances(slot[m].anim, slot'[m].anim)
             Good == /\ \A m \in Modes :
                          ShouldBeVisible(m, seen') = ShouldBeVisible(m, seen) => Kept(m)
                     /\ Timeout \/ PumpEnds \/ Hangup
                          => \A m \in Modes : slot'[m].anim # "over"
  <1>1. ASSUME SurfacesOK, [Next]_vars PROVE Good \/ UNCHANGED vars
    <2>1. ASSUME Redraw
          PROVE  \A m \in Modes : Kept(m) /\ slot'[m].anim # "over"
      BY <1>1, <2>1, RedrawAdvances DEF Advances
    <2>2. ASSUME Timeout \/ PumpEnds \/ Hangup PROVE Good
      BY <2>1, <2>2 DEF Timeout, PumpEnds, Hangup
    <2>3. ASSUME ~(Timeout \/ PumpEnds \/ Hangup), \A m \in Modes :
                   ShouldBeVisible(m, seen') = ShouldBeVisible(m, seen) => Kept(m)
          PROVE  Good
      BY <2>3
    <2>4. CASE DispatchEnds
      <3>1. \A m \in Modes : Kept(m) BY <2>1, <2>4 DEF DispatchEnds
      <3> HIDE DEF Kept
      <3> QED BY <3>1, <2>2, <2>3
    <2>5. CASE Closed
      <3>1. \A m \in Modes : Kept(m) BY <2>5 DEF Closed
      <3> HIDE DEF Kept
      <3> QED BY <3>1, <2>2, <2>3
    <2>6. ASSUME NEW v \in Announced, StateFrame(v) PROVE Good
      <3>1. seen' = v BY <2>6 DEF StateFrame
      <3>2. ASSUME NEW m \in Modes, ShouldBeVisible(m, seen') = ShouldBeVisible(m, seen)
            PROVE  Kept(m)
        BY <1>1, <2>6, <3>1, <3>2, FrameAdvances DEF Advances
      <3> HIDE DEF Kept
      <3> QED BY <3>2, <2>2, <2>3
    <2>7. ASSUME NEW k \in Modes, Configure(k) PROVE Good
      <3>1. ASSUME NEW m \in Modes PROVE Kept(m)
        <4> DEFINE d == Draw(k, slot[k], seen)
                   t == [d EXCEPT !.dirty = FALSE]
        <4>1. SlotOK(k) BY <1>1 DEF SurfacesOK
        <4>2. d.anim = slot[k].anim /\ DOMAIN d = DOMAIN slot[k]
          BY <4>1 DEF Draw, SlotOK, Slots
        <4>3. slot' = [slot EXCEPT ![k] = t] BY <2>7 DEF Configure
        <4> HIDE DEF d
        <4>4. t.anim = slot[k].anim BY <4>1, <4>2 DEF SlotOK, Slots
        <4> HIDE DEF t
        <4>5. slot = [i \in Modes |-> slot[i]] BY <1>1 DEF SurfacesOK
        <4>6. slot'[m] = IF m = k THEN t ELSE slot[m] BY <4>3, <4>5
        <4> QED BY <4>4, <4>6
      <3> HIDE DEF Kept
      <3> QED BY <3>1, <2>2, <2>3
    <2>8. ASSUME NEW k \in Modes, Age(k) PROVE Good
      <3>1. ASSUME NEW m \in Modes PROVE Kept(m)
        <4>1. slot[k] \in Slots BY <1>1 DEF SurfacesOK, SlotOK
        <4>2. slot = [i \in Modes |-> slot[i]] BY <1>1 DEF SurfacesOK
        <4> DEFINE t == [slot[k] EXCEPT !.anim = IF slot[k].anim = "new" THEN "runs"
                                                 ELSE "over"]
        <4>3. slot' = [slot EXCEPT ![k] = t] BY <2>8, <4>2 DEF Age
        <4>4. t.anim = IF slot[k].anim = "new" THEN "runs" ELSE "over"
          BY <4>1 DEF Slots
        <4> HIDE DEF t
        <4>5. slot'[m] = IF m = k THEN t ELSE slot[m] BY <4>2, <4>3
        <4> QED BY <2>8, <4>4, <4>5 DEF Age, Advances
      <3> HIDE DEF Kept
      <3> QED BY <3>1, <2>2, <2>3
    <2>9. CASE UNCHANGED vars BY <2>9
    <2> HIDE DEF Good
    <2> QED BY <1>1, <2>2, <2>4, <2>5, <2>6, <2>7, <2>8, <2>9 DEF Next
  <1>2. SurfacesOK /\ [Next]_vars => [Good]_vars BY <1>1
  <1> QED BY <1>2, SurfacesInvariant, PTL DEF Spec, AnimationsAdvance

(***************************************************************************)
(* A drawer that is closing, or that closed, swallows no touch: from the   *)
(* frame that closes it on its region is empty, although its pixels still  *)
(* fade (shell_client.c:261-323).                                          *)
(***************************************************************************)
ClosedDrawerPassesTouches ==
  "launcher" \in Modes =>
    (~slot["launcher"].target /\ slot["launcher"].drawn => slot["launcher"].region = {})

(***************************************************************************)
(* The region of a drawer goes away with what it is to show, not with the  *)
(* animation.                                                              *)
(***************************************************************************)
THEOREM ClosedDrawersPassTouches == Spec => []ClosedDrawerPassesTouches
  <1>1. ASSUME SurfacesOK, "launcher" \in Modes,
               ~slot["launcher"].target, slot["launcher"].drawn
        PROVE  slot["launcher"].region = {}
    <2>1. SlotOK("launcher") BY <1>1 DEF SurfacesOK
    <2>2. slot["launcher"].region = InputRegion("launcher", seen)
      BY <1>1, <2>1 DEF SlotOK
    <2>3. ~ShouldBeVisible("launcher", seen) BY <1>1, <2>1 DEF SlotOK, Led
    <2> QED BY <2>2, <2>3 DEF InputRegion, ShouldBeVisible, Static
  <1>2. SurfacesOK => ClosedDrawerPassesTouches
    BY <1>1 DEF ClosedDrawerPassesTouches
  <1> QED BY <1>2, SurfacesInvariant, PTL
=============================================================================
