--------------------------- MODULE ShellSurfaces ---------------------------
(***************************************************************************)
(* The surfaces of the unified shell process: how a state frame shows,     *)
(* hides and reconfigures them, their animations, the answers of the       *)
(* compositor and the region in which each takes touches                   *)
(* (src/compositor/src/shell/shell_client.c).  One thread polls the state  *)
(* socket and the display; frames that are read together are applied one   *)
(* after the other without a look at the display.                          *)
(*                                                                         *)
(* A slot's state is swapped into the client, changed and swapped out      *)
(* again; here the operators below change the slot itself.  Values of an   *)
(* animation are 0, 1 and 2 for hidden, in between and shown.  A buffer to *)
(* draw into is always found.                                              *)
(***************************************************************************)
EXTENDS ShellView

CONSTANTS
  Modes,      \* the surfaces; six in the code
  Announced,  \* the states that frames announce
  Unknown,    \* the output before the first frame or answer
  Usable      \* the part of the output that panels leave, which answers give

ASSUME ModesAssumption ==
  /\ Modes \subseteq AllModes
  /\ \A v \in Announced : v \in Views({v.output})

VARIABLES
  running,  \* the display is connected
  linked,   \* the state socket is connected
  loop,     \* where the event loop is: "poll", "pump" or "dispatch"
  seen,     \* the state that was read last
  hint,     \* output_width_hint and output_height_hint
  slot      \* slots[i] of every mode

vars == <<running, linked, loop, seen, hint, slot>>

\* lumo_shell_create_unified_surface
NewSlot(m) ==
  [config |-> "boot", target |-> m \in Static, hidden |-> m \notin Static,
   anim |-> "none", from |-> 0, dirty |-> TRUE, drawn |-> FALSE, region |-> {}]

Init ==
  /\ running = TRUE
  /\ linked \in BOOLEAN
  /\ loop = "poll"
  /\ seen = Nothing(Unknown) /\ hint = Unknown
  /\ slot = [m \in Modes |-> NewSlot(m)]

-----------------------------------------------------------------------------
(* Configurations and animations of one slot.                              *)

Value(s) ==
  CASE s.anim = "new"  -> s.from
    [] s.anim = "runs" -> 1
    [] OTHER           -> IF s.target THEN 2 ELSE 0

\* What build_config makes of a shown surface; it makes nothing of the sidebar,
\* and the launcher's is the same for every output.
Configured(m, s, output) ==
  CASE m = "sidebar"  -> s.config
    [] m = "launcher" -> "shown"
    [] OTHER          -> output

BeginTransition(m, s, visible, output) ==
  IF m \in Static THEN [s EXCEPT !.target = TRUE, !.hidden = FALSE, !.anim = "none"]
  ELSE LET from == Value(s) IN
       [s EXCEPT !.target = visible,
                 !.config = IF visible THEN Configured(m, s, output) ELSE @,
                 !.hidden = @ /\ ~visible,
                 !.from = from,
                 !.anim = IF from = (IF visible THEN 2 ELSE 0) THEN "none" ELSE "new"]

\* lumo_shell_client_sync_surface_state with the layout forced
Sync(m, s, v, output) ==
  LET desired == ShouldBeVisible(m, v) IN
  IF desired # s.target \/ (m \in Static /\ s.hidden)
  THEN BeginTransition(m, s, desired, output)
  ELSE IF desired /\ Configured(m, s, output) # s.config
       THEN [s EXCEPT !.config = Configured(m, s, output), !.hidden = FALSE]
       ELSE s

\* Mutant: the surface counts as hidden and keeps its configuration.
FinishHide_KeepsConfig(m, s) ==
  IF m \in Static \/ s.target THEN s ELSE [s EXCEPT !.hidden = TRUE]

FinishHide(m, s) ==
  IF m \in Static \/ s.target \/ s.hidden THEN s
  ELSE [s EXCEPT !.config = "boot", !.hidden = TRUE]

-----------------------------------------------------------------------------
(* Drawing one slot.                                                       *)

\* Mutant: the input region is set with the first buffer only.
Draw_RegionOnce(m, s, v) ==
  [s EXCEPT !.drawn = TRUE, !.region = IF s.drawn THEN @ ELSE InputRegion(m, v)]

\* A buffer is committed together with the input region.
Draw(m, s, v) == [s EXCEPT !.drawn = TRUE, !.region = InputRegion(m, v)]

\* Mutant: an animation that shows a surface is never finished.
Tick_HidesOnly(m, s) ==
  IF s.anim = "over" /\ ~s.target THEN FinishHide(m, [s EXCEPT !.anim = "none"]) ELSE s

Tick(m, s) ==
  IF s.anim = "over" THEN FinishHide(m, [s EXCEPT !.anim = "none"]) ELSE s

\* One turn of lumo_shell_client_redraw_unified; periodic surfaces are drawn
\* although nothing has changed.
Redrawn(m, s, v, output, periodic) ==
  LET synced == IF s.dirty THEN Sync(m, s, v, output) ELSE s
      t == [Tick(m, synced) EXCEPT !.dirty = FALSE]
  IN  IF (s.dirty \/ synced.anim # "none" \/ periodic) /\ t.drawn
      THEN Draw(m, t, v) ELSE t

Animating == \E m \in Modes : slot[m].anim # "none"

\* The status bar always, the background unless it is covered or another
\* surface moves, the launcher while a page is dragged or the clock is shown.
Periodic(covered, dragged) ==
  {m \in Modes : \/ m = "status"
                 \/ m = "background" /\ ~covered /\ ~Animating
                 \/ m = "launcher" /\ (dragged \/ seen.panel = "time")}

RedrawUnified(slots, v, output, periodic) ==
  [m \in Modes |-> Redrawn(m, slots[m], v, output, m \in periodic)]

-----------------------------------------------------------------------------
(* The event loop.                                                         *)

Redraw ==
  \E covered, dragged \in BOOLEAN :
    slot' = RedrawUnified(slot, seen, hint, Periodic(covered, dragged))

\* poll times out, or a touch changes the highlighted target.
Timeout ==
  /\ running /\ loop = "poll"
  /\ Redraw
  /\ UNCHANGED <<running, linked, loop, seen, hint>>

\* Mutant: the slots are not marked, as if only new windows had been read.
StateFrame_Unmarked(v) ==
  /\ running /\ linked /\ loop \in {"poll", "pump"}
  /\ seen' = v /\ hint' = v.output /\ loop' = "pump"
  /\ slot' = RedrawUnified(slot, v, v.output, {})
  /\ UNCHANGED <<running, linked>>

\* Mutant: the size that an answer gave is kept.
StateFrame_KeepsHint(v) ==
  /\ running /\ linked /\ loop \in {"poll", "pump"}
  /\ seen' = v /\ hint' = (IF hint = Usable THEN hint ELSE v.output) /\ loop' = "pump"
  /\ slot' = RedrawUnified([m \in Modes |-> [slot[m] EXCEPT !.dirty = TRUE]], v, hint', {})
  /\ UNCHANGED <<running, linked>>

\* A state frame is read: every slot is marked and the surfaces are redrawn.
StateFrame(v) ==
  /\ running /\ linked /\ loop \in {"poll", "pump"}
  /\ seen' = v /\ hint' = v.output /\ loop' = "pump"
  /\ slot' = RedrawUnified([m \in Modes |-> [slot[m] EXCEPT !.dirty = TRUE]],
                           v, v.output, {})
  /\ UNCHANGED <<running, linked>>

\* Nothing is left to read; the surfaces are redrawn once more.
PumpEnds ==
  /\ running /\ loop = "pump"
  /\ loop' = "poll" /\ Redraw
  /\ UNCHANGED <<running, linked, seen, hint>>

\* The compositor hung up, or a frame is malformed; the socket stays closed.
Hangup ==
  /\ running /\ linked /\ loop \in {"poll", "pump"}
  /\ linked' = FALSE /\ loop' = "poll" /\ Redraw
  /\ UNCHANGED <<running, seen, hint>>

\* The compositor answers with a size, which draws the surface.  What the
\* drawer gets is the area that the bars and the keyboard leave.
Configure(m) ==
  /\ running /\ loop \in {"poll", "dispatch"}
  /\ slot' = [slot EXCEPT ![m] = [Draw(m, @, seen) EXCEPT !.dirty = FALSE]]
  /\ hint' = IF m = "launcher" \/ hint = Unknown THEN Usable ELSE hint
  /\ loop' = "dispatch"
  /\ UNCHANGED <<running, linked, seen>>

DispatchEnds ==
  /\ running /\ loop = "dispatch"
  /\ loop' = "poll"
  /\ IF Animating THEN Redraw ELSE UNCHANGED slot
  /\ UNCHANGED <<running, linked, seen, hint>>

\* The compositor closes a surface: the display is disconnected.
Closed ==
  /\ running /\ loop \in {"poll", "dispatch"}
  /\ running' = FALSE
  /\ UNCHANGED <<linked, loop, seen, hint, slot>>

\* Time passes for an animation.
Age(m) ==
  /\ running
  /\ slot[m].anim \in {"new", "runs"}
  /\ slot' = [slot EXCEPT ![m].anim = IF @ = "new" THEN "runs" ELSE "over"]
  /\ UNCHANGED <<running, linked, loop, seen, hint>>

Next ==
  \/ Timeout \/ PumpEnds \/ Hangup \/ DispatchEnds \/ Closed
  \/ \E v \in Announced : StateFrame(v)
  \/ \E m \in Modes : Age(m) \/ Configure(m)

\* Time passes, the loop goes on after what it reads, and poll returns within
\* 33 ms while something moves.
Fairness ==
  /\ WF_vars(Timeout) /\ WF_vars(PumpEnds) /\ WF_vars(DispatchEnds)
  /\ \A m \in Modes : WF_vars(Age(m))

Spec == Init /\ [][Next]_vars /\ Fairness
-----------------------------------------------------------------------------
Outputs == {v.output : v \in Announced} \cup {Unknown, Usable}

Slots ==
  [config : {"boot", "shown"} \cup Outputs, target : BOOLEAN, hidden : BOOLEAN,
   anim : {"none", "new", "runs", "over"}, from : 0 .. 2, dirty : BOOLEAN,
   drawn : BOOLEAN,
   region : SUBSET {"drawer", "quick", "time", "notification", "keys", "handle",
                    "bar", "icons"}]

TypeOK ==
  /\ running \in BOOLEAN /\ linked \in BOOLEAN
  /\ loop \in {"poll", "pump", "dispatch"}
  /\ seen \in Announced \cup {Nothing(Unknown)} /\ hint \in Outputs
  /\ slot \in [Modes -> Slots]

(***************************************************************************)
(* Every surface is on its way to what the last frame says of it, although *)
(* an answer of the compositor, a timeout or a hangup may clear the mark   *)
(* that a frame sets (shell_client.c:379-405, 655, 695-698, 927-933).       *)
(***************************************************************************)
TargetFollowsState ==
  \A m \in Modes : slot[m].target = ShouldBeVisible(m, seen)

(***************************************************************************)
(* A surface that counts as hidden has been given back its small           *)
(* configuration and rests, however its last animation was turned around   *)
(* (shell_client.c:327-340, CHANGELOG.md:813).                             *)
(***************************************************************************)
HiddenRests ==
  \A m \in Modes :
    slot[m].hidden => /\ ~slot[m].target /\ slot[m].anim = "none"
                      /\ slot[m].config = "boot"

(***************************************************************************)
(* A surface that is shown has the layout of the output that the last      *)
(* frame announced, also when the output was turned while the surface was  *)
(* closing and it is opened again, and although the answers to the drawer  *)
(* overwrite the hints with a smaller size (shell_client.c:361-367,        *)
(* 397-404, 927-932).                                                      *)
(***************************************************************************)
LayoutFollowsOutput ==
  \A m \in Modes \ Static :
    slot[m].target => /\ ~slot[m].hidden
                      /\ slot[m].config = Configured(m, slot[m], seen.output)

(***************************************************************************)
(* A mapped surface takes touches exactly where the last frame shows the   *)
(* drawer, a panel or the bar: a region left from one that is gone would   *)
(* swallow the touches of the applications.  The regions of the keyboard   *)
(* and of the sidebar are constant, shown or not (shell_client.c:261-323). *)
(***************************************************************************)
RegionFollowsState ==
  \A m \in Modes :
    slot[m].drawn => slot[m].region = InputRegion(m, seen)

(***************************************************************************)
(* When the state no longer changes every animation comes to its end: the  *)
(* loop goes back to sleep instead of drawing at 30 frames a second        *)
(* (shell_client.c:701-709, 1138-1145).                                    *)
(***************************************************************************)
AnimationsEnd ==
  <>[][seen' = seen]_vars
    => <>[](running => \A m \in Modes : slot[m].anim = "none")

=============================================================================
