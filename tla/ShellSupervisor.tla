--------------------------- MODULE ShellSupervisor ---------------------------
(***************************************************************************)
(* The processes of the compositor: the shell it starts with itself, the   *)
(* applications and helpers that handlers fork, and their reaping          *)
(* (src/compositor/src/shell/shell_launch.c).  The table of the supervisor *)
(* has six slots, of which it searches only the first count.  Reaping runs *)
(* when SIGCHLD is read from the signal descriptor of the event loop, and  *)
(* again before every output frame; exits come at any time and any number  *)
(* of them raises the one pending signal.                                  *)
(***************************************************************************)
EXTENDS Naturals

CONSTANTS
  Pids,       \* process ids the kernel hands out, and hands out again
  NoPid,      \* -1
  SlotCount   \* the size of state->processes: six in the code

ASSUME PidsAssumption == NoPid \notin Pids /\ SlotCount \in Nat \ {0}

Slots == 0 .. SlotCount - 1

\* How often the fork of the shell is tried.
Attempts == 3

VARIABLES
  phase,   \* "off", "starting" and "running" (shell_state exists), "stopped"
  attempt, \* forks of the shell so far, while starting
  slot,    \* state->processes[i].pid
  count,   \* state->count
  life,    \* the kernel's view of each child: "free", "alive" or "zombie"
  kind,    \* what was forked: "shell" or "helper"
  signal   \* SIGCHLD is pending

vars == <<phase, attempt, slot, count, life, kind, signal>>

Free == {p \in Pids : life[p] = "free"}
Dead == {p \in Pids : life[p] = "zombie"}

Init ==
  /\ phase = "off" /\ attempt = 0
  /\ slot = [i \in Slots |-> NoPid]
  /\ count = 0
  /\ life = [p \in Pids |-> "free"]
  /\ kind = [p \in Pids |-> "none"]
  /\ signal = FALSE

-----------------------------------------------------------------------------
\* The children that are alive after S was forked as shells and H as helpers.
Fork(S, H) ==
  /\ life' = [p \in Pids |-> IF p \in S \cup H THEN "alive" ELSE life[p]]
  /\ kind' = [p \in Pids |-> IF p \in S THEN "shell"
                             ELSE IF p \in H THEN "helper" ELSE kind[p]]

\* The signal source and the bridge are there; every slot is empty.
Start ==
  /\ phase = "off"
  /\ phase' = "starting"
  /\ UNCHANGED <<attempt, slot, count, life, kind, signal>>

\* Mutant: the attempts go on after a fork that succeeded.
ForkShell_ForksAll ==
  /\ phase = "starting" /\ attempt < Attempts
  /\ attempt' = attempt + 1
  /\ \/ UNCHANGED <<slot, life, kind>>
     \/ \E p \in Free : Fork({p}, {}) /\ slot' = [slot EXCEPT ![0] = p]
  /\ UNCHANGED <<phase, count, signal>>

\* One attempt to fork the unified shell, the next a moment later.  A pid is
\* stored, which ends the attempts, and the count is not raised.
ForkShell ==
  /\ phase = "starting" /\ slot[0] = NoPid /\ attempt < Attempts
  /\ attempt' = attempt + 1
  /\ \/ UNCHANGED <<slot, life, kind>>
     \/ \E p \in Free : Fork({p}, {}) /\ slot' = [slot EXCEPT ![0] = p]
  /\ UNCHANGED <<phase, count, signal>>

\* With a shell or without one, the volume is read and the boot chime played,
\* each by a helper.
StartEnds ==
  /\ phase = "starting" /\ (slot[0] # NoPid \/ attempt = Attempts)
  /\ \E volume, chime \in Free \cup {NoPid} : Fork({}, {volume, chime} \ {NoPid})
  /\ phase' = "running"
  /\ UNCHANGED <<attempt, slot, count, signal>>

\* No binary path, no signal source or no bridge: the state is freed again.
StartFails ==
  /\ phase = "off"
  /\ phase' = "stopped"
  /\ UNCHANGED <<attempt, slot, count, life, kind, signal>>

\* An application, a screenshot, a brightness, volume or weather helper.
ForkHelper ==
  /\ phase = "running"
  /\ \E p \in Free : Fork({}, {p})
  /\ UNCHANGED <<phase, attempt, slot, count, signal>>

ChildExits ==
  \E p \in Pids :
    /\ life[p] = "alive"
    /\ life' = [life EXCEPT ![p] = "zombie"]
    /\ signal' = TRUE
    /\ UNCHANGED <<phase, attempt, slot, count, kind>>

-----------------------------------------------------------------------------
\* The slots that lumo_shell_process_for_pid finds for exited children.
Lost == {i \in Slots : i < count /\ slot[i] \in Dead}

\* waitpid until no exited child is left; a child found in a slot is started
\* again in its place, or leaves the slot empty when that fails.
ReapAll ==
  \E fresh \in [Lost -> Free \cup Dead \cup {NoPid}] :
    LET started == {fresh[i] : i \in Lost} \ {NoPid} IN
    /\ \A i, j \in Lost : fresh[i] = fresh[j] => i = j \/ fresh[i] = NoPid
    /\ slot' = [i \in Slots |-> IF i \in Lost THEN fresh[i] ELSE slot[i]]
    /\ life' = [p \in Pids |-> IF p \in started THEN "alive"
                               ELSE IF p \in Dead THEN "free" ELSE life[p]]
    /\ kind' = [p \in Pids |-> IF p \in started THEN "shell"
                               ELSE IF p \in Dead THEN "none" ELSE kind[p]]

\* Mutants: one waitpid a signal; only the children in the table are waited for.
ReapOnSignal_Once ==
  /\ phase = "running" /\ signal
  /\ \E p \in Dead :
       /\ life' = [life EXCEPT ![p] = "free"]
       /\ kind' = [kind EXCEPT ![p] = "none"]
  /\ signal' = FALSE
  /\ UNCHANGED <<phase, attempt, slot, count>>

ReapOnSignal_Tracked ==
  /\ phase = "running" /\ signal
  /\ Lost # {} /\ ReapAll
  /\ signal' = FALSE
  /\ UNCHANGED <<phase, attempt, count>>

ReapOnSignal ==
  /\ phase = "running" /\ signal
  /\ ReapAll
  /\ signal' = FALSE
  /\ UNCHANGED <<phase, attempt, count>>

\* lumo_shell_autostart_poll, before an output frame.
ReapOnFrame ==
  /\ phase = "running" /\ Dead # {}
  /\ ReapAll
  /\ UNCHANGED <<phase, attempt, count, signal>>

\* The children that are terminated and waited for when the supervisor stops:
\* SIGTERM first, SIGKILL for one that is still there after a second.
Terminated == {slot[i] : i \in {j \in Slots : j < count}} \cap Pids

\* Mutant: every slot is taken for a process, whatever the count.
Stop_AllSlots ==
  /\ phase = "running"
  /\ LET T == {slot[i] : i \in Slots} \cap Pids IN
     /\ life' = [p \in Pids |-> IF p \in T THEN "free" ELSE life[p]]
     /\ kind' = [p \in Pids |-> IF p \in T THEN "none" ELSE kind[p]]
  /\ phase' = "stopped"
  /\ UNCHANGED <<attempt, slot, count, signal>>

Stop ==
  /\ phase = "running"
  /\ life' = [p \in Pids |-> IF p \in Terminated THEN "free" ELSE life[p]]
  /\ kind' = [p \in Pids |-> IF p \in Terminated THEN "none" ELSE kind[p]]
  /\ phase' = "stopped"
  /\ UNCHANGED <<attempt, slot, count, signal>>

-----------------------------------------------------------------------------
Next ==
  \/ Start \/ ForkShell \/ StartEnds \/ StartFails \/ ForkHelper \/ ChildExits
  \/ ReapOnSignal \/ ReapOnFrame \/ Stop

\* The start runs through, and the event loop dispatches a readable signal
\* descriptor; no frame is promised, an idle output draws none.
Spec ==
  /\ Init /\ [][Next]_vars
  /\ WF_vars(ForkShell \/ StartEnds) /\ WF_vars(ReapOnSignal)

-----------------------------------------------------------------------------
(***************************************************************************)
(* An exited child is never forgotten: from the first fork to the stop     *)
(* there is a SIGCHLD to come for it, although exits that come together    *)
(* raise one signal, a shell may be gone before the event loop runs, and   *)
(* frames reap in between (shell_launch.c:282-325, 553-602).               *)
(***************************************************************************)
NoMissedExit ==
  phase \in {"starting", "running"} /\ Dead # {} => signal

(***************************************************************************)
(* Stopping the shell harms no other process, although a slot may hold the *)
(* id of a shell that is gone and whose id the kernel has given to an      *)
(* application since (shell_launch.c:673-721).                             *)
(***************************************************************************)
StopSparesOthers ==
  [][phase = "running" /\ phase' = "stopped" =>
       \A p \in Pids : life[p] = "alive" /\ kind[p] = "helper"
                         => life'[p] = "alive"]_vars

\* No child stays a zombie while the compositor runs (CHANGELOG.md:976).
ExitedAreReaped ==
  \A p \in Pids : life[p] = "zombie" ~> life[p] # "zombie" \/ phase = "stopped"

-----------------------------------------------------------------------------
(* What the documents say and the code does otherwise.                     *)

(***************************************************************************)
(* README.md:103-105: if a shell client exits at runtime, the compositor   *)
(* reaps and respawns it: the step that reaps one starts one.              *)
(***************************************************************************)
ReapedShellIsRespawned ==
  [][\A p \in Pids :
       kind[p] = "shell" /\ life[p] = "zombie" /\ life'[p] = "free"
         => \E q \in Pids : life'[q] = "alive" /\ kind'[q] = "shell"]_vars
=============================================================================
