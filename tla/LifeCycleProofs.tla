-------------------------- MODULE LifeCycleProofs --------------------------
(***************************************************************************)
(* The life cycle for any outputs, devices and processes.  The stop looks  *)
(* at the objects and flags that a start left, so the invariant says which *)
(* of them go together wherever main is, and which are gone by then.  The  *)
(* supervisor is embedded: every step of the compositor is one of its      *)
(* steps or leaves it alone, and what is proved of it carries over.        *)
(***************************************************************************)
EXTENDS LifeCycle, TLAPS

-----------------------------------------------------------------------------
(* The supervisor by itself, for any process ids and any table size.  The  *)
(* invariant has to say what the code never says: nobody raises count, so  *)
(* no slot is ever searched, respawned or terminated.                      *)

SupervisorType ==
  /\ phase \in {"off", "starting", "running", "stopped"}
  /\ slot \in [Slots -> Pids \cup {NoPid}]
  /\ count = 0
  /\ life \in [Pids -> {"free", "alive", "zombie"}]
  /\ kind \in [Pids -> {"none", "shell", "helper"}]
  /\ signal \in BOOLEAN

\* Before the start there is no child; before a shell there is none of it.
NoChildYet ==
  /\ phase = "off" => \A p \in Pids : kind[p] = "none" /\ life[p] = "free"
  /\ phase \in {"off", "starting"} /\ slot[0] = NoPid
       => \A p \in Pids : kind[p] # "shell"

\* What was forked is known by its kind, and a shell by its slot: the attempts
\* end with the first that forks one.
InSlot ==
  \A p \in Pids : /\ kind[p] = "shell" => slot[0] = p
                  /\ kind[p] = "none" => life[p] = "free"

SupervisorOK == SupervisorType /\ NoChildYet /\ InSlot /\ NoMissedExit

LEMMA InitOK == Init => SupervisorOK
  BY PidsAssumption
  DEF Init, SupervisorOK, SupervisorType, NoChildYet, InSlot, NoMissedExit,
      Dead, Slots

\* No slot is searched: nothing is respawned and nothing terminated.
LEMMA NothingCounted ==
  ASSUME SupervisorType
  PROVE  Lost = {} /\ Terminated = {}
  BY DEF SupervisorType, Lost, Terminated, Slots

\* So reaping frees the exited children and does nothing else.
LEMMA ReapFrees ==
  ASSUME SupervisorType, ReapAll
  PROVE  /\ slot' = slot
         /\ life' = [p \in Pids |-> IF p \in Dead THEN "free" ELSE life[p]]
         /\ kind' = [p \in Pids |-> IF p \in Dead THEN "none" ELSE kind[p]]
  <1>1. Lost = {} BY NothingCounted
  <1>2. PICK fresh \in [Lost -> Free \cup Dead \cup {NoPid}] :
          LET started == {fresh[i] : i \in Lost} \ {NoPid} IN
          /\ slot' = [i \in Slots |-> IF i \in Lost THEN fresh[i] ELSE slot[i]]
          /\ life' = [p \in Pids |-> IF p \in started THEN "alive"
                                     ELSE IF p \in Dead THEN "free" ELSE life[p]]
          /\ kind' = [p \in Pids |-> IF p \in started THEN "shell"
                                     ELSE IF p \in Dead THEN "none" ELSE kind[p]]
    BY DEF ReapAll
  <1>3. {fresh[i] : i \in Lost} = {} BY <1>1
  <1> QED BY <1>1, <1>2, <1>3 DEF SupervisorType

\* Reaping keeps the invariant, whoever asked for it.
LEMMA ReapOK ==
  ASSUME SupervisorOK, phase = "running", ReapAll, signal' \in BOOLEAN,
         UNCHANGED <<phase, count>>
  PROVE  SupervisorOK'
  <1>1. /\ slot' = slot
        /\ life' = [p \in Pids |-> IF p \in Dead THEN "free" ELSE life[p]]
        /\ kind' = [p \in Pids |-> IF p \in Dead THEN "none" ELSE kind[p]]
    BY ReapFrees DEF SupervisorOK
  <1>2. SupervisorType' BY <1>1 DEF SupervisorOK, SupervisorType
  <1>3. Dead' = {} BY <1>1 DEF Dead, SupervisorOK, SupervisorType
  <1>4. InSlot' BY <1>1 DEF SupervisorOK, InSlot
  <1> QED BY <1>2, <1>3, <1>4 DEF SupervisorOK, NoChildYet, NoMissedExit

LEMMA StepOK == SupervisorOK /\ [Next]_vars => SupervisorOK'
  <1> SUFFICES ASSUME SupervisorOK, [Next]_vars PROVE SupervisorOK' OBVIOUS
  <1> USE DEF SupervisorOK
  <1>1. CASE Start
    BY <1>1 DEF Start, SupervisorType, NoChildYet, InSlot, NoMissedExit, Dead
  <1>9. CASE ForkShell
    <2>1. CASE UNCHANGED <<slot, life, kind>>
      BY <1>9, <2>1
         DEF ForkShell, SupervisorType, NoChildYet, InSlot, NoMissedExit, Dead
    <2>2. CASE \E p \in Free : Fork({p}, {}) /\ slot' = [slot EXCEPT ![0] = p]
      <3>1. PICK p \in Free : Fork({p}, {}) /\ slot' = [slot EXCEPT ![0] = p]
        BY <2>2
      <3>2. slot'[0] = p /\ p # NoPid
        BY <3>1, PidsAssumption DEF SupervisorType, Slots, Free
      <3>3. SupervisorType' BY <1>9, <3>1 DEF ForkShell, Fork, SupervisorType, Free
      <3>4. InSlot'
        BY <1>9, <3>1, <3>2 DEF ForkShell, Fork, SupervisorType, NoChildYet, InSlot
      <3>5. NoMissedExit'
        BY <1>9, <3>1 DEF ForkShell, Fork, SupervisorType, NoMissedExit, Dead
      <3> QED BY <1>9, <3>2, <3>3, <3>4, <3>5 DEF ForkShell, NoChildYet
    <2> QED BY <1>9, <2>1, <2>2 DEF ForkShell
  <1>10. CASE StartEnds
    <2>1. PICK volume, chime \in Free \cup {NoPid} :
            Fork({}, {volume, chime} \ {NoPid})
      BY <1>10 DEF StartEnds
    <2>2. SupervisorType' BY <1>10, <2>1 DEF StartEnds, Fork, SupervisorType
    <2>3. InSlot' BY <1>10, <2>1 DEF StartEnds, Fork, SupervisorType, InSlot
    <2>4. NoMissedExit'
      BY <1>10, <2>1 DEF StartEnds, Fork, SupervisorType, NoMissedExit, Dead
    <2> QED BY <1>10, <2>2, <2>3, <2>4 DEF StartEnds, NoChildYet
  <1>2. CASE StartFails
    BY <1>2 DEF StartFails, SupervisorType, NoChildYet, InSlot, NoMissedExit
  <1>3. CASE ForkHelper
    <2>1. PICK p \in Free : Fork({}, {p}) BY <1>3 DEF ForkHelper
    <2>2. SupervisorType' BY <1>3, <2>1 DEF ForkHelper, Fork, SupervisorType
    <2>3. InSlot' BY <1>3, <2>1 DEF ForkHelper, Fork, SupervisorType, InSlot
    <2>4. NoMissedExit'
      BY <1>3, <2>1 DEF ForkHelper, Fork, SupervisorType, NoMissedExit, Dead
    <2> QED BY <1>3, <2>2, <2>3, <2>4 DEF ForkHelper, NoChildYet
  <1>4. CASE ChildExits
    BY <1>4 DEF ChildExits, SupervisorType, NoChildYet, InSlot, NoMissedExit
  <1>5. CASE ReapOnSignal BY <1>5, ReapOK DEF ReapOnSignal
  <1>6. CASE ReapOnFrame BY <1>6, ReapOK DEF ReapOnFrame, SupervisorType
  <1>7. CASE Stop
    <2>1. Terminated = {} BY NothingCounted
    <2> QED BY <1>7, <2>1
            DEF Stop, SupervisorType, NoChildYet, InSlot, NoMissedExit
  <1>8. CASE UNCHANGED vars
    BY <1>8 DEF vars, SupervisorType, NoChildYet, InSlot, NoMissedExit, Dead
  <1> QED BY <1>1, <1>2, <1>3, <1>4, <1>5, <1>6, <1>7, <1>8, <1>9, <1>10 DEF Next

(***************************************************************************)
(* The inductive invariant of the supervisor, its type included.           *)
(***************************************************************************)
THEOREM SupervisorInvariant == Spec => []SupervisorOK
  BY InitOK, StepOK, PTL DEF Spec

(***************************************************************************)
(* While the supervisor runs, an exited child has a SIGCHLD to come.       *)
(***************************************************************************)
THEOREM ExitsAreSignalled == Spec => []NoMissedExit
  <1>1. SupervisorOK => NoMissedExit BY DEF SupervisorOK
  <1> QED BY <1>1, SupervisorInvariant, PTL

(***************************************************************************)
(* Stopping the supervisor kills no application and no helper.             *)
(***************************************************************************)
THEOREM StopIsHarmless == Spec => StopSparesOthers
  <1> DEFINE Spares == phase = "running" /\ phase' = "stopped" =>
                \A p \in Pids : life[p] = "alive" /\ kind[p] = "helper"
                                  => life'[p] = "alive"
  <1>1. SupervisorOK /\ [Next]_vars => [Spares]_vars
    <2> SUFFICES ASSUME SupervisorOK, Next, phase = "running", phase' = "stopped"
                 PROVE  Spares
      OBVIOUS
    <2>1. Stop
      BY DEF Next, Start, ForkShell, StartEnds, StartFails, ForkHelper, ChildExits, ReapOnSignal,
             ReapOnFrame
    <2>2. Terminated = {} BY NothingCounted DEF SupervisorOK
    <2> QED BY <2>1, <2>2 DEF Stop
  <1> QED BY <1>1, SupervisorInvariant, PTL DEF Spec, StopSparesOthers

-----------------------------------------------------------------------------
(* The parts of the whole.                                                 *)

InputLinks == {"new_input", "cursor", "seat"}

Places ==
  {"main", "backend", "output", "protocol", "input", "socket", "shell", "runs",
   "stop protocol", "stop input", "stop output", "stop backend", "stop shell",
   "stop display", "gone"}

LifeType ==
  /\ at \in Places
  /\ made \subseteq {"compositor", "display", "output_layout", "scene", "protocol_state",
                     "xwayland", "xwayland_state", "osk_keyboard"} \cup Backend \cup Input
  /\ links \subseteq DOMAIN Owner
  /\ wrapped \subseteq Outputs

\* Parts that are whole or not there at all.
Whole ==
  /\ at \in {"main", "gone"} <=> "compositor" \notin made
  /\ "compositor" \in made <=> "display" \in made
  /\ "backend" \in made => Backend \subseteq made
  /\ "backend" \notin made => Backend \cap made = {}
  /\ "scene" \in made <=> "output_layout" \in made
  /\ "scene" \in made <=> "new_output" \in links
  /\ "surfaces" \in links <=> "protocol_state" \in made
  /\ "xwayland" \in links <=> "xwayland" \in made
  /\ "xwayland" \in made <=> "xwayland_state" \in made
  /\ "new_input" \in links => InputLinks \subseteq links /\ Input \subseteq made
  /\ "new_input" \notin links => InputLinks \cap links = {} /\ Input \cap made = {}

\* Each on top of another.
Stacked ==
  /\ "backend" \in made => "display" \in made
  /\ "scene" \in made => "backend" \in made
  /\ "protocol_state" \in made => "scene" \in made
  /\ "xwayland" \in made => "protocol_state" \in made
  /\ "new_input" \in links => "scene" \in made
  /\ wrapped # {} => "scene" \in made
  /\ attached # {} => "backend" \in made

\* What main has started or stopped where it is.
Progress ==
  /\ at \in {"main", "backend"} => made \subseteq {"compositor", "display"}
  /\ at = "main" => phase = "off"
  /\ at \in {"output", "protocol", "input", "socket", "shell", "runs"} => "backend" \in made
  /\ at \in {"protocol", "input", "socket", "shell", "runs"} => "scene" \in made
  /\ at \in {"stop input", "stop output", "stop backend", "stop shell", "stop display", "gone"}
       => "protocol_state" \notin made
  /\ at \in {"stop output", "stop backend", "stop shell", "stop display", "gone"}
       => "new_input" \notin links
  /\ at \in {"stop backend", "stop shell", "stop display", "gone"} => "scene" \notin made
  /\ at \in {"stop shell", "stop display", "gone"} => "backend" \notin made
  /\ at \in {"stop display", "gone"} => phase # "running"

\* The event loop does not run between the attempts to fork the shell.
StartingThere == phase = "starting" => at = "shell"

LifeOK ==
  LifeType /\ Whole /\ Stacked /\ Progress /\ StartingThere /\ SupervisorOK

LEMMA LifeInitOK == LifeInit => LifeOK
  <1> SUFFICES ASSUME LifeInit PROVE LifeOK OBVIOUS
  <1>1. SupervisorOK BY InitOK DEF LifeInit
  <1>2. phase = "off" BY DEF LifeInit, Init
  <1> QED BY <1>1, <1>2
          DEF LifeInit, LifeOK, LifeType, Whole, Stacked, Progress, StartingThere, Places,
              Backend, Input, InputLinks, Owner

-----------------------------------------------------------------------------
(* Every step is a step of the supervisor.                                 *)

\* A process that ends has told its children nothing, as if it had stopped.
LEMMA CrashIsStop ==
  ASSUME SupervisorOK, StartingThere, StopBackendCrashes
  PROVE  [Next]_vars
  <1>1. CASE phase = "running"
    <2>1. Terminated = {} BY NothingCounted DEF SupervisorOK
    <2>2. Stop
      BY <1>1, <2>1 DEF StopBackendCrashes, Stop, SupervisorOK, SupervisorType
    <2> QED BY <2>2 DEF Next
  <1>2. CASE phase = "off"
    BY <1>2 DEF StopBackendCrashes, Next, StartFails
  <1>3. CASE phase = "stopped"
    BY <1>3 DEF StopBackendCrashes, vars
  <1>4. phase # "starting" BY DEF StartingThere, StopBackendCrashes
  <1> QED BY <1>1, <1>2, <1>3, <1>4 DEF SupervisorOK, SupervisorType

LEMMA SupervisorStep ==
  ASSUME SupervisorOK, StartingThere, [LifeNext]_lives
  PROVE  [Next]_vars
  <1>1. CASE Starts
    BY <1>1 DEF Starts, Create, StartBackend, StartOutput, StartProtocol, StartInput,
                StartSocket, StartShell, Next
  <1>2. CASE Failures
    BY <1>2 DEF Failures, CreateFails, StartInputFails, StartShellFails, PartFails,
                StartSocketFails, Next
  <1>3. CASE Loop
    BY <1>3 DEF Loop, Plug, Unplug, Signalled, Framed, Forks, Terminates, Next
  <1>4. CASE Stops
    BY <1>4, CrashIsStop DEF Stops, StopProtocol, StopInput, StopOutput, StopBackend,
                             StopShell, StopDisplay, Next
  <1>5. CASE Exits BY <1>5 DEF Exits, Next
  <1>6. CASE UNCHANGED lives BY <1>6 DEF lives
  <1> QED BY <1>1, <1>2, <1>3, <1>4, <1>5, <1>6 DEF LifeNext

\* What the steps that only start and stop parts leave alone.
LEMMA PhaseKept == ASSUME UNCHANGED vars PROVE phase' = phase
  BY DEF vars

-----------------------------------------------------------------------------
PartsOK == LifeType /\ Whole /\ Stacked /\ Progress

LEMMA StartsOK == ASSUME PartsOK, Starts PROVE PartsOK'
  <1> USE DEF PartsOK, Has, Goes, NoHotplug
  <1>1. CASE Create
    <2> USE <1>1 DEF Create, Whole, Progress, Stacked
    <2>1. LifeType' BY DEF LifeType, Places
    <2>2. Whole' /\ Stacked' BY DEF Backend, Input, InputLinks
    <2>3. Progress' BY DEF Backend
    <2> QED BY <2>1, <2>2, <2>3
  <1>2. CASE StartBackend
    <2> USE <1>2 DEF StartBackend, Whole, Progress, Stacked
    <2>1. LifeType' BY DEF LifeType, Places
    <2>2. Whole' BY DEF Backend, Input, InputLinks
    <2>3. Stacked' BY DEF Backend
    <2>4. Progress' BY DEF Backend
    <2> QED BY <2>1, <2>2, <2>3, <2>4
  <1>3. CASE StartOutput
    <2> USE <1>3 DEF StartOutput, Whole, Progress, Stacked
    <2>1. LifeType' BY DEF LifeType, Places, Owner
    <2>2. Whole' BY DEF Backend, Input, InputLinks
    <2>3. Stacked' BY DEF Backend
    <2>4. Progress' OBVIOUS
    <2> QED BY <2>1, <2>2, <2>3, <2>4
  <1>4. CASE StartProtocol
    <2> USE <1>4 DEF StartProtocol, Whole, Progress, Stacked
    <2>1. LifeType' BY DEF LifeType, Places, Owner
    <2>2. Whole' BY DEF Backend, Input, InputLinks
    <2>3. Stacked' BY DEF Backend
    <2>4. Progress' OBVIOUS
    <2> QED BY <2>1, <2>2, <2>3, <2>4
  <1>5. CASE StartInput
    <2> USE <1>5 DEF StartInput, Whole, Progress, Stacked
    <2>1. LifeType' BY DEF LifeType, Places, Owner, Input
    <2>2. Whole' BY DEF Backend, Input, InputLinks
    <2>3. Stacked' BY DEF Input
    <2>4. Progress' BY DEF Input
    <2> QED BY <2>1, <2>2, <2>3, <2>4
  <1>6. CASE StartSocket
    BY <1>6 DEF StartSocket, Meets, LifeType, Places, Whole, Stacked, Progress
  <1>7. CASE StartShell
    BY <1>7 DEF StartShell, LifeType, Places, Whole, Stacked, Progress
  <1> QED BY <1>1, <1>2, <1>3, <1>4, <1>5, <1>6, <1>7 DEF Starts

LEMMA FailuresOK == ASSUME PartsOK, SupervisorOK, Failures PROVE PartsOK'
  <1> USE DEF PartsOK, Has, Goes, NoHotplug
  <1>1. CASE CreateFails
    <2> USE <1>1 DEF CreateFails, Whole, Stacked, Progress
    <2>1. LifeType' BY DEF LifeType, Places
    <2>2. Whole' BY DEF Backend, Input, InputLinks
    <2>3. Stacked' OBVIOUS
    <2>4. phase' = phase BY PhaseKept
    <2>5. made \subseteq {"compositor", "display"} /\ phase = "off" OBVIOUS
    <2>6. "new_input" \notin links BY <2>5 DEF Input
    <2>7. Progress' BY <2>4, <2>5, <2>6
    <2> QED BY <2>1, <2>2, <2>3, <2>7
  <1>2. CASE StartInputFails
    BY <1>2 DEF StartInputFails, LifeType, Places, Whole, Stacked, Progress, Backend, Input
  <1>3. CASE StartShellFails
    BY <1>3 DEF StartShellFails, LifeType, Places, Whole, Stacked, Progress
  <1>4. CASE PartFails
    BY <1>4 DEF PartFails, LifeType, Places, Whole, Stacked, Progress
  <1>5. CASE StartSocketFails
    BY <1>5 DEF StartSocketFails, Meets, LifeType, Places, Whole, Stacked, Progress
  <1> QED BY <1>1, <1>2, <1>3, <1>4, <1>5 DEF Failures

LEMMA LoopOK == ASSUME PartsOK, Loop \/ Exits \/ UNCHANGED lives PROVE PartsOK'
  <1> USE DEF PartsOK, LifeType, Places, Whole, Stacked, Progress
  <1>1. CASE \E x \in Outputs \cup Devices : Plug(x)
    BY <1>1 DEF Plug, Meets
  <1>2. CASE \E x \in Outputs \cup Devices : Unplug(x)
    BY <1>2 DEF Unplug
  <1>3. CASE Signalled \/ Framed \/ Forks
    BY <1>3 DEF Signalled, Framed, Forks, parts
  <1>4. CASE Terminates BY <1>4 DEF Terminates, Goes, NoHotplug
  <1>5. CASE Exits BY <1>5 DEF Exits, parts, ChildExits
  <1>6. CASE UNCHANGED lives BY <1>6 DEF lives, parts, vars
  <1> QED BY <1>1, <1>2, <1>3, <1>4, <1>5, <1>6 DEF Loop

LEMMA StopsOK == ASSUME PartsOK, SupervisorOK, Stops PROVE PartsOK'
  <1> USE DEF PartsOK, Drops, Goes, NoHotplug
  <1>1. CASE StopProtocol
    <2> USE <1>1 DEF StopProtocol, Whole, Stacked, Progress
    <2>1. LifeType' BY DEF LifeType, Places
    <2>2. Whole' BY DEF Backend, Input, InputLinks
    <2>3. Stacked' OBVIOUS
    <2>4. Progress' OBVIOUS
    <2> QED BY <2>1, <2>2, <2>3, <2>4
  <1>2. CASE StopInput
    <2> USE <1>2 DEF StopInput, Whole, Stacked, Progress
    <2>1. LifeType' BY DEF LifeType, Places
    <2>2. Whole' BY DEF Backend, Input, InputLinks
    <2>3. Stacked' BY DEF Input
    <2>4. Progress' BY DEF Input
    <2> QED BY <2>1, <2>2, <2>3, <2>4
  <1>3. CASE StopOutput
    <2> USE <1>3 DEF StopOutput, Whole, Stacked, Progress
    <2>1. LifeType' BY DEF LifeType, Places
    <2>2. Whole' BY DEF Backend, Input, InputLinks
    <2>3. Stacked' OBVIOUS
    <2>4. Progress' OBVIOUS
    <2> QED BY <2>1, <2>2, <2>3, <2>4
  <1>4. CASE StopBackend
    <2> USE <1>4 DEF StopBackend, Whole, Stacked, Progress
    <2>1. LifeType' BY DEF LifeType, Places
    <2>2. Whole' BY DEF Backend, Input, InputLinks
    <2>3. Stacked' BY DEF Backend
    <2>4. Progress' BY DEF Backend
    <2> QED BY <2>1, <2>2, <2>3, <2>4
  <1>5. CASE StopBackendCrashes
    BY <1>5 DEF StopBackendCrashes, LifeType, Places, Whole, Stacked, Progress, Input,
                InputLinks, Backend
  <1>6. CASE StopShell
    BY <1>6, PhaseKept DEF StopShell, Stop, LifeType, Places, Whole, Stacked, Progress
  <1>7. CASE StopDisplay
    <2> USE <1>7 DEF StopDisplay, Whole, Stacked, Progress
    <2>1. LifeType' BY DEF LifeType, Places
    <2>2. Whole' BY DEF Backend, Input, InputLinks
    <2>3. Stacked' OBVIOUS
    <2>4. Progress' BY PhaseKept
    <2> QED BY <2>1, <2>2, <2>3, <2>4
  <1> QED BY <1>1, <1>2, <1>3, <1>4, <1>5, <1>6, <1>7 DEF Stops

\* Only the two steps of the shell's start begin or end it.
LEMMA StartingStep ==
  ASSUME StartingThere, [LifeNext]_lives
  PROVE  StartingThere'
  <1> USE DEF StartingThere
  <1>1. CASE at = "shell"
    <2>1. CASE StartShell
      BY <1>1, <2>1 DEF StartShell, StartEnds, Goes
    <2>2. CASE StartShellFails
      BY <1>1, <2>2, PhaseKept DEF StartShellFails, StartFails, Goes
    <2>3. CASE Exits BY <1>1, <2>3 DEF Exits, parts
    <2>4. CASE UNCHANGED lives BY <1>1, <2>4 DEF lives, parts
    <2> QED BY <1>1, <2>1, <2>2, <2>3, <2>4
            DEF LifeNext, Starts, Failures, Loop, Stops, Create, StartBackend,
                StartOutput, StartProtocol, StartInput, StartSocket, CreateFails,
                StartInputFails, PartFails, StartSocketFails, Plug, Unplug,
                Signalled, Framed, Forks, Terminates, StopProtocol, StopInput,
                StopOutput, StopBackend, StopBackendCrashes, StopShell, StopDisplay
  <1>2. CASE at # "shell"
    <2>1. CASE phase' = phase BY <1>2, <2>1
    <2>2. CASE StopShell \/ StopBackendCrashes
      BY <1>2, <2>2, PhaseKept DEF StopShell, StopBackendCrashes, Stop
    <2>3. ~StartShell /\ ~StartShellFails
      BY <1>2 DEF StartShell, StartShellFails
    <2>4. Loop \/ Exits \/ UNCHANGED lives => phase' = phase
      BY PhaseKept
         DEF Loop, Plug, Unplug, Signalled, Framed, Forks, Terminates, Exits,
             ReapOnSignal, ReapOnFrame, ForkHelper, ChildExits, lives
    <2> QED BY <1>2, <2>1, <2>2, <2>3, <2>4, PhaseKept
            DEF LifeNext, Starts, Failures, Stops, Create, StartBackend, StartOutput,
                StartProtocol, StartInput, StartSocket, CreateFails,
                StartInputFails, PartFails, StartSocketFails, StopProtocol,
                StopInput, StopOutput, StopBackend, StopDisplay
  <1> QED BY <1>1, <1>2

LEMMA LifeStepOK == ASSUME LifeOK, [LifeNext]_lives PROVE LifeOK'
  <1>1. SupervisorOK' BY SupervisorStep, StepOK DEF LifeOK
  <1>2. PartsOK'
    BY StartsOK, FailuresOK, LoopOK, StopsOK DEF LifeOK, PartsOK, LifeNext
  <1>3. StartingThere' BY StartingStep DEF LifeOK
  <1> QED BY <1>1, <1>2, <1>3 DEF LifeOK, PartsOK

(***************************************************************************)
(* The inductive invariant of the whole: which parts go together, and what *)
(* of them is there, wherever main is.                                     *)
(***************************************************************************)
THEOREM LifeInvariant == LifeSpec => []LifeOK
  BY LifeInitOK, LifeStepOK, PTL DEF LifeSpec

-----------------------------------------------------------------------------
(***************************************************************************)
(* Nothing hangs on an object that is gone, at whichever part the start    *)
(* failed, for any outputs and devices.                                    *)
(***************************************************************************)
THEOREM LifeDangles == LifeSpec => []NothingDangles
  <1>1. LifeOK => NothingDangles
    <2> SUFFICES ASSUME LifeOK PROVE NothingDangles OBVIOUS
    <2> USE DEF LifeOK, LifeType, Whole, Stacked
    <2>1. "compositor" \in made \/ made \cap {"display", "backend", "scene"} = {}
      OBVIOUS
    <2>2. \A l \in links : {Owner[l], Emitter[l]} \subseteq made
      BY DEF Owner, Emitter, InputLinks, Input
    <2>3. \A u \in Uses : u[1] \in made => u[2] \in made
      BY DEF Uses, Backend, Input
    <2> QED BY <2>2, <2>3 DEF NothingDangles
  <1> QED BY <1>1, LifeInvariant, PTL

(***************************************************************************)
(* When main returns nothing is left of what was started but the children  *)
(* and, where there was no cursor, the keyboard of the OSK.                *)
(***************************************************************************)
THEOREM ChildrenAreLeft == LifeSpec => []StopLeavesOnlyChildren
  <1>1. LifeOK => StopLeavesOnlyChildren
    <2> SUFFICES ASSUME LifeOK, at = "gone"
                 PROVE  /\ made \subseteq {"osk_keyboard"} /\ links = {}
                        /\ wrapped = {} /\ attached = {}
                        /\ phase \notin {"starting", "running"}
                        /\ \A p \in Pids : life[p] # "free" =>
                             \/ kind[p] = "helper"
                             \/ kind[p] = "shell" /\ slot[0] = p /\ count = 0
      BY DEF StopLeavesOnlyChildren
    <2>1. /\ made \subseteq {"osk_keyboard"} /\ wrapped = {} /\ attached = {}
          /\ phase \notin {"starting", "running"}
      BY DEF LifeOK, LifeType, Whole, Stacked, Progress, StartingThere
    <2>2. links = {} BY DEF LifeOK, LifeType, Whole, Stacked, Progress, Owner, InputLinks
    <2>3. \A p \in Pids : life[p] # "free" =>
            \/ kind[p] = "helper"
            \/ kind[p] = "shell" /\ slot[0] = p /\ count = 0
      BY DEF LifeOK, SupervisorOK, SupervisorType, InSlot
    <2> QED BY <2>1, <2>2, <2>3
  <1> QED BY <1>1, LifeInvariant, PTL

(***************************************************************************)
(* The compositor implements its supervisor: what is proved of the one by  *)
(* itself holds of the whole.                                              *)
(***************************************************************************)
THEOREM LifeImplementsSupervisor == LifeSpec => Init /\ [][Next]_vars
  <1>1. LifeOK /\ [LifeNext]_lives => [Next]_vars BY SupervisorStep DEF LifeOK
  <1>2. LifeInit => Init BY DEF LifeInit
  <1> QED BY <1>1, <1>2, LifeInvariant, PTL DEF LifeSpec

(***************************************************************************)
(* In the whole compositor no exited child is missed.                      *)
(***************************************************************************)
THEOREM LifeSupervises == LifeSpec => []NoMissedExit
  <1>1. LifeOK => NoMissedExit BY DEF LifeOK, SupervisorOK
  <1> QED BY <1>1, LifeInvariant, PTL

(***************************************************************************)
(* Stopping the whole compositor kills no application and no helper, also  *)
(* where it crashes on the way.                                            *)
(***************************************************************************)
THEOREM LifeStopsHarmlessly == LifeSpec => StopSparesOthers
  <1> DEFINE Spares == phase = "running" /\ phase' = "stopped" =>
                \A p \in Pids : life[p] = "alive" /\ kind[p] = "helper"
                                  => life'[p] = "alive"
  <1>1. ASSUME SupervisorOK, [Next]_vars PROVE [Spares]_vars
    <2> SUFFICES ASSUME Next, phase = "running", phase' = "stopped"
                 PROVE  Spares
      BY <1>1
    <2>1. Stop
      BY DEF Next, Start, ForkShell, StartEnds, StartFails, ForkHelper, ChildExits, ReapOnSignal,
             ReapOnFrame
    <2>2. Terminated = {} BY <1>1, NothingCounted DEF SupervisorOK
    <2> QED BY <2>1, <2>2 DEF Stop
  <1> HIDE DEF Spares
  <1>2. LifeOK /\ [LifeNext]_lives => [Spares]_vars
    BY <1>1, SupervisorStep DEF LifeOK
  <1>3. LifeSpec => [][Spares]_vars BY <1>2, LifeInvariant, PTL DEF LifeSpec
  <1> QED BY <1>3 DEF Spares, StopSparesOthers

-----------------------------------------------------------------------------
(***************************************************************************)
(* Outputs and devices that are listened to are plugged in, and nothing is *)
(* plugged in without a backend.  An output's listeners are in its signals *)
(* exactly while its structure exists - but for one moment of the stop,    *)
(* between the outputs and the backend: that is where the signals of a     *)
(* backend's outputs run the handlers of structures that were freed        *)
(* (output.c:76-94, 131-176, 248-278, backend.c:187-214).                  *)
(***************************************************************************)
ListensToWhatIsThere ==
  /\ wrapped \cup hooked \cup attached \subseteq plugged
  /\ plugged # {} => "backend" \in made
  /\ at # "stop backend" => hooked = wrapped
  /\ at = "stop backend" => wrapped = {}

LEMMA ListensStep ==
  ASSUME PartsOK, SupervisorOK, ListensToWhatIsThere, [LifeNext]_lives
  PROVE  ListensToWhatIsThere'
  <1> USE DEF ListensToWhatIsThere, PartsOK
  <1>1. CASE Starts
    <2> USE DEF Has, Goes, NoHotplug, Progress, Stacked
    <2>1. CASE Create \/ StartBackend \/ StartOutput \/ StartProtocol \/ StartInput
      BY <2>1 DEF Create, StartBackend, StartOutput, StartProtocol, StartInput
    <2>2. CASE StartSocket BY <2>2 DEF StartSocket, Meets
    <2>3. CASE StartShell BY <2>3 DEF StartShell
    <2> QED BY <1>1, <2>1, <2>2, <2>3 DEF Starts
  <1>2. CASE Failures
    <2> USE DEF Has, Goes, NoHotplug, Progress, Stacked
    <2>1. CASE StartSocketFails BY <2>1 DEF StartSocketFails, Meets
    <2>2. CASE CreateFails \/ StartInputFails \/ StartShellFails \/ PartFails
      BY <2>2 DEF CreateFails, StartInputFails, StartShellFails, PartFails
    <2> QED BY <1>2, <2>1, <2>2 DEF Failures
  <1>3. CASE Loop
    <2> USE DEF Goes, NoHotplug, Progress
    <2>1. CASE \E x \in Outputs \cup Devices : Plug(x) BY <2>1 DEF Plug, Meets
    <2>2. CASE \E x \in Outputs \cup Devices : Unplug(x) BY <2>2 DEF Unplug
    <2>3. CASE Signalled \/ Framed \/ Forks \/ Terminates
      BY <2>3 DEF Signalled, Framed, Forks, Terminates, parts
    <2> QED BY <1>3, <2>1, <2>2, <2>3 DEF Loop
  <1>4. CASE Stops
    <2> USE DEF Drops, Goes, NoHotplug
    <2>1. CASE StopProtocol \/ StopInput
      BY <2>1 DEF StopProtocol, StopInput, Input
    <2>2. CASE StopOutput
      <3>1. "new_output" \notin links => wrapped = {} BY DEF Whole, Stacked
      <3> QED BY <2>2, <3>1 DEF StopOutput
    <2>3. CASE StopBackend BY <2>3 DEF StopBackend
    <2>4. CASE StopBackendCrashes BY <2>4 DEF StopBackendCrashes
    <2>5. CASE StopShell \/ StopDisplay
      BY <2>5 DEF StopShell, StopDisplay, Stop
    <2> QED BY <1>4, <2>1, <2>2, <2>3, <2>4, <2>5 DEF Stops
  <1>5. CASE Exits BY <1>5 DEF Exits, parts
  <1>6. CASE UNCHANGED lives BY <1>6 DEF lives, parts
  <1> QED BY <1>1, <1>2, <1>3, <1>4, <1>5, <1>6 DEF LifeNext

(***************************************************************************)
(* The outputs dangle nowhere but in that moment, for any outputs and      *)
(* devices and wherever the start failed.                                  *)
(***************************************************************************)
THEOREM OutputsDangleOnce == LifeSpec => []ListensToWhatIsThere
  <1>1. LifeInit => ListensToWhatIsThere BY DEF LifeInit, ListensToWhatIsThere
  <1>2. LifeOK /\ ListensToWhatIsThere /\ [LifeNext]_lives => ListensToWhatIsThere'
    BY ListensStep DEF LifeOK, PartsOK
  <1> QED BY <1>1, <1>2, LifeInvariant, PTL DEF LifeSpec
=============================================================================
