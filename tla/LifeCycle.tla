------------------------------ MODULE LifeCycle ------------------------------
(***************************************************************************)
(* The compositor from main to its end: the parts it starts one after the  *)
(* other, what a start that fails in the middle leaves to be undone, the   *)
(* outputs and devices that come and go, and the stop, which takes the     *)
(* parts down in another order (src/compositor/src/core/compositor.c,      *)
(* backend.c, output.c, input.c, protocol.c, xwayland.c).  The supervisor  *)
(* of the shell is its last part to be started.                            *)
(*                                                                         *)
(* Objects of wlroots and of the compositor are names in made; a listener  *)
(* is memory of the one and is linked into a signal of the other.          *)
(***************************************************************************)
EXTENDS ShellSupervisor

CONSTANTS Outputs, Devices

VARIABLES
  at,        \* the part that main starts or stops next, or "runs" or "gone"
  made,      \* the objects that exist
  links,     \* the listeners of the parts that are in a signal
  plugged,   \* the outputs and devices of the backend
  wrapped,   \* outputs with a struct lumo_output
  hooked,    \* outputs in whose signals that structure's listeners are
  attached   \* devices with a lumo_keyboard or lumo_input_device, which listens

parts == <<at, made, links, plugged, wrapped, hooked, attached>>
lives == <<vars, parts>>

LifeInit ==
  /\ Init
  /\ at = "main" /\ made = {} /\ links = {}
  /\ plugged = {} /\ wrapped = {} /\ hooked = {} /\ attached = {}

\* What the listeners of a part are memory of, and whose signals they are in.
Owner ==
  [new_output |-> "compositor", new_input |-> "compositor", cursor |-> "compositor",
   seat |-> "compositor", surfaces |-> "protocol_state", xwayland |-> "xwayland_state"]

Emitter ==
  [new_output |-> "backend", new_input |-> "backend", cursor |-> "cursor",
   seat |-> "seat", surfaces |-> "display", xwayland |-> "xwayland"]

Has(part) == made' = made \cup part
Drops(part) == made' = made \ part
Goes(next) == at' = next
NoHotplug == UNCHANGED <<plugged, wrapped, hooked, attached>>

-----------------------------------------------------------------------------
(* The start.  A part that fails undoes itself, and main undoes the others *)
(* by stopping all.                                                        *)

\* lumo_compositor_create, after arguments that main understands.
Create ==
  /\ at = "main" /\ Goes("backend")
  /\ Has({"compositor", "display"})
  /\ UNCHANGED <<links, vars>> /\ NoHotplug

CreateFails ==
  /\ at = "main" /\ Goes("gone")
  /\ UNCHANGED <<made, links, vars>> /\ NoHotplug

Backend == {"session", "backend", "renderer", "allocator"}

StartBackend ==
  /\ at = "backend" /\ Goes("output")
  /\ Has(Backend)
  /\ UNCHANGED <<links, vars>> /\ NoHotplug

StartOutput ==
  /\ at = "output" /\ Goes("protocol")
  /\ Has({"output_layout", "scene"}) /\ links' = links \cup {"new_output"}
  /\ UNCHANGED vars /\ NoHotplug

\* X11 is not needed.
StartProtocol ==
  /\ at = "protocol" /\ Goes("input")
  /\ \/ /\ Has({"protocol_state"}) /\ links' = links \cup {"surfaces"}
     \/ /\ Has({"protocol_state", "xwayland", "xwayland_state"})
        /\ links' = links \cup {"surfaces", "xwayland"}
  /\ UNCHANGED vars /\ NoHotplug

Input == {"seat", "xkb_context", "cursor", "cursor_mgr"}

\* The OSK has its keyboard unless memory is short.
StartInput ==
  /\ at = "input" /\ Goes("socket")
  /\ Has(Input) \/ Has(Input \cup {"osk_keyboard"})
  /\ links' = links \cup {"new_input", "cursor", "seat"}
  /\ UNCHANGED vars /\ NoHotplug

\* Without a cursor the keyboard of the OSK is left.
StartInputFails ==
  /\ at = "input" /\ Goes("stop protocol")
  /\ Has({}) \/ Has({"osk_keyboard"})
  /\ UNCHANGED <<links, vars>> /\ NoHotplug

\* lumo_output_add and the attach functions may leave something alone.
Meets(P) ==
  /\ plugged' = plugged \cup P
  /\ \E W \in SUBSET (P \cap Outputs), A \in SUBSET (P \cap Devices) :
       /\ wrapped' = wrapped \cup W /\ hooked' = hooked \cup W
       /\ attached' = attached \cup A

\* The socket is added and the backend announces what is plugged in.
StartSocket ==
  /\ at = "socket" /\ Goes("shell")
  /\ \E P \in SUBSET (Outputs \cup Devices) : Meets(P)
  /\ UNCHANGED <<made, links, vars>>

StartShell ==
  /\ at = "shell"
  /\ \/ (Start \/ ForkShell) /\ UNCHANGED at
     \/ StartEnds /\ Goes("runs")
  /\ UNCHANGED <<made, links>> /\ NoHotplug

StartShellFails ==
  /\ at = "shell" /\ Goes("stop protocol")
  /\ StartFails \/ (phase = "off" /\ UNCHANGED vars)
  /\ UNCHANGED <<made, links>> /\ NoHotplug

\* Nothing of the part is left.
PartFails ==
  /\ at \in {"backend", "output", "protocol"} /\ Goes("stop protocol")
  /\ UNCHANGED <<made, links, vars>> /\ NoHotplug

\* The backend may have announced something before it failed.
StartSocketFails ==
  /\ at = "socket" /\ Goes("stop protocol")
  /\ \E P \in SUBSET (Outputs \cup Devices) : Meets(P)
  /\ UNCHANGED <<made, links, vars>>

-----------------------------------------------------------------------------
(* The event loop.                                                         *)

Plug(x) ==
  /\ at = "runs" /\ x \notin plugged
  /\ Meets({x})
  /\ UNCHANGED <<at, made, links, vars>>

\* The signals of what is gone run the handlers that are in them.
Unplug(x) ==
  /\ at = "runs" /\ x \in plugged
  /\ plugged' = plugged \ {x}
  /\ wrapped' = wrapped \ {x} /\ hooked' = hooked \ {x} /\ attached' = attached \ {x}
  /\ UNCHANGED <<at, made, links, vars>>

\* SIGCHLD is read; a frame of an output.
Signalled == at = "runs" /\ ReapOnSignal /\ UNCHANGED parts

Framed == at = "runs" /\ wrapped # {} /\ ReapOnFrame /\ UNCHANGED parts

Forks == at = "runs" /\ ForkHelper /\ UNCHANGED parts

\* Children exit whatever the compositor does.
Exits == at # "gone" /\ ChildExits /\ UNCHANGED parts

\* lumo_compositor_stop, which reload_session asks for.
Terminates ==
  /\ at = "runs" /\ Goes("stop protocol")
  /\ UNCHANGED <<made, links, vars>> /\ NoHotplug

-----------------------------------------------------------------------------
(* The stop; each part looks whether it was started.                       *)

StopProtocol ==
  /\ at = "stop protocol" /\ Goes("stop input")
  /\ Drops({"protocol_state", "xwayland", "xwayland_state"})
  /\ links' = links \ {"surfaces", "xwayland"}
  /\ UNCHANGED vars /\ NoHotplug

\* The wrappers of devices stay until the devices go.
StopInput ==
  /\ at = "stop input" /\ Goes("stop output")
  /\ IF "new_input" \in links
     THEN Drops(Input \cup {"osk_keyboard"}) /\ links' = links \ {"new_input", "cursor", "seat"}
     ELSE UNCHANGED <<made, links>>
  /\ UNCHANGED vars /\ NoHotplug

\* Mutant: the listener for new outputs stays.
StopOutput_KeepsListener ==
  /\ at = "stop output" /\ Goes("stop backend")
  /\ Drops({"output_layout", "scene"}) /\ UNCHANGED links
  /\ IF "new_output" \in links THEN wrapped' = {} ELSE UNCHANGED wrapped
  /\ UNCHANGED <<plugged, hooked, attached, vars>>

\* The structures of the outputs are freed.
StopOutput ==
  /\ at = "stop output" /\ Goes("stop backend")
  /\ IF "new_output" \in links
     THEN /\ Drops({"output_layout", "scene"}) /\ links' = links \ {"new_output"}
          /\ wrapped' = {}
     ELSE UNCHANGED <<made, links, wrapped>>
  /\ UNCHANGED <<plugged, hooked, attached, vars>>

\* The backend goes with its outputs and devices.
StopBackend ==
  /\ at = "stop backend" /\ Goes("stop shell")
  /\ Drops(Backend)
  /\ plugged' = {} /\ hooked' = {} /\ attached' = {}
  /\ UNCHANGED <<links, wrapped, vars>>

\* A handler that runs on memory that was freed may end the process, whose
\* children the system takes over.
StopBackendCrashes ==
  /\ at = "stop backend" /\ hooked \ wrapped # {} /\ Goes("gone")
  /\ made' = {} /\ links' = {}
  /\ plugged' = {} /\ wrapped' = {} /\ hooked' = {} /\ attached' = {}
  /\ phase' = "stopped" /\ UNCHANGED <<attempt, slot, count, life, kind, signal>>

StopShell ==
  /\ at = "stop shell" /\ Goes("stop display")
  /\ \/ Stop
     \/ phase # "running" /\ UNCHANGED vars
  /\ UNCHANGED <<made, links>> /\ NoHotplug

StopDisplay ==
  /\ at = "stop display" /\ Goes("gone")
  /\ Drops({"compositor", "display"})
  /\ UNCHANGED <<links, vars>> /\ NoHotplug

-----------------------------------------------------------------------------
Starts ==
  \/ Create \/ StartBackend \/ StartOutput \/ StartProtocol \/ StartInput
  \/ StartSocket \/ StartShell

Failures == CreateFails \/ StartInputFails \/ StartShellFails \/ PartFails
  \/ StartSocketFails

Loop ==
  \/ \E x \in Outputs \cup Devices : Plug(x) \/ Unplug(x)
  \/ Signalled \/ Framed \/ Forks \/ Terminates

Stops ==
  \/ StopProtocol \/ StopInput \/ StopOutput \/ StopBackend \/ StopBackendCrashes
  \/ StopShell \/ StopDisplay

LifeNext == Starts \/ Failures \/ Loop \/ Stops \/ Exits

\* The start and the stop run through, waiting for nobody longer than a
\* second, and the event loop dispatches a readable signal descriptor.
LifeSpec ==
  /\ LifeInit /\ [][LifeNext]_lives
  /\ WF_lives(Starts) /\ WF_lives(Signalled) /\ WF_lives(Stops)

-----------------------------------------------------------------------------
\* What cannot exist without the other.
Uses ==
  {<<"renderer", "backend">>, <<"allocator", "renderer">>, <<"backend", "display">>,
   <<"scene", "output_layout">>, <<"cursor", "output_layout">>, <<"protocol_state", "scene">>,
   <<"xwayland", "display">>, <<"seat", "display">>}

(***************************************************************************)
(* No listener is left in the signal of an object that is gone, or was     *)
(* memory of one, and no object outlives what it uses - at whichever part  *)
(* the start failed, and although parts are stopped in another order than  *)
(* the reverse of their start (compositor.c:237-254, backend.c:187-214).   *)
(* That of outputs is not so: see FreedOutputsAreSilent.                   *)
(***************************************************************************)
NothingDangles ==
  /\ \A l \in links : {Owner[l], Emitter[l]} \subseteq made
  /\ \A u \in Uses : u[1] \in made => u[2] \in made
  /\ wrapped # {} => {"output_layout", "scene"} \subseteq made

(***************************************************************************)
(* What is left when main returns, how far the start had come and whatever *)
(* was plugged in: the keyboard of the OSK where the cursor could not be   *)
(* created (input.c:1233-1243), and the children, of which the stop ends   *)
(* none.  The shell among them is the one that slot 0 still names; it is   *)
(* not terminated because count never covers that slot (shell_launch.c:595,*)
(* 673-721).  Helpers are in no slot.  All else is undone                  *)
(* (compositor.c:237-263, main.c:100-109).                                 *)
(***************************************************************************)
StopLeavesOnlyChildren ==
  at = "gone" =>
    /\ made \subseteq {"osk_keyboard"} /\ links = {}
    /\ wrapped = {} /\ attached = {} /\ phase \notin {"starting", "running"}
    /\ \A p \in Pids : life[p] # "free" =>
         \/ kind[p] = "helper"
         \/ kind[p] = "shell" /\ slot[0] = p /\ count = 0

-----------------------------------------------------------------------------
(***************************************************************************)
(* docs/lumo-security-audit.md:101-102, CHANGELOG.md:981: the outputs that *)
(* were left dangling by a shutdown are unlinked and freed.  Their         *)
(* listeners stay in the signals of the backend's outputs.                 *)
(***************************************************************************)
FreedOutputsAreSilent == hooked \subseteq wrapped
=============================================================================
