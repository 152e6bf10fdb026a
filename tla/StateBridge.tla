----------------------------- MODULE StateBridge -----------------------------
(***************************************************************************)
(* How the shell learns the compositor's state and how it names windows    *)
(* back (src/compositor/src/shell/shell_bridge.c and                       *)
(* shell_protocol_client.c).  A change that is marked dirty arms one idle  *)
(* source; the broadcast it runs builds one frame for all clients.  A new  *)
(* client is sent a snapshot through a smaller buffer.  A window is named  *)
(* by its index in the list of the last frame the shell has read.          *)
(*                                                                         *)
(* A state is its version, one for every change, and the list of windows;  *)
(* the length of its frame is counted in units of one window with a short  *)
(* title, and the socket's buffer in frames.                               *)
(***************************************************************************)
EXTENDS Naturals, FiniteSets, SequencesExt

CONSTANTS
  Windows,        \* applications
  Clients,        \* shell processes; each connects once (shell_client.c:1336)
  ListedApps,     \* windows that a state frame lists: 16
  SnapshotRoom,   \* units that fit into send_frame's 1024 bytes
  BroadcastRoom,  \* units that fit into broadcast_state's 2048 bytes
  Capacity,       \* frames a socket holds that its client has not read
  MaxVersion,     \* bound: changes of the state
  MaxRequests     \* bound: requests under way from one client

ASSUME BridgeAssumption ==
  /\ ListedApps \in Nat /\ SnapshotRoom \in Nat /\ BroadcastRoom \in Nat
  /\ Capacity \in Nat \ {0} /\ MaxVersion \in Nat /\ MaxRequests \in Nat

VARIABLES
  version,    \* the changes so far
  marked,     \* the last change that was marked dirty
  toplevels,  \* compositor->toplevels, newest first
  long,       \* windows with a long title
  pending,    \* state_broadcast_pending
  source,     \* state_broadcast_source # NULL
  clients,    \* bridge.clients
  link,       \* the client's state_fd: "new", "up" or "lost"
  toShell,    \* frames sent to each client and not read yet
  view,       \* the state each client has applied, as a set of one or none
  requests,   \* requests of each client that are not served yet
  torn        \* clients that an answer was written to in part

compositorVars == <<version, marked, toplevels, long, pending, source>>
shellVars == <<clients, link, toShell, view, requests, torn>>
vars == <<version, marked, toplevels, long, pending, source,
          clients, link, toShell, view, requests, torn>>

-----------------------------------------------------------------------------
(* Frames.                                                                 *)

Listed == [i \in {j \in DOMAIN toplevels : j <= ListedApps} |-> toplevels[i]]

Weight ==
  LET listed == {Listed[i] : i \in DOMAIN Listed}
  IN  Cardinality(listed) + Cardinality(listed \cap long)

StateFrame == [kind |-> "state", version |-> version, apps |-> Listed]
Response == [kind |-> "response"]
Torn == [kind |-> "torn"]      \* the first bytes of a response

\* Of what is not read yet, the whole frames.
Whole(c) == SelectSeq(toShell[c], LAMBDA f : f # Torn)

\* A write succeeds if the client is there and reads within 50 ms.
CanWrite(c) == link[c] = "up" /\ Len(Whole(c)) < Capacity

Init ==
  /\ version = 0 /\ marked = 0
  /\ toplevels = <<>> /\ long = {}
  /\ pending = FALSE /\ source = FALSE
  /\ clients = {}
  /\ link = [c \in Clients |-> "new"]
  /\ toShell = [c \in Clients |-> <<>>]
  /\ view = [c \in Clients |-> {}]
  /\ requests = [c \in Clients |-> <<>>]
  /\ torn = {}

-----------------------------------------------------------------------------
(* What changes the state.                                                 *)

Bump == version < MaxVersion /\ version' = version + 1

\* lumo_shell_mark_state_dirty, after a change of this step.
MarkDirty == marked' = version' /\ pending' = TRUE /\ source' = TRUE

\* Any setter that changes a flag of the frame.
Change ==
  /\ Bump /\ MarkDirty
  /\ UNCHANGED <<toplevels, long, shellVars>>

\* A window goes to the head of the list; nothing is marked.
NewToplevel ==
  /\ Bump
  /\ \E w \in Windows : /\ \A i \in DOMAIN toplevels : toplevels[i] # w
                        /\ toplevels' = <<w>> \o toplevels
  /\ UNCHANGED <<marked, long, pending, source, shellVars>>

DestroyToplevel ==
  /\ Bump /\ MarkDirty
  /\ \E i \in DOMAIN toplevels :
       /\ toplevels' = RemoveAt(toplevels, i)
       /\ long' = long \ {toplevels[i]}
  /\ UNCHANGED shellVars

\* A new title, listed but not marked.
SetTitle ==
  /\ Bump
  /\ \E i \in DOMAIN toplevels :
       long' \in {long \cup {toplevels[i]}, long \ {toplevels[i]}}
  /\ UNCHANGED <<marked, toplevels, pending, source, shellVars>>

-----------------------------------------------------------------------------
(* Broadcasts.                                                             *)

\* Mutants: the flag is cleared whether or not the frame could be built; the
\* loop over the clients ends with the first that is removed.
Broadcast_ClearsFirst ==
  /\ pending' = FALSE
  /\ LET fits == Weight <= BroadcastRoom IN
     /\ clients' = {c \in clients : fits => CanWrite(c)}
     /\ toShell' = [c \in Clients |->
                      IF fits /\ c \in clients' THEN Append(toShell[c], StateFrame)
                      ELSE toShell[c]]
     /\ requests' = [c \in Clients |-> IF c \in clients' THEN requests[c] ELSE <<>>]

Broadcast_StopsAtRemoval ==
  /\ Weight <= BroadcastRoom
  /\ pending' = FALSE
  /\ clients' = {c \in clients : CanWrite(c)}
  /\ toShell' = [c \in Clients |->
                   IF clients' = clients /\ c \in clients
                   THEN Append(toShell[c], StateFrame) ELSE toShell[c]]
  /\ requests' = [c \in Clients |-> IF c \in clients' THEN requests[c] ELSE <<>>]

\* A frame that cannot be built or formatted is left for a later attempt.  A
\* client that cannot be written to is removed, unread requests included.
Broadcast ==
  \/ /\ Weight > BroadcastRoom
     /\ UNCHANGED <<pending, clients, toShell, requests>>
  \/ /\ Weight <= BroadcastRoom
     /\ pending' = FALSE
     /\ clients' = {c \in clients : CanWrite(c)}
     /\ toShell' = [c \in Clients |->
                      IF c \in clients' THEN Append(toShell[c], StateFrame)
                      ELSE toShell[c]]
     /\ requests' = [c \in Clients |->
                       IF c \in clients' THEN requests[c] ELSE <<>>]

BroadcastIdle ==
  /\ source
  /\ source' = FALSE
  /\ IF pending THEN Broadcast
     ELSE UNCHANGED <<pending, clients, toShell, requests>>
  /\ UNCHANGED <<version, marked, toplevels, long, link, view, torn>>

\* lumo_shell_autostart_poll, before an output frame.
Frame ==
  /\ pending /\ Broadcast
  /\ UNCHANGED <<version, marked, toplevels, long, source, link, view, torn>>

-----------------------------------------------------------------------------
(* The two ends of a connection.                                           *)

\* connect, accept, hello and the snapshot, which is lost when it is too long.
Accept(c) ==
  /\ link[c] = "new"
  /\ link' = [link EXCEPT ![c] = "up"]
  /\ clients' = clients \cup {c}
  /\ toShell' = [toShell EXCEPT ![c] =
                   IF Weight <= SnapshotRoom THEN <<StateFrame>> ELSE <<>>]
  /\ UNCHANGED <<compositorVars, view, requests, torn>>

\* Frames are read in order.  A torn one runs into the frame that comes after
\* it: the parser refuses the line they meet in, and the client closes its end
\* for good, or, torn in the middle of a value, takes all of the next frame for
\* the rest of the answer.
Read(c) ==
  /\ link[c] = "up" /\ toShell[c] # <<>>
  /\ \/ /\ Head(toShell[c]).kind = "state"
        /\ view' = [view EXCEPT ![c] = {Head(toShell[c])}]
        /\ toShell' = [toShell EXCEPT ![c] = Tail(@)]
        /\ UNCHANGED link
     \/ /\ Head(toShell[c]).kind = "response"
        /\ toShell' = [toShell EXCEPT ![c] = Tail(@)]
        /\ UNCHANGED <<link, view>>
     \/ /\ Head(toShell[c]).kind = "torn" /\ Tail(toShell[c]) # <<>>
        /\ \/ /\ toShell' = [toShell EXCEPT ![c] = <<>>]
              /\ link' = [link EXCEPT ![c] = "lost"]
           \/ /\ toShell' = [toShell EXCEPT ![c] = Tail(Tail(@))]
              /\ UNCHANGED link
        /\ UNCHANGED view
  /\ UNCHANGED <<compositorVars, clients, requests, torn>>

\* End of file after the compositor removed the client.
ReadEnd(c) ==
  /\ link[c] = "up" /\ c \notin clients /\ toShell[c] \in {<<>>, <<Torn>>}
  /\ link' = [link EXCEPT ![c] = "lost"]
  /\ toShell' = [toShell EXCEPT ![c] = <<>>]
  /\ UNCHANGED <<compositorVars, clients, view, requests, torn>>

\* The shell process ends.
Exit(c) ==
  /\ link[c] = "up"
  /\ link' = [link EXCEPT ![c] = "lost"]
  /\ toShell' = [toShell EXCEPT ![c] = <<>>]
  /\ UNCHANGED <<compositorVars, clients, view, requests, torn>>

\* The compositor reads the end of file of a client that is gone.
HangUp(c) ==
  /\ c \in clients /\ link[c] = "lost" /\ requests[c] = <<>>
  /\ clients' = clients \ {c}
  /\ UNCHANGED <<compositorVars, link, toShell, view, requests, torn>>

-----------------------------------------------------------------------------
(* Requests that name a window by its index.                               *)

\* A tap on an icon of the sidebar, or a choice of its context menu.
Tap(c) ==
  /\ link[c] = "up" /\ c \in clients
  /\ Len(requests[c]) < MaxRequests
  /\ \E s \in view[c], op \in {"focus", "close", "new"} :
       \E i \in DOMAIN s.apps :
         requests' = [requests EXCEPT ![c] =
                        Append(@, [op |-> op, index |-> i])]
  /\ UNCHANGED <<compositorVars, clients, link, toShell, view, torn>>

\* The window at an index of the list as it is now.
Resolve(i) == IF i \in DOMAIN toplevels THEN {toplevels[i]} ELSE {}

\* The answer to a request; when it cannot be written whole the client stays,
\* with or without the first part of it.
Respond(c) ==
  \/ /\ CanWrite(c)
     /\ toShell' = [toShell EXCEPT ![c] = Append(@, Response)]
     /\ UNCHANGED torn
  \/ ~CanWrite(c) /\ UNCHANGED <<toShell, torn>>
  \/ /\ ~CanWrite(c) /\ link[c] = "up"
     /\ toShell' = IF Last(toShell[c]) = Torn THEN toShell
                   ELSE [toShell EXCEPT ![c] = Append(@, Torn)]
     /\ torn' = torn \cup {c}

\* focus_app, and new_window of an application that has several, change flags
\* of the interface unless they are as wanted already; close_app only sends a
\* close request.
Serve(c) ==
  /\ c \in clients /\ requests[c] # <<>>
  /\ LET r == Head(requests[c]) IN
     \/ r.op # "close" /\ Resolve(r.index) # {} /\ Bump /\ MarkDirty
     \/ UNCHANGED <<version, marked, pending, source>>
  /\ requests' = [requests EXCEPT ![c] = Tail(@)]
  /\ Respond(c)
  /\ UNCHANGED <<toplevels, long, clients, link, view>>

-----------------------------------------------------------------------------
Next ==
  \/ Change \/ NewToplevel \/ DestroyToplevel \/ SetTitle
  \/ BroadcastIdle \/ Frame
  \/ \E c \in Clients :
       \/ Accept(c) \/ Read(c) \/ ReadEnd(c) \/ Exit(c) \/ HangUp(c)
       \/ Tap(c) \/ Serve(c)

\* Idle sources run before the event loop blocks; outputs draw frames, if only
\* because the shell redraws its clock; a shell reads its socket.
Spec ==
  /\ Init /\ [][Next]_vars
  /\ WF_vars(BroadcastIdle) /\ WF_vars(Frame)
  /\ \A c \in Clients : WF_vars(Read(c)) /\ WF_vars(ReadEnd(c))

-----------------------------------------------------------------------------
\* The states that a client has, or has still to read.
SentTo(c) ==
  view[c] \cup
    {s \in {toShell[c][i] : i \in DOMAIN toShell[c]} : s.kind = "state"}

(***************************************************************************)
(* The dirty flag tells the truth: while it is clear, every client that    *)
(* was sent a state at all was sent the last change that was marked, over  *)
(* failed broadcasts, removals and clients that come in between            *)
(* (shell_bridge.c:298-388).  A client that an answer was torn for may     *)
(* have swallowed it: nobody marks that state again (shell_bridge.c:425).  *)
(***************************************************************************)
CleanMeansSent ==
  ~pending => \A c \in clients \ torn :
    link[c] = "up" /\ SentTo(c) # {} => \E s \in SentTo(c) : s.version >= marked

(***************************************************************************)
(* A change that is marked reaches every connected client, or the client   *)
(* is dropped; only a state too long for the buffer or an answer that was  *)
(* torn holds it up (shell_bridge.c:311-388, 425, shell_launch.c:628-643). *)
(***************************************************************************)
ChangesArrive ==
  \A c \in Clients, v \in 0 .. MaxVersion :
    pending /\ marked = v /\ c \in clients
      ~> \/ \E s \in view[c] : s.version >= v
         \/ c \notin clients \/ link[c] = "lost"
         \/ Weight > BroadcastRoom \/ c \in torn

(***************************************************************************)
(* A shell never goes back: what it applies next is not older than what it *)
(* shows, although snapshots, broadcasts of the idle source and those of   *)
(* an output's frame are sent from different places and torn answers take  *)
(* frames out of the stream (shell_bridge.c:298-388,                       *)
(* shell_protocol_client.c:689).                                           *)
(***************************************************************************)
ShellsNeverGoBack ==
  [][\A c \in Clients : view'[c] # view[c] =>
       \A s \in view[c], t \in view'[c] : s.version <= t.version]_vars
=============================================================================
