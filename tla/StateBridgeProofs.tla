-------------------------- MODULE StateBridgeProofs --------------------------
(***************************************************************************)
(* The dirty flag of the bridge tells the truth, for any number of shells, *)
(* windows and changes and for buffers of any size.  That the newest frame *)
(* was sent is of use only because it is also the last one to be read: the *)
(* invariant orders what was read before what is under way, and that among *)
(* itself.                                                                 *)
(***************************************************************************)
EXTENDS StateBridge, TLAPS

\* The lists of windows a frame can carry.
Lists == UNION {[D -> Windows] : D \in SUBSET Nat}

States == [kind : {"state"}, version : Nat, apps : Lists]
Frames == States \cup {Response, Torn}

BridgeType ==
  /\ version \in Nat /\ marked \in Nat /\ marked <= version
  /\ toplevels \in Seq(Windows)
  /\ pending \in BOOLEAN
  /\ clients \subseteq Clients
  /\ link \in [Clients -> {"new", "up", "lost"}]
  /\ toShell \in [Clients -> Seq(Frames)]
  /\ view \in [Clients -> SUBSET States]

\* q is under way to a client that has read v, at version n: the states in q
\* come in order, none is older than v, and none is newer than n.
InOrder(q, v, n) ==
  /\ \A i, j \in DOMAIN q :
       i < j /\ q[i].kind = "state" /\ q[j].kind = "state"
         => q[i].version <= q[j].version
  /\ \A i \in DOMAIN q : q[i].kind = "state" =>
       /\ q[i].version <= n
       /\ \A s \in v : s.version <= q[i].version
  /\ \A s \in v : s.version <= n

FramesInOrder == \A c \in Clients : InOrder(toShell[c], view[c], version)

\* A client that has not connected was sent nothing.
NewIsEmpty == \A c \in Clients : link[c] = "new" => view[c] = {}

\* Of the states in q and v one has change m, if there is any.
HasChange(q, v, m) ==
  LET sent == v \cup {s \in {q[i] : i \in DOMAIN q} : s.kind = "state"}
  IN  sent # {} => \E s \in sent : s.version >= m

\* Part of an answer is under way only to clients that are known to have one.
NothingTorn(q) == \A i \in DOMAIN q : q[i].kind # "torn"

TornAreKnown == \A c \in Clients \ torn : NothingTorn(toShell[c])

BridgeOK ==
  BridgeType /\ FramesInOrder /\ NewIsEmpty /\ TornAreKnown /\ CleanMeansSent

-----------------------------------------------------------------------------
(* The queue of one client.                                                *)

LEMMA StateFrameType == BridgeType => StateFrame \in States
  <1> SUFFICES ASSUME BridgeType PROVE StateFrame \in States OBVIOUS
  <1> DEFINE D == {j \in DOMAIN toplevels : j <= ListedApps}
  <1>1. D \in SUBSET Nat BY DEF BridgeType
  <1>2. Listed \in [D -> Windows] BY DEF BridgeType, Listed
  <1>3. Listed \in Lists BY <1>1, <1>2 DEF Lists
  <1> QED BY <1>3 DEF BridgeType, StateFrame, States

LEMMA RemoveAtType ==
  ASSUME NEW S, NEW s \in Seq(S), NEW i \in DOMAIN s
  PROVE  RemoveAt(s, i) \in Seq(S)
  <1>1. SubSeq(s, 1, i - 1) \in Seq(S) OBVIOUS
  <1>2. SubSeq(s, i + 1, Len(s)) \in Seq(S) OBVIOUS
  <1> QED BY <1>1, <1>2 DEF RemoveAt

LEMMA EmptyQueue ==
  ASSUME NEW v \in SUBSET States, NEW n \in Nat, \A s \in v : s.version <= n
  PROVE  InOrder(<<>>, v, n)
  BY DEF InOrder

\* A new client: a snapshot, or nothing.
LEMMA FirstFrame ==
  ASSUME NEW f \in States
  PROVE  /\ InOrder(<<f>>, {}, f.version)
         /\ \A m \in Nat : m <= f.version => HasChange(<<f>>, {}, m)
         /\ \A n \in Nat : InOrder(<<>>, {}, n)
         /\ \A m \in Nat : HasChange(<<>>, {}, m)
  <1>1. f.version \in Nat BY DEF States
  <1>2. InOrder(<<f>>, {}, f.version) BY <1>1 DEF InOrder
  <1>3. ASSUME NEW m \in Nat, m <= f.version PROVE HasChange(<<f>>, {}, m)
    <2>1. 1 \in DOMAIN <<f>> /\ <<f>>[1] = f OBVIOUS
    <2>2. f.kind = "state" BY DEF States
    <2> QED BY <1>1, <1>3, <2>1, <2>2 DEF HasChange
  <1>4. \A n \in Nat : InOrder(<<>>, {}, n) BY DEF InOrder
  <1>5. \A m \in Nat : HasChange(<<>>, {}, m) BY DEF HasChange
  <1> QED BY <1>2, <1>3, <1>4, <1>5

\* Time passes for a queue.
LEMMA LaterVersion ==
  ASSUME NEW q \in Seq(Frames), NEW v \in SUBSET States,
         NEW n \in Nat, NEW k \in Nat, n <= k, InOrder(q, v, n)
  PROVE  InOrder(q, v, k)
  <1>1. ASSUME NEW i \in DOMAIN q, q[i].kind = "state" PROVE q[i].version \in Nat
    <2>1. q[i] \in Frames OBVIOUS
    <2> QED BY <1>1, <2>1 DEF Frames, States, Response, Torn
  <1>2. \A s \in v : s.version \in Nat BY DEF States
  <1> QED BY <1>1, <1>2 DEF InOrder

LEMMA AppendFacts ==
  ASSUME NEW q \in Seq(Frames), NEW f \in Frames
  PROVE  /\ Append(q, f) \in Seq(Frames)
         /\ DOMAIN Append(q, f) = DOMAIN q \cup {Len(q) + 1}
         /\ \A i \in DOMAIN q : Append(q, f)[i] = q[i] /\ i < Len(q) + 1
         /\ Append(q, f)[Len(q) + 1] = f
         /\ Len(q) + 1 \notin DOMAIN q
  OBVIOUS

\* The current state is appended.
LEMMA AppendState ==
  ASSUME NEW q \in Seq(Frames), NEW v \in SUBSET States, NEW f \in States,
         InOrder(q, v, f.version)
  PROVE  /\ InOrder(Append(q, f), v, f.version)
         /\ \A m \in Nat : m <= f.version => HasChange(Append(q, f), v, m)
  <1> f \in Frames /\ f.version \in Nat /\ f.kind = "state" BY DEF Frames, States
  <1> DEFINE p == Append(q, f)
             last == Len(q) + 1
  <1>1. /\ DOMAIN p = DOMAIN q \cup {last} /\ p[last] = f
        /\ \A i \in DOMAIN q : p[i] = q[i] /\ i < last /\ ~(last < i)
    BY AppendFacts
  <1>2. ~(last < last) OBVIOUS
  <1> HIDE DEF p, last
  <1>3. InOrder(p, v, f.version)
    <2>1. ASSUME NEW i \in DOMAIN p, NEW j \in DOMAIN p,
                 i < j, p[i].kind = "state", p[j].kind = "state"
          PROVE  p[i].version <= p[j].version
      BY <2>1, <1>1, <1>2 DEF InOrder
    <2>2. ASSUME NEW i \in DOMAIN p, p[i].kind = "state"
          PROVE  /\ p[i].version <= f.version
                 /\ \A s \in v : s.version <= p[i].version
      BY <2>2, <1>1 DEF InOrder
    <2> QED BY <2>1, <2>2 DEF InOrder
  <1>4. ASSUME NEW m \in Nat, m <= f.version PROVE HasChange(p, v, m)
    <2>1. last \in DOMAIN p /\ p[last] = f BY <1>1
    <2>2. f.version >= m BY <1>4
    <2> QED BY <2>1, <2>2 DEF HasChange
  <1> QED BY <1>3, <1>4 DEF p

\* An answer to a request is appended, whole or torn.
LEMMA AppendOther ==
  ASSUME NEW q \in Seq(Frames), NEW v \in SUBSET States, NEW n \in Nat,
         NEW m \in Nat, NEW f \in {Response, Torn}
  PROVE  /\ InOrder(q, v, n) => InOrder(Append(q, f), v, n)
         /\ HasChange(q, v, m) => HasChange(Append(q, f), v, m)
  <1> f \in Frames /\ f.kind # "state" BY DEF Frames, Response, Torn
  <1> DEFINE p == Append(q, f)
             last == Len(q) + 1
  <1>1. /\ DOMAIN p = DOMAIN q \cup {last} /\ p[last] = f
        /\ \A i \in DOMAIN q : p[i] = q[i]
    BY AppendFacts
  <1> HIDE DEF p, last
  <1>2. InOrder(q, v, n) => InOrder(p, v, n) BY <1>1 DEF InOrder
  <1>3. {s \in {p[i] : i \in DOMAIN p} : s.kind = "state"}
          = {s \in {q[i] : i \in DOMAIN q} : s.kind = "state"}
    BY <1>1
  <1>4. HasChange(q, v, m) => HasChange(p, v, m) BY <1>3 DEF HasChange
  <1> QED BY <1>2, <1>4 DEF p

LEMMA TailFacts ==
  ASSUME NEW q \in Seq(Frames), q # <<>>
  PROVE  /\ Tail(q) \in Seq(Frames) /\ Head(q) = q[1] /\ 1 \in DOMAIN q
         /\ \A i \in DOMAIN Tail(q) : /\ i + 1 \in DOMAIN q /\ 1 < i + 1
                                      /\ Tail(q)[i] = q[i + 1] /\ i \in Nat
         /\ \A i \in DOMAIN q : i = 1 \/ (i - 1 \in DOMAIN Tail(q)
                                          /\ Tail(q)[i - 1] = q[i])
  OBVIOUS

LEMMA WholeFrames ==
  ASSUME NEW q \in Seq(Frames), NothingTorn(q)
  PROVE  /\ q # <<>> => NothingTorn(Tail(q)) /\ Head(q).kind # "torn"
         /\ \A f \in Frames : f.kind # "torn" => NothingTorn(Append(q, f))
  <1>1. ASSUME q # <<>> PROVE NothingTorn(Tail(q)) /\ Head(q).kind # "torn"
    BY <1>1, TailFacts DEF NothingTorn
  <1>2. ASSUME NEW f \in Frames, f.kind # "torn" PROVE NothingTorn(Append(q, f))
    BY <1>2, AppendFacts DEF NothingTorn
  <1> QED BY <1>1, <1>2

\* The client reads a state; what it had is older, so no change is lost.
LEMMA ReadState ==
  ASSUME NEW q \in Seq(Frames), NEW v \in SUBSET States, NEW n \in Nat,
         NEW m \in Nat, q # <<>>, Head(q).kind = "state", InOrder(q, v, n)
  PROVE  /\ InOrder(Tail(q), {Head(q)}, n)
         /\ HasChange(q, v, m) => HasChange(Tail(q), {Head(q)}, m)
  <1> DEFINE p == Tail(q)
             h == Head(q)
  <1>1. /\ p \in Seq(Frames) /\ h = q[1] /\ 1 \in DOMAIN q
        /\ \A i \in DOMAIN p : i + 1 \in DOMAIN q /\ 1 < i + 1
                              /\ p[i] = q[i + 1] /\ i \in Nat
        /\ \A i \in DOMAIN q : i = 1 \/ (i - 1 \in DOMAIN p /\ p[i - 1] = q[i])
    BY TailFacts
  <1>2. h \in Frames BY <1>1
  <1>3. h.version \in Nat BY <1>2 DEF Frames, States, Response, Torn
  <1>4. h.kind = "state" OBVIOUS
  <1> HIDE DEF p, h
  <1>5. InOrder(p, {h}, n)
    <2>1. ASSUME NEW i \in DOMAIN p, NEW j \in DOMAIN p,
                 i < j, p[i].kind = "state", p[j].kind = "state"
          PROVE  p[i].version <= p[j].version
      <3>1. i + 1 < j + 1 BY <1>1, <2>1
      <3> QED BY <1>1, <2>1, <3>1 DEF InOrder
    <2>2. ASSUME NEW i \in DOMAIN p, p[i].kind = "state"
          PROVE  p[i].version <= n /\ h.version <= p[i].version
      BY <1>1, <1>4, <2>2 DEF InOrder
    <2>3. h.version <= n BY <1>1, <1>4 DEF InOrder
    <2> QED BY <2>1, <2>2, <2>3 DEF InOrder
  <1>6. ASSUME HasChange(q, v, m) PROVE HasChange(p, {h}, m)
    <2>1. h \in {q[i] : i \in DOMAIN q} BY <1>1
    <2>2. PICK s \in v \cup {r \in {q[i] : i \in DOMAIN q} : r.kind = "state"} :
             s.version >= m
      BY <1>4, <1>6, <2>1 DEF HasChange
    <2>3. CASE s \in v
      <3>1. s.version <= h.version BY <1>1, <1>4, <2>3 DEF InOrder
      <3>2. s.version \in Nat BY <2>3 DEF States
      <3>3. h.version >= m BY <1>3, <2>2, <3>1, <3>2
      <3> QED BY <3>3 DEF HasChange
    <2>4. CASE s \notin v
      <3>1. PICK i \in DOMAIN q : s = q[i] BY <2>4
      <3>2. s.kind = "state" BY <2>4
      <3>3. s = h \/ s \in {p[j] : j \in DOMAIN p} BY <1>1, <3>1
      <3> QED BY <2>2, <3>2, <3>3 DEF HasChange
    <2> QED BY <2>3, <2>4
  <1> QED BY <1>5, <1>6 DEF p, h

\* The client reads an answer.
LEMMA ReadOther ==
  ASSUME NEW q \in Seq(Frames), NEW v \in SUBSET States, NEW n \in Nat,
         NEW m \in Nat, q # <<>>, Head(q).kind # "state", InOrder(q, v, n)
  PROVE  /\ InOrder(Tail(q), v, n)
         /\ HasChange(q, v, m) => HasChange(Tail(q), v, m)
  <1> DEFINE p == Tail(q)
  <1>1. /\ q[1].kind # "state"
        /\ \A i \in DOMAIN p : i + 1 \in DOMAIN q /\ 1 < i + 1
                              /\ p[i] = q[i + 1] /\ i \in Nat
        /\ \A i \in DOMAIN q : i = 1 \/ (i - 1 \in DOMAIN p /\ p[i - 1] = q[i])
    BY TailFacts
  <1> HIDE DEF p
  <1>2. InOrder(p, v, n)
    <2>1. ASSUME NEW i \in DOMAIN p, NEW j \in DOMAIN p,
                 i < j, p[i].kind = "state", p[j].kind = "state"
          PROVE  p[i].version <= p[j].version
      <3>1. i + 1 < j + 1 BY <1>1, <2>1
      <3> QED BY <1>1, <2>1, <3>1 DEF InOrder
    <2> QED BY <1>1, <2>1 DEF InOrder
  <1>3. {s \in {p[i] : i \in DOMAIN p} : s.kind = "state"}
          = {s \in {q[i] : i \in DOMAIN q} : s.kind = "state"}
    <2>1. ASSUME NEW i \in DOMAIN p PROVE p[i] \in {q[j] : j \in DOMAIN q}
      BY <1>1
    <2>2. ASSUME NEW i \in DOMAIN q, q[i].kind = "state"
          PROVE  q[i] \in {p[j] : j \in DOMAIN p}
      BY <1>1, <2>2
    <2> QED BY <2>1, <2>2
  <1> QED BY <1>2, <1>3 DEF p, HasChange

\* The client loses a frame: what is left is in order all the same.
LEMMA SwallowFrame ==
  ASSUME NEW q \in Seq(Frames), NEW v \in SUBSET States, NEW n \in Nat,
         q # <<>>, InOrder(q, v, n)
  PROVE  InOrder(Tail(q), v, n)
  <1> DEFINE p == Tail(q)
  <1>1. \A i \in DOMAIN p : /\ i + 1 \in DOMAIN q
                            /\ p[i] = q[i + 1] /\ i \in Nat
    BY TailFacts
  <1> HIDE DEF p
  <1>2. ASSUME NEW i \in DOMAIN p, NEW j \in DOMAIN p,
               i < j, p[i].kind = "state", p[j].kind = "state"
        PROVE  p[i].version <= p[j].version
    <2>1. i + 1 < j + 1 BY <1>1, <1>2
    <2> QED BY <1>1, <1>2, <2>1 DEF InOrder
  <1> QED BY <1>1, <1>2 DEF p, InOrder
-----------------------------------------------------------------------------
(* The bridge.                                                             *)

LEMMA CleanByClient ==
  CleanMeansSent <=>
    (~pending => \A c \in clients \ torn :
       link[c] = "up" => HasChange(toShell[c], view[c], marked))
  BY DEF CleanMeansSent, SentTo, HasChange

LEMMA CleanByClientNext ==
  CleanMeansSent' <=>
    (~pending' => \A c \in clients' \ torn' :
       link'[c] = "up" => HasChange(toShell'[c], view'[c], marked'))
  BY DEF CleanMeansSent, SentTo, HasChange

LEMMA InitOK == Init => BridgeOK
  <1> SUFFICES ASSUME Init PROVE BridgeOK OBVIOUS
  <1>1. BridgeType
    <2>1. <<>> \in Seq(Frames) /\ <<>> \in Seq(Windows) OBVIOUS
    <2>2. toShell \in [Clients -> Seq(Frames)] BY <2>1 DEF Init
    <2>3. link \in [Clients -> {"new", "up", "lost"}] BY DEF Init
    <2>4. view \in [Clients -> SUBSET States] BY DEF Init
    <2>5. toplevels \in Seq(Windows) BY <2>1 DEF Init
    <2>6. pending \in BOOLEAN BY Zenon DEF Init
    <2>7. version \in Nat /\ marked \in Nat /\ marked <= version BY DEF Init
    <2>8. clients \subseteq Clients BY DEF Init
    <2> QED BY <2>2, <2>3, <2>4, <2>5, <2>6, <2>7, <2>8 DEF BridgeType
  <1>2. FramesInOrder
    BY EmptyQueue DEF Init, FramesInOrder, InOrder
  <1>3. NewIsEmpty /\ CleanMeansSent BY DEF Init, NewIsEmpty, CleanMeansSent
  <1>4. TornAreKnown BY DEF Init, TornAreKnown, NothingTorn
  <1> QED BY <1>1, <1>2, <1>3, <1>4 DEF BridgeOK

\* A step of the compositor that no client sees: the state moves on, and what
\* is marked is pending.
LEMMA CompositorStep ==
  ASSUME BridgeOK, version' \in Nat, version <= version',
         toplevels' \in Seq(Windows),
         \/ marked' = version' /\ pending' = TRUE
         \/ marked' = marked /\ pending' = pending,
         UNCHANGED shellVars
  PROVE  BridgeOK'
  <1> USE DEF BridgeOK, shellVars
  <1>1. BridgeType'
    <2>1. marked' \in Nat /\ marked' <= version' BY DEF BridgeType
    <2>2. pending' \in BOOLEAN BY ZenonT(20) DEF BridgeType
    <2> QED BY <2>1, <2>2 DEF BridgeType
  <1>2. FramesInOrder'
    <2> SUFFICES ASSUME NEW c \in Clients
                 PROVE  InOrder(toShell[c], view[c], version')
      BY DEF FramesInOrder
    <2>1. InOrder(toShell[c], view[c], version) BY DEF FramesInOrder
    <2> QED BY <2>1, LaterVersion DEF BridgeType
  <1>3. NewIsEmpty' BY DEF NewIsEmpty
  <1>4. CleanMeansSent' BY CleanByClient, CleanByClientNext
  <1>5. TornAreKnown' BY DEF TornAreKnown
  <1> QED BY <1>1, <1>2, <1>3, <1>4, <1>5

LEMMA BroadcastStep ==
  ASSUME BridgeOK, Broadcast,
         UNCHANGED <<version, marked, toplevels, link, view, torn>>
  PROVE  BridgeOK'
  <1> USE DEF BridgeOK
  <1>1. CASE UNCHANGED <<pending, clients, toShell>>
    <2>1. BridgeType' BY <1>1 DEF BridgeType
    <2>2. FramesInOrder' BY <1>1 DEF FramesInOrder
    <2>3. NewIsEmpty' BY <1>1 DEF NewIsEmpty
    <2>4. CleanMeansSent' BY <1>1, CleanByClient, CleanByClientNext
    <2>5. TornAreKnown' BY <1>1 DEF TornAreKnown
    <2> QED BY <2>1, <2>2, <2>3, <2>4, <2>5
  <1>2. CASE /\ pending' = FALSE
             /\ clients' = {c \in clients : CanWrite(c)}
             /\ toShell' = [c \in Clients |->
                              IF c \in clients' THEN Append(toShell[c], StateFrame)
                              ELSE toShell[c]]
    <2>1. StateFrame \in States /\ StateFrame.version = version
      BY StateFrameType DEF StateFrame
    <2>2. ASSUME NEW c \in Clients
          PROVE  /\ toShell[c] \in Seq(Frames) /\ view[c] \in SUBSET States
                 /\ InOrder(toShell[c], view[c], version)
      BY DEF BridgeType, FramesInOrder
    <2>3. ASSUME NEW c \in Clients
          PROVE  /\ Append(toShell[c], StateFrame) \in Seq(Frames)
                 /\ InOrder(Append(toShell[c], StateFrame), view[c], version)
                 /\ HasChange(Append(toShell[c], StateFrame), view[c], marked)
      <3>1. StateFrame \in Frames BY <2>1 DEF Frames
      <3>2. marked \in Nat /\ marked <= version BY DEF BridgeType
      <3> QED BY <2>1, <2>2, <3>1, <3>2, AppendState, AppendFacts
    <2>4. BridgeType' BY <1>2, <2>3 DEF BridgeType
    <2>5. FramesInOrder' BY <1>2, <2>2, <2>3 DEF FramesInOrder
    <2>6. NewIsEmpty' BY DEF NewIsEmpty
    <2>7. CleanMeansSent'
      <3>1. clients' \subseteq Clients BY <1>2 DEF BridgeType
      <3>2. \A c \in clients' : HasChange(toShell'[c], view'[c], marked')
        BY <1>2, <2>3, <3>1
      <3> QED BY <3>2, CleanByClientNext
    <2>8. TornAreKnown'
      <3> SUFFICES ASSUME NEW c \in Clients \ torn PROVE NothingTorn(toShell'[c])
        BY DEF TornAreKnown
      <3>1. NothingTorn(toShell[c]) BY DEF TornAreKnown
      <3>2. StateFrame \in Frames /\ StateFrame.kind # "torn"
        BY <2>1 DEF Frames, StateFrame
      <3>3. NothingTorn(Append(toShell[c], StateFrame))
        BY <2>2, <3>1, <3>2, WholeFrames
      <3> QED BY <1>2, <3>1, <3>3
    <2> QED BY <2>4, <2>5, <2>6, <2>7, <2>8
  <1> QED BY <1>1, <1>2 DEF Broadcast

\* A step of one client or about one client: its queue and what it has read
\* stay in order and keep the changes they hold; it may change the state.
LEMMA ClientStep ==
  ASSUME BridgeOK, NEW c \in Clients, toplevels' = toplevels,
         version' \in Nat, version <= version',
         \/ marked' = version' /\ pending' = TRUE
         \/ marked' = marked /\ pending' = pending,
         clients' \in {clients, clients \cup {c}, clients \ {c}},
         link' \in [Clients -> {"new", "up", "lost"}],
         toShell' \in [Clients -> Seq(Frames)],
         view' \in [Clients -> SUBSET States],
         \A d \in Clients \ {c} : /\ link'[d] = link[d]
                                  /\ toShell'[d] = toShell[d]
                                  /\ view'[d] = view[d],
         InOrder(toShell'[c], view'[c], version),
         link'[c] # "new" \/ view'[c] = {},
         torn' \in {torn, torn \cup {c}},
         c \in torn' \/ NothingTorn(toShell'[c]),
         link'[c] = "up" /\ c \in clients' \ torn' =>
           \/ HasChange(toShell'[c], view'[c], marked)
           \/ /\ link[c] = "up" /\ c \in clients
              /\ HasChange(toShell[c], view[c], marked)
                   => HasChange(toShell'[c], view'[c], marked)
  PROVE  BridgeOK'
  <1> USE DEF BridgeOK
  <1>1. BridgeType'
    <2>1. marked' \in Nat /\ marked' <= version' BY DEF BridgeType
    <2>2. pending' \in BOOLEAN BY ZenonT(20) DEF BridgeType
    <2> QED BY <2>1, <2>2 DEF BridgeType
  <1>2. FramesInOrder'
    <2> SUFFICES ASSUME NEW d \in Clients
                 PROVE  InOrder(toShell'[d], view'[d], version')
      BY DEF FramesInOrder
    <2>1. InOrder(toShell'[d], view'[d], version) BY DEF FramesInOrder
    <2> QED BY <2>1, LaterVersion DEF BridgeType
  <1>3. NewIsEmpty' BY DEF NewIsEmpty
  <1>4. CleanMeansSent'
    <2> SUFFICES ASSUME ~pending', NEW d \in clients' \ torn', link'[d] = "up"
                 PROVE  HasChange(toShell'[d], view'[d], marked')
      BY CleanByClientNext
    <2>0. marked' = marked /\ ~pending OBVIOUS
    <2>1. \A e \in clients \ torn : link[e] = "up" => HasChange(toShell[e], view[e], marked)
      BY <2>0, CleanByClient
    <2>2. CASE d = c BY <2>0, <2>1, <2>2
    <2>3. CASE d # c
      <3>1. d \in clients \ torn /\ d \in Clients BY <2>3 DEF BridgeType
      <3> QED BY <2>0, <2>1, <2>3, <3>1
    <2> QED BY <2>2, <2>3
  <1>5. TornAreKnown' BY DEF TornAreKnown
  <1> QED BY <1>1, <1>2, <1>3, <1>4, <1>5

\* A step of one client, by what it does.
LEMMA ClientSteps ==
  ASSUME BridgeOK, NEW c \in Clients,
         Accept(c) \/ Read(c) \/ ReadEnd(c) \/ Exit(c) \/ HangUp(c) \/ Tap(c)
  PROVE  BridgeOK'
  <1> USE DEF BridgeOK
  <1>1. /\ toShell[c] \in Seq(Frames) /\ view[c] \in SUBSET States
        /\ InOrder(toShell[c], view[c], version)
        /\ version \in Nat /\ marked \in Nat /\ marked <= version
        /\ link \in [Clients -> {"new", "up", "lost"}]
        /\ toShell \in [Clients -> Seq(Frames)]
        /\ view \in [Clients -> SUBSET States]
    BY DEF BridgeType, FramesInOrder
  <1>2. InOrder(<<>>, view[c], version) BY <1>1, EmptyQueue DEF InOrder
  <1>3. link[c] = "new" => view[c] = {} BY DEF NewIsEmpty
  <1>4. <<>> \in Seq(Frames) OBVIOUS
  <1>t. /\ UNCHANGED torn
        /\ c \in torn \/ NothingTorn(toShell[c])
        /\ NothingTorn(<<>>)
    <2>1. UNCHANGED torn BY DEF Accept, Read, ReadEnd, Exit, HangUp, Tap
    <2>2. c \in torn \/ NothingTorn(toShell[c]) BY DEF TornAreKnown
    <2>3. NothingTorn(<<>>) BY DEF NothingTorn
    <2> QED BY <2>1, <2>2, <2>3
  \* A step that only takes something from the queue of an open connection.
  <1>q. ASSUME link[c] = "up",
               UNCHANGED <<version, marked, toplevels, pending, clients, link, view>>,
               toShell' \in [Clients -> Seq(Frames)],
               \A d \in Clients \ {c} : toShell'[d] = toShell[d],
               InOrder(toShell'[c], view[c], version),
               c \in torn \/ NothingTorn(toShell'[c]),
               c \in torn \/ (HasChange(toShell[c], view[c], marked)
                                => HasChange(toShell'[c], view[c], marked))
        PROVE  BridgeOK'
    <2>1. /\ toplevels' = toplevels /\ version' \in Nat /\ version <= version'
          /\ marked' = marked /\ pending' = pending
          /\ clients' \in {clients, clients \cup {c}, clients \ {c}}
          /\ link' \in [Clients -> {"new", "up", "lost"}]
          /\ view' \in [Clients -> SUBSET States]
          /\ link'[c] # "new"
      BY <1>1, <1>q
    <2>2. \A d \in Clients \ {c} : /\ link'[d] = link[d]
                                  /\ toShell'[d] = toShell[d]
                                  /\ view'[d] = view[d]
      BY <1>q
    <2>3. /\ InOrder(toShell'[c], view'[c], version)
          /\ torn' \in {torn, torn \cup {c}}
          /\ c \in torn' \/ NothingTorn(toShell'[c])
          /\ link'[c] = "up" /\ c \in clients' \ torn' =>
               /\ link[c] = "up" /\ c \in clients
               /\ HasChange(toShell[c], view[c], marked)
                    => HasChange(toShell'[c], view'[c], marked)
      BY <1>t, <1>q
    <2>4. toShell' \in [Clients -> Seq(Frames)] BY <1>q
    <2> QED BY <2>1, <2>2, <2>3, <2>4, ClientStep
  \* The connection is lost.
  <1>l. ASSUME UNCHANGED <<version, marked, toplevels, pending, clients, view>>,
               link' = [link EXCEPT ![c] = "lost"],
               toShell' = [toShell EXCEPT ![c] = <<>>]
        PROVE  BridgeOK'
    <2>1. /\ toplevels' = toplevels /\ version' \in Nat /\ version <= version'
          /\ marked' = marked /\ pending' = pending
          /\ clients' \in {clients, clients \cup {c}, clients \ {c}}
          /\ view' \in [Clients -> SUBSET States]
      BY <1>1, <1>l
    <2>2. /\ link' \in [Clients -> {"new", "up", "lost"}] /\ link'[c] = "lost"
          /\ toShell' \in [Clients -> Seq(Frames)] /\ toShell'[c] = <<>>
      BY <1>1, <1>4, <1>l
    <2>3. \A d \in Clients \ {c} : /\ link'[d] = link[d]
                                  /\ toShell'[d] = toShell[d]
                                  /\ view'[d] = view[d]
      BY <1>1, <1>l
    <2>4. /\ InOrder(toShell'[c], view'[c], version)
          /\ torn' \in {torn, torn \cup {c}}
          /\ NothingTorn(toShell'[c])
          /\ link'[c] # "new" /\ link'[c] # "up"
      BY <1>2, <1>t, <1>l, <2>2
    <2> QED BY <2>1, <2>2, <2>3, <2>4, ClientStep
  <1>5. CASE Accept(c)
    <2>1. StateFrame \in States /\ StateFrame.version = version
      BY StateFrameType DEF StateFrame
    <2>2. view'[c] = {} BY <1>3, <1>5 DEF Accept
    <2>3. toShell'[c] \in {<<StateFrame>>, <<>>} BY <1>1, <1>5 DEF Accept
    <2>4. <<StateFrame>> \in Seq(Frames)
      <3>1. StateFrame \in Frames BY <2>1 DEF Frames
      <3> QED BY <3>1
    <2>5. /\ InOrder(toShell'[c], view'[c], version)
          /\ HasChange(toShell'[c], view'[c], marked)
      BY <1>1, <2>1, <2>2, <2>3, FirstFrame
    <2>6. /\ UNCHANGED <<version, marked, toplevels, pending>>
          /\ clients' = clients \cup {c} /\ view' = view
          /\ link' = [link EXCEPT ![c] = "up"]
          /\ toShell' = [toShell EXCEPT ![c] = toShell'[c]]
      BY <1>1, <1>5 DEF Accept, compositorVars
    <2>7. /\ link' \in [Clients -> {"new", "up", "lost"}] /\ link'[c] = "up"
          /\ toShell' \in [Clients -> Seq(Frames)]
          /\ \A d \in Clients \ {c} : link'[d] = link[d] /\ toShell'[d] = toShell[d]
      BY <1>1, <1>4, <2>3, <2>4, <2>6
    <2>8. /\ version' \in Nat /\ version <= version'
          /\ view' \in [Clients -> SUBSET States]
          /\ \A d \in Clients \ {c} : /\ link'[d] = link[d]
                                   /\ toShell'[d] = toShell[d]
                                   /\ view'[d] = view[d]
          /\ clients' \in {clients, clients \cup {c}, clients \ {c}}
      BY <1>1, <2>6, <2>7
    <2>9. NothingTorn(toShell'[c])
      <3>1. NothingTorn(<<StateFrame>>) BY DEF NothingTorn, StateFrame
      <3> QED BY <1>t, <2>3, <3>1
    <2> QED BY <1>t, <2>2, <2>5, <2>6, <2>7, <2>8, <2>9, ClientStep
  <1>6. CASE Read(c)
    <2>1. CASE /\ Head(toShell[c]).kind = "state"
               /\ view' = [view EXCEPT ![c] = {Head(toShell[c])}]
               /\ toShell' = [toShell EXCEPT ![c] = Tail(@)]
               /\ UNCHANGED link
      <3>1. /\ toShell'[c] = Tail(toShell[c]) /\ view'[c] = {Head(toShell[c])}
            /\ Tail(toShell[c]) \in Seq(Frames)
        BY <1>1, <1>6, <2>1, TailFacts DEF Read
      <3>2. Head(toShell[c]) \in States
        <4>1. Head(toShell[c]) \in Frames BY <1>1, <1>6 DEF Read
        <4> QED BY <2>1, <4>1 DEF Frames, Response, Torn
      <3>3. /\ InOrder(toShell'[c], view'[c], version)
            /\ HasChange(toShell[c], view[c], marked)
                 => HasChange(toShell'[c], view'[c], marked)
        BY <1>1, <1>6, <2>1, <3>1, ReadState DEF Read
      <3>4. /\ UNCHANGED <<version, marked, toplevels, pending, clients, link>>
            /\ link[c] = "up"
        BY <1>6, <2>1 DEF Read, compositorVars
      <3>5. /\ view' \in [Clients -> SUBSET States]
            /\ toShell' \in [Clients -> Seq(Frames)]
            /\ \A d \in Clients \ {c} : view'[d] = view[d] /\ toShell'[d] = toShell[d]
        BY <1>1, <2>1, <3>1, <3>2
      <3>6. /\ version' \in Nat /\ version <= version'
            /\ link' \in [Clients -> {"new", "up", "lost"}] /\ link'[c] # "new"
            /\ \A d \in Clients \ {c} : /\ link'[d] = link[d]
                                     /\ toShell'[d] = toShell[d]
                                     /\ view'[d] = view[d]
            /\ clients' \in {clients, clients \cup {c}, clients \ {c}}
            /\ c \in clients' => c \in clients
        BY <1>1, <3>4, <3>5
      <3>7. c \in torn \/ NothingTorn(toShell'[c])
        BY <1>1, <1>t, <1>6, <3>1, WholeFrames DEF Read
      <3> QED BY <1>t, <3>3, <3>4, <3>5, <3>6, <3>7, ClientStep
    <2>2. CASE /\ Head(toShell[c]).kind = "response"
               /\ toShell' = [toShell EXCEPT ![c] = Tail(@)]
               /\ UNCHANGED <<link, view>>
      <3>1. /\ toShell'[c] = Tail(toShell[c])
            /\ Tail(toShell[c]) \in Seq(Frames)
        BY <1>1, <1>6, <2>2, TailFacts DEF Read
      <3>2. /\ InOrder(toShell'[c], view'[c], version)
            /\ HasChange(toShell[c], view[c], marked)
                 => HasChange(toShell'[c], view'[c], marked)
        BY <1>1, <1>6, <2>2, <3>1, ReadOther DEF Read
      <3>3. c \in torn \/ NothingTorn(toShell'[c])
        BY <1>1, <1>t, <1>6, <3>1, WholeFrames DEF Read
      <3>4. /\ UNCHANGED <<version, marked, toplevels, pending, clients, link, view>>
            /\ link[c] = "up"
        BY <1>6, <2>2 DEF Read, compositorVars
      <3>5. /\ toShell' \in [Clients -> Seq(Frames)]
            /\ \A d \in Clients \ {c} : toShell'[d] = toShell[d]
        BY <1>1, <2>2, <3>1
      <3> QED BY <3>2, <3>3, <3>4, <3>5, <1>q
    <2>3. CASE /\ toShell' = [toShell EXCEPT ![c] = <<>>]
               /\ link' = [link EXCEPT ![c] = "lost"]
               /\ UNCHANGED view
      <3>1. UNCHANGED <<version, marked, toplevels, pending, clients, view>>
        BY <1>6, <2>3 DEF Read, compositorVars
      <3> QED BY <2>3, <3>1, <1>l
    <2>4. CASE /\ Head(toShell[c]).kind = "torn" /\ Tail(toShell[c]) # <<>>
               /\ toShell' = [toShell EXCEPT ![c] = Tail(Tail(@))]
               /\ UNCHANGED <<link, view>>
      <3>1. c \in torn BY <1>1, <1>t, <1>6, <2>4, WholeFrames DEF Read
      <3>2. Tail(toShell[c]) \in Seq(Frames) /\ Tail(Tail(toShell[c])) \in Seq(Frames)
        BY <1>1, <1>6, <2>4, TailFacts DEF Read
      <3>3. InOrder(Tail(toShell[c]), view[c], version)
        BY <1>1, <1>6, <2>4, ReadOther DEF Read
      <3>4. InOrder(Tail(Tail(toShell[c])), view[c], version)
        BY <1>1, <2>4, <3>2, <3>3, SwallowFrame
      <3>5. /\ toShell'[c] = Tail(Tail(toShell[c]))
            /\ toShell' \in [Clients -> Seq(Frames)]
            /\ \A d \in Clients \ {c} : toShell'[d] = toShell[d]
        BY <1>1, <2>4, <3>2
      <3>6. /\ UNCHANGED <<version, marked, toplevels, pending, clients, link, view>>
            /\ link[c] = "up"
        BY <1>6, <2>4 DEF Read, compositorVars
      <3> QED BY <3>1, <3>4, <3>5, <3>6, <1>q
    <2> QED BY <1>6, <2>1, <2>2, <2>3, <2>4 DEF Read
  <1>7. CASE ReadEnd(c) \/ Exit(c)
    <2>1. /\ UNCHANGED <<version, marked, toplevels, pending, clients, view>>
          /\ link' = [link EXCEPT ![c] = "lost"]
          /\ toShell' = [toShell EXCEPT ![c] = <<>>]
      BY <1>7 DEF ReadEnd, Exit, compositorVars
    <2> QED BY <2>1, <1>l
  <1>8. CASE HangUp(c)
    BY <1>1, <1>3, <1>t, <1>8, ClientStep DEF HangUp, compositorVars
  <1>9. CASE Tap(c)
    BY <1>1, <1>3, <1>t, <1>9, ClientStep DEF Tap, compositorVars
  <1> QED BY <1>5, <1>6, <1>7, <1>8, <1>9

LEMMA RespondStep ==
  ASSUME BridgeOK, NEW c \in clients, Respond(c),
         version' \in Nat, version <= version',
         \/ marked' = version' /\ pending' = TRUE
         \/ marked' = marked /\ pending' = pending,
         UNCHANGED <<toplevels, clients, link, view>>
  PROVE  BridgeOK'
  <1> USE DEF BridgeOK
  <1>1. /\ toShell[c] \in Seq(Frames) /\ view[c] \in SUBSET States
        /\ InOrder(toShell[c], view[c], version)
        /\ version \in Nat /\ marked \in Nat /\ c \in Clients
        /\ link \in [Clients -> {"new", "up", "lost"}]
        /\ toShell \in [Clients -> Seq(Frames)]
        /\ view \in [Clients -> SUBSET States]
    BY DEF BridgeType, FramesInOrder
  <1>2. link[c] = "new" => view[c] = {} BY <1>1 DEF NewIsEmpty
  <1>t. c \in torn \/ NothingTorn(toShell[c]) BY <1>1 DEF TornAreKnown
  <1>3. CASE UNCHANGED <<toShell, torn>>
    BY <1>1, <1>2, <1>t, <1>3, ClientStep
  <1>4. CASE UNCHANGED toShell /\ torn' = torn \cup {c}
    BY <1>1, <1>2, <1>4, ClientStep
  <1>5. ASSUME NEW f \in {Response, Torn},
               toShell' = [toShell EXCEPT ![c] = Append(@, f)],
               \/ f = Response /\ UNCHANGED torn
               \/ torn' = torn \cup {c}
        PROVE  BridgeOK'
    <2>1. toShell'[c] = Append(toShell[c], f) BY <1>1, <1>5
    <2>2. f \in Frames /\ Append(toShell[c], f) \in Seq(Frames)
      BY <1>1, AppendFacts DEF Frames
    <2>3. /\ InOrder(toShell'[c], view'[c], version)
          /\ HasChange(toShell[c], view[c], marked)
               => HasChange(toShell'[c], view'[c], marked)
      BY <1>1, <2>1, AppendOther
    <2>4. c \in torn' \/ NothingTorn(toShell'[c])
      <3>1. CASE c \in torn' BY <3>1
      <3>2. CASE c \notin torn'
        <4>1. f = Response /\ NothingTorn(toShell[c]) BY <1>5, <1>t, <3>2
        <4>2. f.kind # "torn" BY <4>1 DEF Response
        <4> QED BY <1>1, <2>1, <2>2, <4>1, <4>2, WholeFrames
      <3> QED BY <3>1, <3>2
    <2>5. /\ toShell' \in [Clients -> Seq(Frames)]
          /\ \A d \in Clients \ {c} : toShell'[d] = toShell[d]
          /\ torn' \in {torn, torn \cup {c}}
      BY <1>1, <1>5, <2>2
    <2> QED BY <1>1, <1>2, <2>3, <2>4, <2>5, ClientStep
  <1>6. \/ UNCHANGED <<toShell, torn>>
        \/ UNCHANGED toShell /\ torn' = torn \cup {c}
        \/ \E f \in {Response, Torn} :
             /\ toShell' = [toShell EXCEPT ![c] = Append(@, f)]
             /\ \/ f = Response /\ UNCHANGED torn
                \/ torn' = torn \cup {c}
    BY DEF Respond
  <1> QED BY <1>3, <1>4, <1>5, <1>6

LEMMA StepOK == BridgeOK /\ [Next]_vars => BridgeOK'
  <1> SUFFICES ASSUME BridgeOK, [Next]_vars PROVE BridgeOK' OBVIOUS
  <1>0. version \in Nat /\ toplevels \in Seq(Windows) BY DEF BridgeOK, BridgeType
  <1>b. Bump => version' \in Nat /\ version <= version' BY <1>0 DEF Bump
  <1>1. CASE Change \/ SetTitle
    BY <1>0, <1>1, <1>b, CompositorStep DEF Change, SetTitle, MarkDirty
  <1>2. CASE NewToplevel
    <2>1. PICK w \in Windows : toplevels' = <<w>> \o toplevels
      BY <1>2 DEF NewToplevel
    <2>2. toplevels' \in Seq(Windows) BY <1>0, <2>1
    <2> QED BY <1>2, <1>b, <2>2, CompositorStep DEF NewToplevel
  <1>3. CASE DestroyToplevel
    <2>1. PICK i \in DOMAIN toplevels : toplevels' = RemoveAt(toplevels, i)
      BY <1>3 DEF DestroyToplevel
    <2>2. toplevels' \in Seq(Windows) BY <1>0, <2>1, RemoveAtType
    <2> QED BY <1>3, <1>b, <2>2, CompositorStep DEF DestroyToplevel, MarkDirty
  <1>4. CASE BroadcastIdle
    <2>1. CASE Broadcast BY <1>4, <2>1, BroadcastStep DEF BroadcastIdle
    <2>2. CASE UNCHANGED <<pending, clients, toShell, requests>>
      <3>1. BridgeType' BY <1>4, <2>2 DEF BroadcastIdle, BridgeOK, BridgeType
      <3>2. FramesInOrder' BY <1>4, <2>2 DEF BroadcastIdle, BridgeOK, FramesInOrder
      <3>3. NewIsEmpty' BY <1>4, <2>2 DEF BroadcastIdle, BridgeOK, NewIsEmpty
      <3>4. CleanMeansSent'
        BY <1>4, <2>2, CleanByClient, CleanByClientNext DEF BroadcastIdle, BridgeOK
      <3>5. TornAreKnown' BY <1>4, <2>2 DEF BroadcastIdle, BridgeOK, TornAreKnown
      <3> QED BY <3>1, <3>2, <3>3, <3>4, <3>5 DEF BridgeOK
    <2> QED BY <1>4, <2>1, <2>2 DEF BroadcastIdle
  <1>5. CASE Frame BY <1>5, BroadcastStep DEF Frame
  <1>6. CASE \E c \in Clients : \/ Accept(c) \/ Read(c) \/ ReadEnd(c) \/ Exit(c)
                               \/ HangUp(c) \/ Tap(c)
    BY <1>6, ClientSteps
  <1>7. CASE \E c \in Clients : Serve(c)
    <2>1. PICK c \in Clients : Serve(c) BY <1>7
    <2>2. \/ Bump /\ MarkDirty
          \/ UNCHANGED <<version, marked, pending, source>>
      BY <2>1 DEF Serve
    <2>3. /\ version' \in Nat /\ version <= version'
          /\ \/ marked' = version' /\ pending' = TRUE
             \/ marked' = marked /\ pending' = pending
      BY <1>0, <1>b, <2>2 DEF MarkDirty
    <2> QED BY <2>1, <2>3, RespondStep DEF Serve
  <1>8. CASE UNCHANGED vars
    BY <1>0, <1>8, CompositorStep DEF vars, shellVars
  <1> QED BY <1>1, <1>2, <1>3, <1>4, <1>5, <1>6, <1>7, <1>8 DEF Next

-----------------------------------------------------------------------------
(***************************************************************************)
(* The inductive invariant of the bridge.                                  *)
(***************************************************************************)
THEOREM BridgeInvariant == Spec => []BridgeOK
  <1>1. Init => BridgeOK BY InitOK
  <1>2. BridgeOK /\ [Next]_vars => BridgeOK' BY StepOK
  <1> QED BY <1>1, <1>2, PTL DEF Spec

(***************************************************************************)
(* While the dirty flag is clear, every client that was sent a state, and  *)
(* no part of an answer, was sent the last marked change                   *)
(* (shell_bridge.c:298-388).                                               *)
(***************************************************************************)
THEOREM CleanBridge == Spec => []CleanMeansSent
  <1>1. BridgeOK => CleanMeansSent BY DEF BridgeOK
  <1> QED BY <1>1, BridgeInvariant, PTL

(***************************************************************************)
(* Frames reach a client in the order of the states they carry, and none   *)
(* is older than what the client has read (shell_protocol_client.c:689).   *)
(***************************************************************************)
THEOREM OrderedFrames == Spec => []FramesInOrder
  <1>1. BridgeOK => FramesInOrder BY DEF BridgeOK
  <1> QED BY <1>1, BridgeInvariant, PTL
-----------------------------------------------------------------------------
(* What a shell shows.                                                     *)

LEMMA ViewSteps ==
  ASSUME BridgeOK, [Next]_vars, NEW c \in Clients, view'[c] # view[c]
  PROVE  /\ toShell[c] # <<>> /\ Head(toShell[c]).kind = "state"
         /\ view'[c] = {Head(toShell[c])}
  <1>1. \E d \in Clients : Read(d)
    BY DEF Next, Change, NewToplevel, DestroyToplevel, SetTitle, BroadcastIdle, Frame,
           Accept, ReadEnd, Exit, HangUp, Tap, Serve, vars, shellVars
  <1>2. PICK d \in Clients : Read(d) BY <1>1
  <1>3. view \in [Clients -> SUBSET States] BY DEF BridgeOK, BridgeType
  <1>4. view' # view OBVIOUS
  <1>5. /\ toShell[d] # <<>> /\ Head(toShell[d]).kind = "state"
        /\ view' = [view EXCEPT ![d] = {Head(toShell[d])}]
    BY <1>2, <1>4 DEF Read
  <1>6. d = c BY <1>3, <1>5
  <1> QED BY <1>3, <1>5, <1>6

(***************************************************************************)
(* What a shell shows only becomes newer, for any number of shells and any *)
(* buffers.                                                                *)
(***************************************************************************)
THEOREM ViewsOnlyAdvance == Spec => ShellsNeverGoBack
  <1>1. ASSUME BridgeOK, [Next]_vars, NEW c \in Clients, view'[c] # view[c],
               NEW s \in view[c], NEW t \in view'[c]
        PROVE  s.version <= t.version
    <2>1. /\ toShell[c] # <<>> /\ Head(toShell[c]).kind = "state"
          /\ t = Head(toShell[c])
      BY <1>1, ViewSteps
    <2>2. toShell[c] \in Seq(Frames) BY <1>1 DEF BridgeOK, BridgeType
    <2>3. t = toShell[c][1] /\ 1 \in DOMAIN toShell[c] BY <2>1, <2>2
    <2>4. InOrder(toShell[c], view[c], version)
      BY <1>1 DEF BridgeOK, FramesInOrder
    <2> QED BY <2>1, <2>3, <2>4 DEF InOrder
  <1>2. BridgeOK /\ [Next]_vars
          => [\A c \in Clients : view'[c] # view[c] =>
                \A s \in view[c], t \in view'[c] : s.version <= t.version]_vars
    BY <1>1
  <1> QED BY <1>2, BridgeInvariant, PTL DEF Spec, ShellsNeverGoBack

(***************************************************************************)
(* When all is quiet a shell shows the state as it is: with the dirty flag *)
(* clear and its socket read empty it has every change that was marked, if *)
(* it was sent a state at all and no answer to it was torn                 *)
(* (shell_bridge.c:66-77, 298-388, 425).                                   *)
(***************************************************************************)
QuietShellsAreCurrent ==
  \A c \in clients \ torn :
    ~pending /\ link[c] = "up" /\ toShell[c] = <<>> /\ view[c] # {}
      => \E s \in view[c] : marked <= s.version /\ s.version <= version

(***************************************************************************)
(* Nothing that was marked is missing from what a shell shows for good.    *)
(***************************************************************************)
THEOREM ShellsCatchUp == Spec => []QuietShellsAreCurrent
  <1>1. ASSUME BridgeOK, NEW c \in clients \ torn,
               ~pending, link[c] = "up", toShell[c] = <<>>, view[c] # {}
        PROVE  \E s \in view[c] : marked <= s.version /\ s.version <= version
    <2>1. SentTo(c) = view[c] BY <1>1 DEF SentTo
    <2>2. PICK s \in view[c] : s.version >= marked
      BY <1>1, <2>1 DEF BridgeOK, CleanMeansSent
    <2>3. c \in Clients /\ view[c] \in SUBSET States /\ marked \in Nat
      BY <1>1 DEF BridgeOK, BridgeType
    <2>4. s.version <= version BY <1>1, <2>2, <2>3 DEF BridgeOK, FramesInOrder, InOrder
    <2>5. s.version \in Nat BY <2>2, <2>3 DEF States
    <2> QED BY <2>2, <2>3, <2>4, <2>5
  <1>2. BridgeOK => QuietShellsAreCurrent BY <1>1 DEF QuietShellsAreCurrent
  <1> QED BY <1>2, BridgeInvariant, PTL

-----------------------------------------------------------------------------
(* Who is served.                                                          *)

(***************************************************************************)
(* A client that was removed is forgotten with all it had asked for: what  *)
(* was read of it is not served, whether it hung up, was too slow for a    *)
(* broadcast or is still there; and before it connects nothing of it or    *)
(* for it exists (shell_bridge.c:311-348, 1324-1380, 1571-1588).           *)
(***************************************************************************)
RemovedAreForgotten ==
  \A c \in Clients :
    /\ requests[c] # <<>> => c \in clients
    /\ link[c] = "new" => c \notin clients /\ toShell[c] = <<>>

ForgottenOK == requests = [c \in Clients |-> requests[c]] /\ RemovedAreForgotten

LEMMA ForgottenBroadcast ==
  ASSUME BridgeOK, ForgottenOK, Broadcast, UNCHANGED link PROVE ForgottenOK'
  <1>1. CASE UNCHANGED <<clients, toShell, requests>>
    BY <1>1 DEF ForgottenOK, RemovedAreForgotten
  <1>2. CASE /\ clients' = {c \in clients : CanWrite(c)}
             /\ toShell' = [c \in Clients |-> IF c \in clients' THEN Append(toShell[c], StateFrame)
                                              ELSE toShell[c]]
             /\ requests' = [c \in Clients |-> IF c \in clients' THEN requests[c] ELSE <<>>]
    BY <1>2 DEF ForgottenOK, RemovedAreForgotten
  <1> QED BY <1>1, <1>2 DEF Broadcast

LEMMA ForgottenStep ==
  ASSUME BridgeOK, ForgottenOK, [Next]_vars PROVE ForgottenOK'
  <1> USE DEF ForgottenOK, RemovedAreForgotten
  <1>0. /\ link \in [Clients -> {"new", "up", "lost"}]
        /\ toShell \in [Clients -> Seq(Frames)]
        /\ clients \subseteq Clients
    BY DEF BridgeOK, BridgeType
  <1>1. CASE Change \/ NewToplevel \/ DestroyToplevel \/ SetTitle \/ UNCHANGED vars
    BY <1>1 DEF Change, NewToplevel, DestroyToplevel, SetTitle, shellVars, vars
  <1>2. CASE BroadcastIdle
    <2>1. CASE pending BY <1>2, <2>1, ForgottenBroadcast DEF BroadcastIdle
    <2>2. CASE ~pending BY <1>2, <2>2 DEF BroadcastIdle
    <2> QED BY <2>1, <2>2
  <1>3. CASE Frame BY <1>3, ForgottenBroadcast DEF Frame
  <1>4. ASSUME NEW c \in Clients, Accept(c) PROVE ForgottenOK'
    BY <1>0, <1>4 DEF Accept
  <1>5. ASSUME NEW c \in Clients, Read(c) PROVE ForgottenOK'
    <2>1. UNCHANGED <<clients, requests>> /\ link[c] = "up" BY <1>5 DEF Read
    <2>2. \A d \in Clients : link'[d] = "new" => link[d] = "new" /\ toShell'[d] = toShell[d]
      BY <1>0, <1>5 DEF Read
    <2> QED BY <2>1, <2>2
  <1>6. ASSUME NEW c \in Clients, ReadEnd(c) \/ Exit(c) PROVE ForgottenOK'
    <2>1. UNCHANGED <<clients, requests>> /\ link[c] = "up" BY <1>6 DEF ReadEnd, Exit
    <2>2. \A d \in Clients : link'[d] = "new" => link[d] = "new" /\ toShell'[d] = toShell[d]
      BY <1>0, <1>6 DEF ReadEnd, Exit
    <2> QED BY <2>1, <2>2
  <1>7. ASSUME NEW c \in Clients, HangUp(c) PROVE ForgottenOK'
    BY <1>7 DEF HangUp
  <1>8. ASSUME NEW c \in Clients, Tap(c) PROVE ForgottenOK'
    <2>1. UNCHANGED <<clients, link, toShell>> /\ c \in clients BY <1>8 DEF Tap
    <2>2. PICK r : requests' = [requests EXCEPT ![c] = Append(@, r)] BY <1>8 DEF Tap
    <2> QED BY <2>1, <2>2
  <1>9. ASSUME NEW c \in Clients, Serve(c) PROVE ForgottenOK'
    <2>1. /\ UNCHANGED <<clients, link>> /\ c \in clients
          /\ requests' = [requests EXCEPT ![c] = Tail(@)]
      BY <1>9 DEF Serve
    <2>2. \A d \in Clients : d # c => toShell'[d] = toShell[d]
      BY <1>0, <1>9 DEF Serve, Respond
    <2>3. link[c] # "new" BY <2>1
    <2> QED BY <2>1, <2>2, <2>3
  <1> QED BY <1>1, <1>2, <1>3, <1>4, <1>5, <1>6, <1>7, <1>8, <1>9 DEF Next

(***************************************************************************)
(* No request outlives its client.                                         *)
(***************************************************************************)
THEOREM RemovedStayForgotten == Spec => []RemovedAreForgotten
  <1>1. Init => ForgottenOK BY DEF Init, ForgottenOK, RemovedAreForgotten
  <1>2. ForgottenOK => RemovedAreForgotten BY DEF ForgottenOK
  <1> QED BY <1>1, <1>2, ForgottenStep, BridgeInvariant, PTL DEF Spec
=============================================================================
