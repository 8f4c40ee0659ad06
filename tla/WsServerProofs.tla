---------------------------- MODULE WsServerProofs ----------------------------
(***************************************************************************)
(* The WebSocket server as Pauline uses it: it never closes a client        *)
(* itself, and its listeners are started in turn before clients come        *)
(* (Calm).  For any number of clients, entries, ports and frames, and       *)
(* whatever the clients send or leave out: events pair up, a CLOSE is       *)
(* answered once, and messages are whole.                                   *)
(***************************************************************************)
EXTENDS WsServer, WellFoundedInduction, TLAPS

\* The thread of a connection, from its accept to the last step of its end.
Living   == {"handshake", "read", "reply", "event", "closed", "test", "free"}
Speaking == {"read", "reply", "event"}
Places   == Living \cup {None, "join", "end"}

FrameNames == Peers \X Nat
Wires      == {"data", "close", "ping", "pong", "bad"} \X Nat
Messages   == [type : {None, "txt", "bin"}, utf : {"accept", "half", "reject"},
               frames : Seq(FrameNames)]

TypeOK ==
  /\ starting \in [Ports -> {"off", "copied", "bound", "on"}]
  /\ listens \in Nat /\ events \in [0 .. MAX_LISTEN_PORTS - 1 -> Ports \cup {0}]
  /\ sock \in [Slots -> Peers \cup {None}]
  /\ state \in [Slots -> {None, "CONNECTING", "OPEN", "CLOSING", "CLOSED"}]
  /\ counted \in [Slots -> BOOLEAN]
  /\ opened \in [Slots -> Peers \cup {None}]
  /\ thr \in [Peers -> Places] /\ at \in [Peers -> Slots]
  /\ msg \in [Peers -> Messages]
  /\ said \in [Peers -> Seq(Ops)]
  /\ wire \in [Peers -> Seq(Wires)]
  /\ peer \in [Peers -> {"new", "open", "wrong", "closing", "gone"}]
  /\ closes \in [Peers -> Nat]
  /\ delivered \in [Peers -> Seq(Seq(FrameNames))]

\* The server closes nobody: no timeout thread is ever created.
UnaskedInv == \A p \in Peers : srv[p] = None /\ tout[p] = None

\* A port whose events were counted is served; one port at a time is between.
ListenInv ==
  /\ \A t \in Ports : starting[t] \in {"bound", "on"} => Served(t)
  /\ \A t \in Ports : starting[t] = "copied" =>
       /\ events[listens] = t /\ listens < MAX_LISTEN_PORTS
       /\ \A u \in Ports \ {t} : starting[u] \in {"off", "on"}

\* A living thread has its entry to itself, and an entry in use has a living
\* thread; onopen was called with its client while the thread speaks.
OwnInv ==
  /\ \A p \in Peers : thr[p] # None => \A t \in Ports : starting[t] = "on"
  /\ \A p \in Peers : thr[p] # "join" /\ (peer[p] = "new" => thr[p] = None)
  /\ \A p \in Peers : thr[p] \in Living => sock[at[p]] = p /\ ~counted[at[p]]
  /\ \A s \in Slots : sock[s] # None => thr[sock[s]] \in Living /\ at[sock[s]] = s
  /\ \A p \in Peers : thr[p] \in Speaking => opened[at[p]] = p
  /\ \A s \in Slots : opened[s] # None => thr[opened[s]] \in Speaking /\ at[opened[s]] = s
  /\ \A p \in Peers : thr[p] \in Living \ {"free"} => state[at[p]] # "CLOSED"
  /\ \A p \in Peers : thr[p] = "read" => state[at[p]] # "CLOSING"

\* A CLOSE is the last a peer sends; it is on its way, being answered, or was.
CloseInv ==
  \A p \in Peers :
    /\ thr[p] \in {None, "handshake", "read", "reply"} => closes[p] = 0
    /\ peer[p] = "closing" /\ wire[p] = <<>> =>
         \/ thr[p] = "reply"
         \/ thr[p] \in {"event", "closed", "test", "free", "end"} /\ closes[p] = 1
    /\ peer[p] = "closing" /\ wire[p] # <<>> => wire[p][Len(wire[p])][1] = "close"

-----------------------------------------------------------------------------
\* A set of entries has a lowest.
LEMMA LowestIn ==
  ASSUME NEW S \in SUBSET Nat, S # {}
  PROVE  Lowest(S) \in S
<1>1. \E x \in S : \A y \in S : ~ (<<y, x>> \in OpToRel(<, Nat))
  BY WFMin, NatLessThanWellFounded
<1>2. PICK x \in S : \A y \in S : ~ (y < x)
  BY <1>1 DEF OpToRel
<1>3. \A y \in S : x <= y
  BY <1>2
<1> QED
  BY <1>3 DEF Lowest

\* What can happen to a server that closes nobody.
ThreadStep(p) == \/ Handshake(p) \/ HandshakeFails(p) \/ ReadFrame(p)
                 \/ Reply(p) \/ OnClose(p) \/ Closed(p) \/ CloseTest(p) \/ CloseFree(p)

LEMMA Steps ==
  ASSUME ServerCloses = {}, UnaskedInv, OwnInv, Next
  PROVE  \/ \E t \in Ports : Start(t)
         \/ \E p \in Peers : Accept(p) \/ PeerDoes(p) \/ ThreadStep(p)
<1>1. ASSUME NEW p \in Peers
      PROVE  ~ServerClose(p) /\ ~Closing(p) /\ ~Join(p)
  BY <1>1 DEF ServerClose, Closing, StartTimeout, Expire, ExpireFree, Join,
              UnaskedInv, OwnInv, None
<1> QED
  BY <1>1 DEF Next, Connection, Ending, ThreadStep

LEMMA UnaskedKeeps ==
  ASSUME ServerCloses = {}, UnaskedInv, OwnInv, [Next]_vars
  PROVE  UnaskedInv'
<1>1. ASSUME NEW t \in Ports, Start(t) PROVE UNCHANGED <<srv, tout>>
  BY <1>1 DEF Start, CopyEvents, CountEvents, ClearTable
<1>2. ASSUME NEW p \in Peers, Accept(p) \/ PeerDoes(p) PROVE UNCHANGED <<srv, tout>>
  BY <1>2 DEF Accept, PeerDoes, SendData, SendControl, SendClose, Quit
<1>3. ASSUME NEW p \in Peers, ThreadStep(p) PROVE UNCHANGED <<srv, tout>>
  BY <1>3 DEF ThreadStep, Handshake, HandshakeFails, ReadFrame, ReadFails, ReadData,
    ReadPing, ReadBad, ReadClose, Reply, OnClose, Closed, CloseTest, CloseFree
<1>4. UNCHANGED <<srv, tout>>
  BY <1>1, <1>2, <1>3, Steps DEF vars
<1> QED
  BY <1>4 DEF UnaskedInv

\* Before all ports are served there is no connection.
LEMMA Idle ==
  ASSUME TypeOK, OwnInv, NEW t \in Ports, starting[t] # "on"
  PROVE  /\ \A p \in Peers : thr[p] = None
         /\ \A s \in Slots : sock[s] = None /\ opened[s] = None
<1>1. ASSUME NEW p \in Peers PROVE thr[p] = None
  BY DEF OwnInv
<1>2. ASSUME NEW s \in Slots PROVE sock[s] = None /\ opened[s] = None
  <2>1. None \notin Living /\ None \notin Speaking
    BY DEF Living, Speaking, None
  <2>2. sock[s] \in Peers \cup {None} /\ opened[s] \in Peers \cup {None}
    BY DEF TypeOK
  <2>3. sock[s] \in Peers => thr[sock[s]] = None
    BY <1>1
  <2>4. opened[s] \in Peers => thr[opened[s]] = None
    BY <1>1
  <2> QED
    BY <2>1, <2>2, <2>3, <2>4 DEF OwnInv
<1> QED
  BY <1>1, <1>2

\* A living thread works on its own client's socket, and nobody else does.
LEMMA Own ==
  ASSUME TypeOK, OwnInv, NEW p \in Peers, thr[p] \in Living
  PROVE  /\ Source(p) = p /\ Valid(at[p]) /\ at[p] \in Slots
         /\ \A q \in Peers : thr[q] \in Living /\ q # p => at[q] # at[p]
BY WsServerAssumption DEF OwnInv, TypeOK, Source, Valid, None

LEMMA ListenKeeps ==
  ASSUME Calm, ServerCloses = {}, TypeOK, UnaskedInv, OwnInv, ListenInv, [Next]_vars
  PROVE  ListenInv'
<1>1. ASSUME NEW t \in Ports, CopyEvents(t) PROVE ListenInv'
  <2>1. \A u \in Ports : starting[u] \in {"off", "on"}
    BY <1>1 DEF CopyEvents
  <2>2. CASE listens >= MAX_LISTEN_PORTS
    BY <1>1, <2>2 DEF CopyEvents, ListenInv, Served
  <2>3. CASE ~(listens >= MAX_LISTEN_PORTS)
    <3>1. /\ events' = [events EXCEPT ![listens] = t] /\ listens' = listens
          /\ starting' = [starting EXCEPT ![t] = "copied"]
      BY <1>1, <2>3 DEF CopyEvents
    <3>2. listens < MAX_LISTEN_PORTS /\ listens \in 0 .. MAX_LISTEN_PORTS - 1
      BY <2>3 DEF TypeOK, MAX_LISTEN_PORTS
    <3>3. \A u \in Ports : starting'[u] \in {"bound", "on"} => Served(u)'
      <4>1. SUFFICES ASSUME NEW u \in Ports, starting'[u] \in {"bound", "on"}
                     PROVE  Served(u)'
        OBVIOUS
      <4>2. starting[u] \in {"bound", "on"}
        BY <3>1, <4>1 DEF TypeOK
      <4>3. PICK i \in 0 .. listens - 1 : events[i] = u
        BY <4>2 DEF ListenInv, Served
      <4>4. i # listens /\ events'[i] = events[i]
        BY <3>1, <3>2 DEF TypeOK
      <4> QED
        BY <3>1, <4>3, <4>4 DEF Served
    <3>4. events'[listens'] = t
      BY <3>1, <3>2 DEF TypeOK
    <3> QED
      BY <2>1, <3>1, <3>2, <3>3, <3>4 DEF ListenInv, TypeOK
  <2> QED
    BY <2>2, <2>3
<1>2. ASSUME NEW t \in Ports, CountEvents(t) PROVE ListenInv'
  <2>1. /\ events' = events /\ listens' = listens + 1
        /\ starting' = [starting EXCEPT ![t] = "bound"] /\ starting[t] = "copied"
    BY <1>2 DEF CountEvents
  <2>2. events[listens] = t /\ \A u \in Ports \ {t} : starting[u] \in {"off", "on"}
    BY <2>1 DEF ListenInv
  <2>3. \A u \in Ports : Served(u) \/ u = t => Served(u)'
    BY <2>1, <2>2 DEF Served, TypeOK
  <2> QED
    BY <2>1, <2>2, <2>3 DEF ListenInv, TypeOK
<1>3. ASSUME NEW t \in Ports, ClearTable(t) PROVE ListenInv'
  <2>1. /\ events' = events /\ listens' = listens
        /\ starting' = [starting EXCEPT ![t] = "on"] /\ starting[t] = "bound"
    BY <1>3 DEF ClearTable
  <2>2. \A u \in Ports : (Served(u) => Served(u)') /\ starting'[u] = IF u = t THEN "on" ELSE starting[u]
    BY <2>1 DEF Served, TypeOK
  <2>3. \A u \in Ports : starting'[u] \in {"bound", "on"} => starting[u] \in {"bound", "on"}
    BY <2>1, <2>2
  <2>4. \A u \in Ports : starting'[u] = "copied" => starting[u] = "copied" /\ u # t
    BY <2>2
  <2>5. \A u, v \in Ports : starting[v] \in {"off", "on"} => starting'[v] \in {"off", "on"}
    BY <2>2
  <2> QED
    BY <2>1, <2>2, <2>3, <2>4, <2>5 DEF ListenInv
<1>4. CASE UNCHANGED listenVars
  BY <1>4 DEF listenVars, ListenInv, Served
<1>5. ASSUME NEW p \in Peers, Accept(p) \/ PeerDoes(p) PROVE UNCHANGED listenVars
  BY <1>5 DEF Accept, PeerDoes, SendData, SendControl, SendClose, Quit
<1>6. ASSUME NEW p \in Peers, ThreadStep(p) PROVE UNCHANGED listenVars
  BY <1>6 DEF ThreadStep, Handshake, HandshakeFails, ReadFrame, ReadFails, ReadData,
    ReadPing, ReadBad, ReadClose, Reply, OnClose, Closed, CloseTest, CloseFree
<1>7. CASE UNCHANGED vars
  BY <1>4, <1>7 DEF vars, listenVars
<1> QED
  BY <1>1, <1>2, <1>3, <1>4, <1>5, <1>6, <1>7, Steps DEF Start

\* A data frame on its way is the last its peer sent, with at most a CLOSE
\* behind it.
WireInv ==
  \A p \in Peers : \A i \in 1 .. Len(wire[p]) :
    wire[p][i][1] = "data" =>
      i = 1 /\ wire[p][1][2] = Len(said[p]) /\ Len(said[p]) > 0

-----------------------------------------------------------------------------
(* Types and entries                                                        *)

\* What a reading thread has before it.
LEMMA ReadsOwn ==
  ASSUME TypeOK, OwnInv, NEW p \in Peers, Reads(p)
  PROVE  /\ thr[p] = "read" /\ Source(p) = p /\ wire[p] \in Seq(Wires)
         /\ wire[p] # <<>> /\ First(p) = wire[p][1] /\ wire[p][1] \in Wires
         /\ Tail(wire[p]) \in Seq(Wires)
         /\ (Taken(p) => wire' = [wire EXCEPT ![p] = Tail(@)])
<1>1. thr[p] = "read" /\ Source(p) = p
  BY Own DEF Reads, Living
<1>2. wire[p] \in Seq(Wires) /\ wire[p] # <<>>
  BY <1>1 DEF TypeOK, Reads
<1>3. wire[p][1] \in Wires /\ Tail(wire[p]) \in Seq(Wires)
      /\ First(p) = wire[p][1]
  BY <1>1, <1>2 DEF First
<1> QED
  BY <1>1, <1>2, <1>3 DEF Taken

\* The data frame read is the last its peer sent.
LEMMA ReadsData ==
  ASSUME TypeOK, OwnInv, WireInv, NEW p \in Peers, Reads(p), First(p)[1] = "data"
  PROVE  /\ First(p)[2] = Len(said[p]) /\ Len(said[p]) \in Nat /\ Len(said[p]) > 0
         /\ said[p][Len(said[p])] \in Ops /\ said[p] \in Seq(Ops)
<1>1. wire[p][1][1] = "data" /\ wire[p] \in Seq(Wires) /\ wire[p] # <<>>
      /\ First(p) = wire[p][1]
  BY ReadsOwn
<1>2. 1 \in 1 .. Len(wire[p])
  BY <1>1
<1>3. said[p] \in Seq(Ops)
  BY DEF TypeOK
<1>4. First(p)[2] = Len(said[p]) /\ Len(said[p]) > 0
  BY <1>1, <1>2 DEF WireInv
<1> QED
  BY <1>3, <1>4

LEMMA ExceptType ==
  ASSUME NEW D, NEW S, NEW f \in [D -> S], NEW x, NEW y \in S
  PROVE  [f EXCEPT ![x] = y] \in [D -> S]
OBVIOUS

LEMMA TypeStart ==
  ASSUME TypeOK, NEW t \in Ports, Start(t)
  PROVE  TypeOK'
<1>1. CASE CopyEvents(t)
  BY <1>1 DEF CopyEvents, TypeOK, slotVars, threadVars, peerVars
<1>2. CASE CountEvents(t)
  BY <1>2 DEF CountEvents, TypeOK, slotVars, threadVars, peerVars
<1>3. CASE ClearTable(t)
  BY <1>3 DEF ClearTable, TypeOK, slotVars, threadVars, peerVars
<1> QED
  BY <1>1, <1>2, <1>3 DEF Start

\* The entry a new connection gets.
LEMMA Accepted ==
  ASSUME TypeOK, NEW p \in Peers, Accept(p), FreeSlots # {}
  PROVE  /\ Lowest(FreeSlots) \in Slots /\ sock[Lowest(FreeSlots)] = None
         /\ sock' = [sock EXCEPT ![Lowest(FreeSlots)] = p]
         /\ state' = [state EXCEPT ![Lowest(FreeSlots)] = "CONNECTING"]
         /\ counted' = [counted EXCEPT ![Lowest(FreeSlots)] = FALSE]
         /\ at' = [at EXCEPT ![p] = Lowest(FreeSlots)]
         /\ thr' = [thr EXCEPT ![p] = "handshake"]
         /\ peer' = [peer EXCEPT ![p] = "open"]
         /\ msg' = msg
<1>1. FreeSlots \in SUBSET Nat
  BY WsServerAssumption DEF FreeSlots
<1>2. Lowest(FreeSlots) \in FreeSlots
  BY <1>1, LowestIn
<1> QED
  BY <1>2 DEF Accept, FreeSlots

LEMMA TypeAccept ==
  ASSUME TypeOK, NEW p \in Peers, Accept(p)
  PROVE  TypeOK'
<1>1. UNCHANGED <<listenVars, opened, said, wire, closes, delivered>>
  BY DEF Accept
<1>2. CASE FreeSlots = {}
  <2>1. peer' = [peer EXCEPT ![p] = "gone"] /\ UNCHANGED <<slotVars, threadVars>>
    BY <1>2 DEF Accept
  <2> QED
    BY <1>1, <2>1 DEF TypeOK, slotVars, threadVars, listenVars
<1>3. CASE FreeSlots # {}
  <2> DEFINE s == Lowest(FreeSlots)
  <2>1. /\ s \in Slots /\ sock' = [sock EXCEPT ![s] = p] /\ msg' = msg
        /\ state' = [state EXCEPT ![s] = "CONNECTING"]
        /\ counted' = [counted EXCEPT ![s] = FALSE] /\ at' = [at EXCEPT ![p] = s]
        /\ thr' = [thr EXCEPT ![p] = "handshake"] /\ peer' = [peer EXCEPT ![p] = "open"]
    BY <1>3, Accepted
  <2> HIDE DEF s
  <2> QED
    BY <1>1, <2>1 DEF TypeOK, listenVars, Places, Living
<1> QED
  BY <1>2, <1>3

LEMMA TypePeer ==
  ASSUME TypeOK, NEW p \in Peers, PeerDoes(p)
  PROVE  TypeOK'
<1>1. UNCHANGED <<listenVars, slotVars, opened, threadVars, closes, delivered>>
  BY DEF PeerDoes, SendData, SendControl, SendClose, Quit
<1>2. CASE SendData(p)
  <2>1. PICK o \in Ops :
          /\ said' = [said EXCEPT ![p] = Append(@, o)]
          /\ wire' = [wire EXCEPT ![p] = Append(@, <<"data", Len(said[p]) + 1>>)]
          /\ peer' = IF Next1(p, o) THEN peer ELSE [peer EXCEPT ![p] = "wrong"]
    BY <1>2 DEF SendData
  <2>2. said[p] \in Seq(Ops) /\ wire[p] \in Seq(Wires)
    BY DEF TypeOK
  <2>3. Append(said[p], o) \in Seq(Ops)
    BY <2>2
  <2>4. Append(wire[p], <<"data", Len(said[p]) + 1>>) \in Seq(Wires)
    <3>1. <<"data", Len(said[p]) + 1>> \in Wires
      BY <2>2 DEF Wires
    <3> QED
      BY <2>2, <3>1
  <2>5. said' \in [Peers -> Seq(Ops)] /\ wire' \in [Peers -> Seq(Wires)]
    BY <2>1, <2>3, <2>4, ExceptType DEF TypeOK
  <2>6. peer' \in [Peers -> {"new", "open", "wrong", "closing", "gone"}]
    BY <2>1 DEF TypeOK
  <2> QED
    BY <1>1, <2>5, <2>6 DEF TypeOK, listenVars, slotVars, threadVars
<1>3. CASE SendControl(p)
  <2>1. PICK k \in Controls :
          /\ wire' = [wire EXCEPT ![p] = Append(@, <<k, 0>>)]
          /\ peer' = IF k # "bad" THEN peer ELSE [peer EXCEPT ![p] = "wrong"]
    BY <1>3 DEF SendControl
  <2>2. <<k, 0>> \in Wires
    BY WsServerAssumption DEF Wires
  <2>3. wire' \in [Peers -> Seq(Wires)]
    <3>1. Append(wire[p], <<k, 0>>) \in Seq(Wires)
      BY <2>2 DEF TypeOK
    <3> QED
      BY <2>1, <3>1, ExceptType DEF TypeOK
  <2>4. peer' \in [Peers -> {"new", "open", "wrong", "closing", "gone"}]
    BY <2>1 DEF TypeOK
  <2>5. said' = said
    BY <1>3 DEF SendControl
  <2> QED
    BY <1>1, <2>3, <2>4, <2>5 DEF TypeOK, listenVars, slotVars, threadVars
<1>4. CASE SendClose(p)
  <2>1. <<"close", 0>> \in Wires
    BY DEF Wires
  <2>2. Append(wire[p], <<"close", 0>>) \in Seq(Wires)
    BY <2>1 DEF TypeOK
  <2>3. wire' \in [Peers -> Seq(Wires)]
    BY <1>4, <2>2, ExceptType DEF SendClose, TypeOK
  <2> QED
    BY <1>1, <1>4, <2>3 DEF SendClose, TypeOK, listenVars, slotVars, threadVars
<1>5. CASE Quit(p)
  BY <1>1, <1>5 DEF Quit, TypeOK, listenVars, slotVars, threadVars
<1> QED
  BY <1>2, <1>3, <1>4, <1>5 DEF PeerDoes

LEMMA NothingType == Nothing \in Messages
BY DEF Nothing, Messages

\* What reading one data frame comes to.
Message(p) == WithFrame(msg[p], said[p][Len(said[p])], <<p, Len(said[p])>>)

Fits(p) == Expected(p, said[p][Len(said[p])][1]) /\ state[at[p]] # "CLOSING"
Text(p) == IF said[p][Len(said[p])][2] THEN Message(p).utf = "accept"
           ELSE Message(p).utf # "reject"
Final(p) == said[p][Len(said[p])][2]

LEMMA ReadDataOwn ==
  ASSUME TypeOK, OwnInv, WireInv, NEW p \in Peers, ReadData(p)
  PROVE  /\ thr' = [thr EXCEPT ![p] = IF Fits(p) /\ Text(p) THEN "read" ELSE "event"]
         /\ msg' = [msg EXCEPT ![p] = IF Fits(p) /\ Text(p) /\ ~Final(p)
                                      THEN Message(p) ELSE Nothing]
         /\ delivered' = IF Fits(p) /\ Text(p) /\ Final(p) /\ Served(Port[p])
                         THEN [delivered EXCEPT ![p] = Append(@, Message(p).frames)]
                         ELSE delivered
         /\ closes' = IF Fits(p) /\ ~Text(p) THEN [closes EXCEPT ![p] = @ + 1] ELSE closes
         /\ wire' = [wire EXCEPT ![p] = Tail(@)]
         /\ UNCHANGED <<listenVars, slotVars, opened, at, said, peer>>
<1>1. Reads(p) /\ First(p)[1] = "data" /\ Taken(p)
  BY DEF ReadData
<1>2. Source(p) = p /\ First(p)[2] = Len(said[p]) /\ wire' = [wire EXCEPT ![p] = Tail(@)]
  BY <1>1, ReadsOwn, ReadsData
<1> QED
  BY <1>2, Zenon DEF ReadData, Message, Fits, Text, Final, Goes

LEMMA MessageType ==
  ASSUME TypeOK, NEW p \in Peers, said[p][Len(said[p])] \in Ops
  PROVE  /\ Message(p) \in Messages
         /\ Message(p).frames \in Seq(FrameNames)
         /\ msg[p].frames \in Seq(FrameNames)
         /\ msg[p].utf \in {"accept", "half", "reject"}
         /\ Message(p).frames = Append(msg[p].frames, <<p, Len(said[p])>>)
<1>1. /\ msg[p].utf \in {"accept", "half", "reject"} /\ msg[p].frames \in Seq(FrameNames)
      /\ msg[p].type \in {None, "txt", "bin"}
  BY DEF TypeOK, Messages
<1>2. <<p, Len(said[p])>> \in FrameNames
  BY DEF TypeOK, FrameNames
<1>3. Append(msg[p].frames, <<p, Len(said[p])>>) \in Seq(FrameNames)
  BY <1>1, <1>2
<1>4. Decode(msg[p].utf, said[p][Len(said[p])][3]) \in {"accept", "half", "reject"}
  BY <1>1 DEF Decode
<1>5. said[p][Len(said[p])][1] \in {"txt", "bin", "cont"}
  BY WsServerAssumption
<1> QED
  BY <1>1, <1>3, <1>4, <1>5 DEF Message, WithFrame, Messages

LEMMA TypeReading ==
  ASSUME TypeOK, OwnInv, WireInv, NEW p \in Peers, ReadFrame(p)
  PROVE  TypeOK'
<1>t. /\ wire \in [Peers -> Seq(Wires)] /\ thr \in [Peers -> Places]
      /\ msg \in [Peers -> Messages] /\ closes \in [Peers -> Nat]
      /\ delivered \in [Peers -> Seq(Seq(FrameNames))]
  BY DEF TypeOK
<1>p. "read" \in Places /\ "event" \in Places /\ "reply" \in Places
  BY DEF Places, Living
<1>n. [msg EXCEPT ![p] = Nothing] \in [Peers -> Messages]
  BY <1>t, NothingType, ExceptType
<1>w. ASSUME Reads(p), Taken(p)
      PROVE  wire' \in [Peers -> Seq(Wires)]
  <2>1. wire' = [wire EXCEPT ![p] = Tail(wire[p])] /\ Tail(wire[p]) \in Seq(Wires)
    BY <1>w, ReadsOwn
  <2> QED
    BY <1>t, <2>1, ExceptType
<1>1. CASE ReadFails(p)
  <2>1. /\ thr' = [thr EXCEPT ![p] = "event"] /\ msg' = [msg EXCEPT ![p] = Nothing]
        /\ UNCHANGED <<listenVars, slotVars, opened, at, said, wire, peer, closes, delivered>>
    BY <1>1 DEF ReadFails, Goes, peerVars
  <2>2. thr' \in [Peers -> Places] /\ msg' \in [Peers -> Messages]
    BY <1>t, <1>p, <1>n, <2>1, ExceptType
  <2> QED
    BY <2>1, <2>2 DEF TypeOK, listenVars, slotVars
<1>2. CASE ReadData(p)
  <2>1. /\ thr' = [thr EXCEPT ![p] = IF Fits(p) /\ Text(p) THEN "read" ELSE "event"]
        /\ msg' = [msg EXCEPT ![p] = IF Fits(p) /\ Text(p) /\ ~Final(p)
                                     THEN Message(p) ELSE Nothing]
        /\ delivered' = IF Fits(p) /\ Text(p) /\ Final(p) /\ Served(Port[p])
                        THEN [delivered EXCEPT ![p] = Append(delivered[p], Message(p).frames)]
                        ELSE delivered
        /\ closes' = IF Fits(p) /\ ~Text(p) THEN [closes EXCEPT ![p] = closes[p] + 1] ELSE closes
        /\ UNCHANGED <<listenVars, slotVars, opened, at, said, peer>>
    BY <1>2, ReadDataOwn
  <2>l. said[p][Len(said[p])] \in Ops
    BY <1>2, ReadsData DEF ReadData
  <2>2. wire' \in [Peers -> Seq(Wires)]
    BY <1>2, <1>w DEF ReadData
  <2>3. thr' \in [Peers -> Places]
    BY <1>t, <1>p, <2>1, ExceptType
  <2>4. msg' \in [Peers -> Messages]
    <3>1. (IF Fits(p) /\ Text(p) /\ ~Final(p) THEN Message(p) ELSE Nothing) \in Messages
      BY <2>l, MessageType, NothingType
    <3> QED
      BY <1>t, <2>1, <3>1, ExceptType
  <2>5. delivered' \in [Peers -> Seq(Seq(FrameNames))]
    <3>1. Message(p).frames \in Seq(FrameNames)
      BY <2>l, MessageType
    <3>2. Append(delivered[p], Message(p).frames) \in Seq(Seq(FrameNames))
      BY <1>t, <3>1
    <3> QED
      BY <1>t, <2>1, <3>2, ExceptType
  <2>6. closes' \in [Peers -> Nat]
    <3>1. closes[p] + 1 \in Nat
      BY <1>t
    <3> QED
      BY <1>t, <2>1, <3>1, ExceptType
  <2> QED
    BY <2>1, <2>2, <2>3, <2>4, <2>5, <2>6 DEF TypeOK, listenVars, slotVars
<1>3. CASE ReadPing(p)
  <2>1. wire' \in [Peers -> Seq(Wires)]
    BY <1>3, <1>w DEF ReadPing
  <2> QED
    BY <1>3, <2>1 DEF ReadPing, TypeOK, listenVars, slotVars, threadVars
<1>4. CASE ReadBad(p) \/ ReadClose(p)
  <2>1. wire' \in [Peers -> Seq(Wires)]
    BY <1>4, <1>w DEF ReadBad, ReadClose
  <2>2. /\ msg' = [msg EXCEPT ![p] = Nothing]
        /\ \/ thr' = [thr EXCEPT ![p] = "event"]
           \/ thr' = [thr EXCEPT ![p] = "reply"]
        /\ UNCHANGED <<listenVars, slotVars, opened, at, said, peer, closes, delivered>>
    BY <1>4 DEF ReadBad, ReadClose, Goes
  <2>3. thr' \in [Peers -> Places] /\ msg' \in [Peers -> Messages]
    BY <1>t, <1>p, <1>n, <2>2, ExceptType
  <2> QED
    BY <2>1, <2>2, <2>3 DEF TypeOK, listenVars, slotVars
<1> QED
  BY <1>1, <1>2, <1>3, <1>4 DEF ReadFrame

LEMMA TypeThread ==
  ASSUME TypeOK, OwnInv, NEW p \in Peers,
         \/ Handshake(p) \/ HandshakeFails(p) \/ Reply(p) \/ OnClose(p) \/ Closed(p)
         \/ CloseTest(p) \/ CloseFree(p)
  PROVE  TypeOK'
<1>1. UNCHANGED <<listenVars, counted, at, msg, said, wire, peer, delivered>>
  BY DEF Handshake, HandshakeFails, Reply, OnClose, Closed, CloseTest, CloseFree,
         slotVars, peerVars
<1>2. thr' \in [Peers -> Places]
  <2>1. PICK x \in Places : Goes(p, x)
    BY DEF Handshake, HandshakeFails, Reply, OnClose, Closed, CloseTest, CloseFree,
           Places, Living
  <2> QED
    BY <2>1, ExceptType DEF Goes, TypeOK
<1>3. sock' \in [Slots -> Peers \cup {None}]
  BY DEF Handshake, HandshakeFails, Reply, OnClose, Closed, CloseTest, CloseFree,
         Free, TypeOK, slotVars
<1>4. opened' \in [Slots -> Peers \cup {None}]
  BY DEF Handshake, HandshakeFails, Reply, OnClose, Closed, CloseTest, CloseFree,
         TypeOK
<1>5. state' \in [Slots -> {None, "CONNECTING", "OPEN", "CLOSING", "CLOSED"}]
  BY DEF Handshake, HandshakeFails, Reply, OnClose, Closed, CloseTest, CloseFree,
         Shut, TypeOK, slotVars
<1>6. closes' \in [Peers -> Nat]
  <2>1. closes' = closes \/ closes' = [closes EXCEPT ![Source(p)] = closes[Source(p)] + 1]
    BY DEF Handshake, HandshakeFails, Reply, OnClose, Closed, CloseTest, CloseFree
  <2>2. Source(p) \in Peers => closes[Source(p)] + 1 \in Nat
    BY DEF TypeOK
  <2>3. Source(p) \notin Peers =>
          [closes EXCEPT ![Source(p)] = closes[Source(p)] + 1] = closes
    BY DEF TypeOK
  <2>4. closes \in [Peers -> Nat]
    BY DEF TypeOK
  <2> QED
    BY <2>1, <2>2, <2>3, <2>4, ExceptType
<1> QED
  BY <1>1, <1>2, <1>3, <1>4, <1>5, <1>6 DEF TypeOK, listenVars

LEMMA TypeKeeps ==
  ASSUME ServerCloses = {}, TypeOK, UnaskedInv, OwnInv, WireInv, [Next]_vars
  PROVE  TypeOK'
<1>1. CASE UNCHANGED vars
  BY <1>1 DEF vars, TypeOK, slotVars, listenVars, threadVars, peerVars
<1> QED
  BY <1>1, Steps, TypeStart, TypeAccept, TypePeer, TypeReading, TypeThread
     DEF ThreadStep

-----------------------------------------------------------------------------
(* Who has an entry                                                         *)

\* A living thread that does not speak has an entry nobody was opened with.
LEMMA Silent ==
  ASSUME TypeOK, OwnInv, NEW p \in Peers, thr[p] \in Living \ Speaking
  PROVE  opened[at[p]] = None
<1>1. SUFFICES ASSUME opened[at[p]] # None PROVE FALSE
  OBVIOUS
<1>2. at[p] \in Slots /\ sock[at[p]] = p
  BY DEF OwnInv, TypeOK
<1>3. opened[at[p]] \in Peers /\ thr[opened[at[p]]] \in Speaking
      /\ at[opened[at[p]]] = at[p]
  BY <1>1, <1>2 DEF OwnInv, TypeOK
<1>4. sock[at[opened[at[p]]]] = opened[at[p]]
  BY <1>3 DEF OwnInv, Living, Speaking
<1> QED
  BY <1>2, <1>3, <1>4

\* A step of a living thread that goes on living.
LEMMA OwnStep ==
  ASSUME TypeOK, OwnInv, NEW p \in Peers, thr[p] \in Living,
         NEW x \in Living, Goes(p, x),
         UNCHANGED <<starting, sock, counted, at, peer>>,
         \A s \in Slots \ {at[p]} : state'[s] = state[s] /\ opened'[s] = opened[s],
         x \in Speaking => opened'[at[p]] = p,
         x \notin Speaking => opened'[at[p]] = None,
         x # "free" => state'[at[p]] # "CLOSED",
         x = "read" => state'[at[p]] # "CLOSING"
  PROVE  OwnInv'
<1>1. thr'[p] = x /\ \A q \in Peers \ {p} : thr'[q] = thr[q]
  BY DEF Goes, TypeOK
<1>2. \A q \in Peers \ {p} : thr[q] \in Living => at[q] # at[p]
  BY Own
<1>3. Speaking \subseteq Living /\ None \notin Living /\ "join" \notin Living
  BY DEF Speaking, Living, None
<1>4. at[p] \in Slots /\ sock[at[p]] = p /\ ~counted[at[p]] /\ peer[p] # "new"
      /\ \A t \in Ports : starting[t] = "on"
  <2>1. thr[p] # None
    BY <1>3
  <2>2. at[p] \in Slots
    BY DEF TypeOK
  <2> QED
    BY <2>1, <2>2 DEF OwnInv
<1>5. \A q \in Peers : at[q] \in Slots
  BY DEF TypeOK
<1>6. \A q \in Peers : /\ (thr'[q] # None => \A t \in Ports : starting'[t] = "on")
                       /\ thr'[q] # "join" /\ (peer'[q] = "new" => thr'[q] = None)
                       /\ (thr'[q] \in Living => sock'[at'[q]] = q /\ ~counted'[at'[q]])
  BY <1>1, <1>3, <1>4 DEF OwnInv
<1>7. \A s \in Slots : sock'[s] # None => thr'[sock'[s]] \in Living /\ at'[sock'[s]] = s
  <2>1. SUFFICES ASSUME NEW s \in Slots, sock[s] # None
                 PROVE  thr'[sock[s]] \in Living /\ at[sock[s]] = s
    OBVIOUS
  <2>2. sock[s] \in Peers /\ thr[sock[s]] \in Living /\ at[sock[s]] = s
    BY <2>1 DEF OwnInv, TypeOK
  <2> QED
    BY <1>1, <2>2
<1>8. \A q \in Peers : thr'[q] \in Speaking => opened'[at'[q]] = q
  BY <1>1, <1>2, <1>3, <1>5 DEF OwnInv
<1>9. \A s \in Slots : opened'[s] # None =>
        thr'[opened'[s]] \in Speaking /\ at'[opened'[s]] = s
  <2>1. SUFFICES ASSUME NEW s \in Slots, opened'[s] # None
                 PROVE  thr'[opened'[s]] \in Speaking /\ at'[opened'[s]] = s
    OBVIOUS
  <2>2. CASE s = at[p]
    BY <1>1, <2>1, <2>2
  <2>3. CASE s # at[p]
    <3>1. /\ opened'[s] = opened[s] /\ opened[s] \in Peers
          /\ thr[opened[s]] \in Speaking /\ at[opened[s]] = s
      BY <2>1, <2>3 DEF OwnInv, TypeOK
    <3> QED
      BY <1>1, <2>3, <3>1
  <2> QED
    BY <2>2, <2>3
<1>10. \A q \in Peers : /\ (thr'[q] \in Living \ {"free"} => state'[at'[q]] # "CLOSED")
                        /\ (thr'[q] = "read" => state'[at'[q]] # "CLOSING")
  <2>1. \A q \in Peers \ {p} : thr[q] \in Living => state'[at[q]] = state[at[q]]
    BY <1>2, <1>5
  <2> QED
    BY <1>1, <2>1 DEF OwnInv, Living
<1> QED
  BY <1>6, <1>7, <1>8, <1>9, <1>10 DEF OwnInv

LEMMA OwnStart ==
  ASSUME TypeOK, OwnInv, NEW t \in Ports, Start(t)
  PROVE  OwnInv'
<1>1. starting[t] # "on" /\ UNCHANGED <<thr, at, opened, peer>>
  BY DEF Start, CopyEvents, CountEvents, ClearTable, threadVars, peerVars
<1>2. /\ \A p \in Peers : thr[p] = None
      /\ \A s \in Slots : sock[s] = None /\ opened[s] = None
  BY <1>1, Idle
<1>3. \A s \in Slots : sock'[s] = None
  BY <1>2 DEF Start, CopyEvents, CountEvents, ClearTable, slotVars
<1>4. None \notin Living /\ None \notin Speaking /\ None # "join" /\ None # "read"
  BY DEF Living, Speaking, None
<1> QED
  BY <1>1, <1>2, <1>3, <1>4 DEF OwnInv

LEMMA OwnAccept ==
  ASSUME Calm, TypeOK, OwnInv, NEW p \in Peers, Accept(p)
  PROVE  OwnInv'
<1>1. /\ \A t \in Ports : starting[t] = "on" /\ starting'[t] = "on"
      /\ opened' = opened /\ peer[p] = "new" /\ thr[p] = None
  BY DEF Accept, OwnInv, listenVars
<1>2. CASE FreeSlots = {}
  <2>1. peer' = [peer EXCEPT ![p] = "gone"] /\ UNCHANGED <<slotVars, threadVars>>
    BY <1>2 DEF Accept
  <2> QED
    BY <1>1, <2>1 DEF OwnInv, TypeOK, slotVars, threadVars
<1>3. CASE FreeSlots # {}
  <2> DEFINE s == Lowest(FreeSlots)
  <2>1. /\ s \in Slots /\ sock[s] = None /\ sock' = [sock EXCEPT ![s] = p]
        /\ state' = [state EXCEPT ![s] = "CONNECTING"]
        /\ counted' = [counted EXCEPT ![s] = FALSE] /\ at' = [at EXCEPT ![p] = s]
        /\ thr' = [thr EXCEPT ![p] = "handshake"] /\ peer' = [peer EXCEPT ![p] = "open"]
    BY <1>3, Accepted
  <2> HIDE DEF s
  <2>2. /\ sock'[s] = p /\ state'[s] = "CONNECTING" /\ ~counted'[s]
        /\ \A u \in Slots \ {s} : /\ sock'[u] = sock[u] /\ state'[u] = state[u]
                                  /\ counted'[u] = counted[u]
    BY <2>1 DEF TypeOK
  <2>3. /\ thr'[p] = "handshake" /\ at'[p] = s /\ peer'[p] = "open"
        /\ \A q \in Peers \ {p} : thr'[q] = thr[q] /\ at'[q] = at[q] /\ peer'[q] = peer[q]
    BY <2>1 DEF TypeOK
  <2>4. \A q \in Peers : at[q] \in Slots /\ (thr[q] \in Living => at[q] # s)
    BY <2>1, WsServerAssumption DEF OwnInv, TypeOK, None
  <2>5. /\ "handshake" \in Living /\ "handshake" \notin Speaking /\ None \notin Living
        /\ Speaking \subseteq Living /\ "read" \in Living /\ None \notin Peers
    BY WsServerAssumption DEF Living, Speaking, None
  <2>6. \A q \in Peers : /\ thr'[q] # "join" /\ (peer'[q] = "new" => thr'[q] = None)
                         /\ (thr'[q] \in Living => sock'[at'[q]] = q /\ ~counted'[at'[q]])
    BY <2>2, <2>3, <2>4, <2>5 DEF OwnInv
  <2>7. \A u \in Slots : sock'[u] # None => thr'[sock'[u]] \in Living /\ at'[sock'[u]] = u
    <3>1. SUFFICES ASSUME NEW u \in Slots, sock'[u] # None
                   PROVE  thr'[sock'[u]] \in Living /\ at'[sock'[u]] = u
      OBVIOUS
    <3>2. CASE u = s
      BY <2>2, <2>3, <2>5, <3>2
    <3>3. CASE u # s
      <4>1. sock[u] \in Peers /\ thr[sock[u]] \in Living /\ at[sock[u]] = u
            /\ sock'[u] = sock[u]
        BY <2>2, <3>1, <3>3 DEF OwnInv, TypeOK
      <4>2. sock[u] # p
        BY <1>1, <2>5, <4>1
      <4> QED
        BY <2>3, <4>1, <4>2
    <3> QED
      BY <3>2, <3>3
  <2>8. \A q \in Peers : thr'[q] \in Speaking => opened'[at'[q]] = q
    BY <1>1, <2>3, <2>5 DEF OwnInv
  <2>9. \A u \in Slots : opened'[u] # None =>
          thr'[opened'[u]] \in Speaking /\ at'[opened'[u]] = u
    <3>1. SUFFICES ASSUME NEW u \in Slots, opened[u] # None
                   PROVE  thr'[opened[u]] \in Speaking /\ at'[opened[u]] = u
      BY <1>1
    <3>2. opened[u] \in Peers /\ thr[opened[u]] \in Speaking /\ at[opened[u]] = u
      BY <3>1 DEF OwnInv, TypeOK
    <3> QED
      BY <1>1, <2>3, <2>5, <3>2
  <2>10. \A q \in Peers : /\ (thr'[q] \in Living \ {"free"} => state'[at'[q]] # "CLOSED")
                          /\ (thr'[q] = "read" => state'[at'[q]] # "CLOSING")
    BY <2>2, <2>3, <2>4, <2>5 DEF OwnInv
  <2> QED
    BY <1>1, <2>6, <2>7, <2>8, <2>9, <2>10 DEF OwnInv
<1> QED
  BY <1>2, <1>3

LEMMA OwnPeer ==
  ASSUME TypeOK, OwnInv, NEW p \in Peers, PeerDoes(p)
  PROVE  OwnInv'
<1>1. /\ UNCHANGED <<starting, sock, state, counted, opened, thr, at>>
      /\ \A q \in Peers : peer'[q] = "new" => peer[q] = "new"
  BY DEF PeerDoes, SendData, SendControl, SendClose, Quit, listenVars, slotVars,
         threadVars, TypeOK
<1> QED
  BY <1>1 DEF OwnInv

LEMMA OwnThread ==
  ASSUME TypeOK, OwnInv, ListenInv, WireInv, NEW p \in Peers, ThreadStep(p)
  PROVE  OwnInv'
<1>n. /\ Living = {"handshake", "read", "reply", "event", "closed", "test", "free"}
      /\ Speaking = {"read", "reply", "event"}
  BY DEF Living, Speaking
<1>a. /\ at[p] \in Slots
      /\ thr[p] \in Living => sock[at[p]] = p /\ ~counted[at[p]] /\ peer[p] # "new"
      /\ thr[p] \in Speaking => opened[at[p]] = p
      /\ thr[p] \in Living \ Speaking => opened[at[p]] = None
      /\ thr[p] \in Living \ {"free"} => state[at[p]] # "CLOSED"
      /\ thr[p] = "read" => state[at[p]] # "CLOSING"
  BY Silent, <1>n DEF OwnInv, TypeOK, None
<1>s. thr[p] \in Living => Served(Port[p])
  <2>1. SUFFICES ASSUME thr[p] \in Living PROVE Served(Port[p])
    OBVIOUS
  <2>2. Port[p] \in Ports /\ thr[p] # None
    BY <1>n, <2>1, WsServerAssumption DEF None
  <2> QED
    BY <2>2 DEF OwnInv, ListenInv
<1>1. CASE Handshake(p)
  <2>1. /\ thr[p] = "handshake" /\ Goes(p, "read")
        /\ state' = [state EXCEPT ![at[p]] = "OPEN"]
        /\ opened' = [opened EXCEPT ![at[p]] = p]
        /\ UNCHANGED <<starting, sock, counted, at, peer>>
    BY <1>1, <1>n, <1>s DEF Handshake, listenVars, peerVars
  <2>2. /\ state'[at[p]] = "OPEN" /\ opened'[at[p]] = p
        /\ \A s \in Slots \ {at[p]} : state'[s] = state[s] /\ opened'[s] = opened[s]
    BY <1>a, <2>1 DEF TypeOK
  <2> QED
    BY <1>n, <2>1, <2>2, OwnStep
<1>2. CASE HandshakeFails(p)
  <2>1. /\ thr[p] = "handshake" /\ Goes(p, "closed")
        /\ UNCHANGED <<starting, sock, state, opened, counted, at, peer>>
    BY <1>2 DEF HandshakeFails, listenVars, slotVars, peerVars
  <2> QED
    BY <1>n, <1>a, <2>1, OwnStep
<1>3. CASE ReadFrame(p)
  <2>1. UNCHANGED <<starting, sock, state, opened, counted, at, peer>>
    BY <1>3 DEF ReadFrame, ReadFails, ReadData, ReadPing, ReadBad, ReadClose,
                listenVars, slotVars, peerVars, threadVars
  <2>2. thr[p] = "read"
    BY <1>3 DEF ReadFrame, Reads, ReadFails, ReadData, ReadPing, ReadBad, ReadClose
  <2>3. Goes(p, "read") \/ Goes(p, "event") \/ Goes(p, "reply")
    <3>1. thr' = thr => Goes(p, "read")
      BY <2>2 DEF Goes, TypeOK
    <3> QED
      BY <1>3, <3>1 DEF ReadFrame, ReadFails, ReadData, ReadPing, ReadBad, ReadClose,
                        threadVars
  <2>4. ASSUME Goes(p, "read") PROVE OwnInv'
    BY <1>n, <1>a, <2>1, <2>2, <2>4, OwnStep
  <2>5. ASSUME Goes(p, "event") PROVE OwnInv'
    BY <1>n, <1>a, <2>1, <2>2, <2>5, OwnStep
  <2>6. ASSUME Goes(p, "reply") PROVE OwnInv'
    BY <1>n, <1>a, <2>1, <2>2, <2>6, OwnStep
  <2> QED
    BY <2>3, <2>4, <2>5, <2>6
<1>4. CASE Reply(p)
  <2>1. /\ thr[p] = "reply" /\ Goes(p, "event") /\ opened' = opened
        /\ state' = [state EXCEPT ![at[p]] = "CLOSING"] \/ state' = state
        /\ UNCHANGED <<starting, sock, counted, at, peer>>
    BY <1>4 DEF Reply, listenVars, peerVars
  <2>2. /\ state'[at[p]] # "CLOSED"
        /\ \A s \in Slots \ {at[p]} : state'[s] = state[s] /\ opened'[s] = opened[s]
    BY <1>n, <1>a, <2>1 DEF TypeOK
  <2> QED
    BY <1>n, <1>a, <2>1, <2>2, OwnStep
<1>5. CASE OnClose(p)
  <2>1. /\ thr[p] = "event" /\ Goes(p, "closed")
        /\ opened' = [opened EXCEPT ![at[p]] = None]
        /\ UNCHANGED <<starting, sock, state, counted, at, peer>>
    BY <1>5, <1>n, <1>s DEF OnClose, listenVars, slotVars, peerVars
  <2>2. /\ opened'[at[p]] = None
        /\ \A s \in Slots \ {at[p]} : state'[s] = state[s] /\ opened'[s] = opened[s]
    BY <1>a, <2>1 DEF TypeOK
  <2> QED
    BY <1>n, <1>a, <2>1, <2>2, OwnStep
<1>6. CASE Closed(p)
  <2>1. /\ thr[p] = "closed" /\ Goes(p, "test")
        /\ UNCHANGED <<starting, sock, state, opened, counted, at, peer>>
    BY <1>6, <1>n, <1>a DEF Closed, listenVars, slotVars, peerVars
  <2> QED
    BY <1>n, <1>a, <2>1, OwnStep
<1>7. CASE CloseTest(p)
  <2>1. Valid(at[p])
    BY <1>7, <1>n, <1>a, WsServerAssumption DEF CloseTest, Valid, None
  <2>2. /\ thr[p] = "test" /\ Goes(p, "free")
        /\ state' = [state EXCEPT ![at[p]] = "CLOSED"]
        /\ UNCHANGED <<starting, sock, opened, counted, at, peer>>
    BY <1>7, <1>n, <1>a, <2>1 DEF CloseTest, Shut, listenVars, peerVars
  <2>3. \A s \in Slots \ {at[p]} : state'[s] = state[s]
    BY <2>2 DEF TypeOK
  <2> QED
    BY <1>n, <1>a, <2>2, <2>3, OwnStep
<1>8. CASE CloseFree(p)
  <2>1. /\ thr[p] = "free" /\ thr' = [thr EXCEPT ![p] = "end"]
        /\ sock' = [sock EXCEPT ![at[p]] = None]
        /\ UNCHANGED <<starting, state, opened, counted, at, peer>>
    BY <1>8 DEF CloseFree, Free, Goes, listenVars, peerVars
  <2>2. /\ thr'[p] = "end" /\ \A q \in Peers \ {p} : thr'[q] = thr[q]
        /\ \A s \in Slots \ {at[p]} : sock'[s] = sock[s]
        /\ sock'[at[p]] = None
    BY <1>a, <2>1 DEF TypeOK
  <2>3. \A q \in Peers \ {p} : at[q] \in Slots /\ (thr[q] \in Living => at[q] # at[p])
    BY <1>n, <2>1, Own DEF TypeOK
  <2>4. \A q \in Peers :
          /\ (thr'[q] # None => \A t \in Ports : starting'[t] = "on")
          /\ thr'[q] # "join" /\ (peer'[q] = "new" => thr'[q] = None)
          /\ (thr'[q] \in Living => sock'[at'[q]] = q /\ ~counted'[at'[q]])
          /\ (thr'[q] \in Speaking => opened'[at'[q]] = q)
          /\ (thr'[q] \in Living \ {"free"} => state'[at'[q]] # "CLOSED")
          /\ (thr'[q] = "read" => state'[at'[q]] # "CLOSING")
    BY <1>n, <1>a, <2>1, <2>2, <2>3 DEF OwnInv, None
  <2>5. \A s \in Slots : sock'[s] # None => thr'[sock'[s]] \in Living /\ at'[sock'[s]] = s
    <3>1. SUFFICES ASSUME NEW s \in Slots, sock'[s] # None
                   PROVE  thr'[sock'[s]] \in Living /\ at'[sock'[s]] = s
      OBVIOUS
    <3>2. s # at[p] /\ sock'[s] = sock[s] /\ sock[s] \in Peers
          /\ thr[sock[s]] \in Living /\ at[sock[s]] = s
      BY <2>2, <3>1 DEF OwnInv, TypeOK
    <3> QED
      BY <2>1, <2>2, <3>2
  <2>6. \A s \in Slots : opened'[s] # None =>
          thr'[opened'[s]] \in Speaking /\ at'[opened'[s]] = s
    <3>1. SUFFICES ASSUME NEW s \in Slots, opened[s] # None
                   PROVE  thr'[opened[s]] \in Speaking /\ at'[opened[s]] = s
      BY <2>1
    <3>2. opened[s] \in Peers /\ thr[opened[s]] \in Speaking /\ at[opened[s]] = s
      BY <3>1 DEF OwnInv, TypeOK
    <3> QED
      BY <1>n, <2>1, <2>2, <3>2
  <2> QED
    BY <2>4, <2>5, <2>6 DEF OwnInv
<1> QED
  BY <1>1, <1>2, <1>3, <1>4, <1>5, <1>6, <1>7, <1>8 DEF ThreadStep

LEMMA OwnKeeps ==
  ASSUME Calm, ServerCloses = {}, TypeOK, UnaskedInv, ListenInv, OwnInv, WireInv,
         [Next]_vars
  PROVE  OwnInv'
<1>1. CASE UNCHANGED vars
  BY <1>1 DEF vars, OwnInv, slotVars, listenVars, threadVars, peerVars
<1> QED
  BY <1>1, Steps, OwnStart, OwnAccept, OwnPeer, OwnThread

-----------------------------------------------------------------------------
(* What is on its way, and the answer to a CLOSE                            *)

LEMMA TailOf ==
  ASSUME NEW S, NEW w \in Seq(S), w # <<>>
  PROVE  /\ Tail(w) \in Seq(S) /\ Len(Tail(w)) = Len(w) - 1 /\ Len(w) \in Nat \ {0}
         /\ \A i \in 1 .. Len(w) - 1 : Tail(w)[i] = w[i + 1]
OBVIOUS

LEMMA NotEmpty ==
  ASSUME NEW w, Len(w) # 0
  PROVE  w # <<>>
<1>1. Len(<<>>) = 0
  OBVIOUS
<1> QED
  BY <1>1, Zenon

\* What the peers, and the reading of frames, do to the wires.
LEMMA WireSteps ==
  ASSUME ServerCloses = {}, TypeOK, UnaskedInv, OwnInv, [Next]_vars
  PROVE  \/ UNCHANGED <<wire, said>>
         \/ \E p \in Peers : SendData(p) \/ SendControl(p) \/ SendClose(p)
         \/ \E p \in Peers : Reads(p) /\ Taken(p) /\ said' = said
<1>1. ASSUME NEW t \in Ports, Start(t) PROVE UNCHANGED <<wire, said>>
  BY <1>1 DEF Start, CopyEvents, CountEvents, ClearTable, peerVars
<1>2. ASSUME NEW p \in Peers, Accept(p) PROVE UNCHANGED <<wire, said>>
  BY <1>2 DEF Accept
<1>3. ASSUME NEW p \in Peers, PeerDoes(p)
      PROVE  UNCHANGED <<wire, said>> \/ SendData(p) \/ SendControl(p) \/ SendClose(p)
  BY <1>3 DEF PeerDoes, Quit
<1>4. ASSUME NEW p \in Peers, ReadFrame(p)
      PROVE  UNCHANGED <<wire, said>> \/ (Reads(p) /\ Taken(p) /\ said' = said)
  BY <1>4 DEF ReadFrame, ReadFails, ReadData, ReadPing, ReadBad, ReadClose, peerVars
<1>5. ASSUME NEW p \in Peers, ThreadStep(p), ~ReadFrame(p) PROVE UNCHANGED <<wire, said>>
  BY <1>5 DEF ThreadStep, Handshake, HandshakeFails, Reply, OnClose, Closed, CloseTest,
              CloseFree, peerVars
<1>6. CASE UNCHANGED vars
  BY <1>6 DEF vars, peerVars
<1> QED
  BY <1>1, <1>2, <1>3, <1>4, <1>5, <1>6, Steps

LEMMA WireKeeps ==
  ASSUME ServerCloses = {}, TypeOK, UnaskedInv, OwnInv, WireInv, [Next]_vars
  PROVE  WireInv'
<1> DEFINE Good(q) == \A i \in 1 .. Len(wire[q]) : wire[q][i][1] = "data" =>
                        i = 1 /\ wire[q][1][2] = Len(said[q]) /\ Len(said[q]) > 0
<1>1. CASE UNCHANGED <<wire, said>>
  BY <1>1 DEF WireInv
<1>t. ASSUME NEW p \in Peers
      PROVE  wire[p] \in Seq(Wires) /\ said[p] \in Seq(Ops) /\ Good(p)
  BY DEF TypeOK, WireInv
<1>2. ASSUME NEW p \in Peers, SendData(p) PROVE WireInv'
  <2>1. PICK o \in Ops :
          /\ said' = [said EXCEPT ![p] = Append(@, o)]
          /\ wire' = [wire EXCEPT ![p] = Append(@, <<"data", Len(said[p]) + 1>>)]
    BY <1>2 DEF SendData
  <2>2. wire[p] = <<>>
    BY <1>2 DEF SendData
  <2>3. /\ wire'[p] = <<(<<"data", Len(said[p]) + 1>>)>>
        /\ said'[p] = Append(said[p], o)
        /\ \A q \in Peers \ {p} : wire'[q] = wire[q] /\ said'[q] = said[q]
    BY <2>1, <2>2 DEF TypeOK
  <2>4. Len(said'[p]) = Len(said[p]) + 1 /\ Len(said[p]) \in Nat
    BY <1>t, <2>3
  <2>5. Good(p)'
    BY <2>3, <2>4
  <2> QED
    BY <1>t, <2>3, <2>5 DEF WireInv
<1>3. ASSUME NEW p \in Peers, SendControl(p) \/ SendClose(p) PROVE WireInv'
  <2>1. PICK k \in Controls \cup {"close"} :
          wire' = [wire EXCEPT ![p] = Append(@, <<k, 0>>)] /\ said' = said
    BY <1>3 DEF SendControl, SendClose
  <2>2. k # "data"
    BY <2>1, WsServerAssumption
  <2>3. /\ wire'[p] = Append(wire[p], <<k, 0>>)
        /\ \A q \in Peers \ {p} : wire'[q] = wire[q]
    BY <2>1 DEF TypeOK
  <2>4. /\ Len(wire'[p]) = Len(wire[p]) + 1 /\ Len(wire[p]) \in Nat
        /\ \A i \in 1 .. Len(wire[p]) : wire'[p][i] = wire[p][i]
        /\ wire'[p][Len(wire[p]) + 1] = <<k, 0>>
    BY <1>t, <2>3
  <2>5. Good(p)'
    <3>1. SUFFICES ASSUME NEW i \in 1 .. Len(wire'[p]), wire'[p][i][1] = "data"
                   PROVE  i = 1 /\ wire'[p][1][2] = Len(said[p]) /\ Len(said[p]) > 0
      BY <2>1
    <3>2. i \in 1 .. Len(wire[p])
      BY <2>2, <2>4, <3>1
    <3>3. i = 1 /\ wire[p][1][2] = Len(said[p]) /\ Len(said[p]) > 0
      BY <1>t, <2>4, <3>1, <3>2
    <3> QED
      BY <2>4, <3>2, <3>3
  <2> QED
    BY <1>t, <2>1, <2>3, <2>5 DEF WireInv
<1>4. ASSUME NEW p \in Peers, Reads(p), Taken(p), said' = said PROVE WireInv'
  <2>1. wire' = [wire EXCEPT ![p] = Tail(wire[p])] /\ wire[p] # <<>>
    BY <1>4, ReadsOwn
  <2>2. wire'[p] = Tail(wire[p]) /\ \A q \in Peers \ {p} : wire'[q] = wire[q]
    BY <2>1 DEF TypeOK
  <2>t. wire[p] \in Seq(Wires) /\ Good(p)
    BY <1>t
  <2>3. /\ Len(Tail(wire[p])) = Len(wire[p]) - 1 /\ Len(wire[p]) \in Nat \ {0}
        /\ \A i \in 1 .. Len(wire[p]) - 1 : Tail(wire[p])[i] = wire[p][i + 1]
    BY <2>1, <2>t, TailOf
  <2>4. \A i \in 1 .. Len(Tail(wire[p])) : Tail(wire[p])[i][1] # "data"
    <3>1. SUFFICES ASSUME NEW i \in 1 .. Len(wire[p]) - 1
                   PROVE  wire[p][i + 1][1] # "data"
      BY <2>3
    <3>2. i + 1 \in 1 .. Len(wire[p]) /\ i + 1 # 1
      BY <2>3
    <3> QED
      BY <2>t, <3>2
  <2> QED
    BY <1>t, <1>4, <2>2, <2>4, ZenonT(30) DEF WireInv
<1> QED
  BY <1>1, <1>2, <1>3, <1>4, WireSteps

\* The answers, by peer.
CloseOf(p) ==
  /\ thr[p] \in {None, "handshake", "read", "reply"} => closes[p] = 0
  /\ peer[p] = "closing" /\ wire[p] = <<>> =>
       \/ thr[p] = "reply"
       \/ thr[p] \in {"event", "closed", "test", "free", "end"} /\ closes[p] = 1
  /\ peer[p] = "closing" /\ wire[p] # <<>> => wire[p][Len(wire[p])][1] = "close"

LEMMA CloseOthers ==
  ASSUME CloseInv, NEW p \in Peers, CloseOf(p)',
         \A q \in Peers \ {p} : /\ thr'[q] = thr[q] /\ closes'[q] = closes[q]
                                /\ peer'[q] = peer[q] /\ wire'[q] = wire[q]
  PROVE  CloseInv'
BY DEF CloseInv, CloseOf

\* ReadFrame leaves the CLOSE to come, unless it is what is read.
LEMMA CloseLeft ==
  ASSUME TypeOK, OwnInv, CloseInv, NEW p \in Peers, Reads(p), Taken(p)
  PROVE  /\ wire'[p] = Tail(wire[p]) /\ closes[p] = 0
         /\ \A q \in Peers \ {p} : wire'[q] = wire[q]
         /\ peer[p] = "closing" /\ First(p)[1] # "close" => wire'[p] # <<>>
         /\ peer[p] = "closing" /\ wire'[p] # <<>> =>
              wire'[p][Len(wire'[p])][1] = "close"
<1>1. /\ wire' = [wire EXCEPT ![p] = Tail(wire[p])] /\ wire[p] # <<>>
      /\ wire[p] \in Seq(Wires) /\ First(p) = wire[p][1] /\ thr[p] = "read"
  BY ReadsOwn
<1>2. wire'[p] = Tail(wire[p]) /\ \A q \in Peers \ {p} : wire'[q] = wire[q]
  BY <1>1 DEF TypeOK
<1>3. /\ Tail(wire[p]) \in Seq(Wires) /\ Len(Tail(wire[p])) = Len(wire[p]) - 1
      /\ Len(wire[p]) \in Nat \ {0}
      /\ \A i \in 1 .. Len(wire[p]) - 1 : Tail(wire[p])[i] = wire[p][i + 1]
  BY <1>1, TailOf
<1>4. peer[p] = "closing" => wire[p][Len(wire[p])][1] = "close"
  BY <1>1 DEF CloseInv
<1>5. ASSUME peer[p] = "closing", First(p)[1] # "close" PROVE wire'[p] # <<>>
  <2>1. wire[p][1][1] # "close"
    BY <1>1, <1>5
  <2>2. Len(wire[p]) # 1
    BY <1>4, <1>5, <2>1
  <2>3. Len(Tail(wire[p])) # 0
    BY <1>3, <2>2
  <2>4. Tail(wire[p]) # <<>>
    BY <2>3, NotEmpty
  <2> QED
    BY <1>2, <2>4
<1>6. ASSUME peer[p] = "closing", wire'[p] # <<>>
      PROVE  wire'[p][Len(wire'[p])][1] = "close"
  <2>1. Len(wire[p]) - 1 \in 1 .. Len(wire[p]) - 1
    BY <1>2, <1>3, <1>6
  <2>2. Tail(wire[p])[Len(wire[p]) - 1] = wire[p][Len(wire[p])]
    BY <1>3, <2>1
  <2> QED
    BY <1>2, <1>3, <1>4, <1>6, <2>2
<1> QED
  BY <1>1, <1>2, <1>5, <1>6 DEF CloseInv

LEMMA CloseReading ==
  ASSUME TypeOK, OwnInv, WireInv, CloseInv, NEW p \in Peers, ReadFrame(p)
  PROVE  CloseInv'
<1>1. thr[p] = "read" /\ closes[p] = 0
  BY DEF ReadFrame, ReadFails, ReadData, ReadPing, ReadBad, ReadClose, Reads, CloseInv
<1>2. CASE ReadFails(p)
  <2>1. /\ thr' = [thr EXCEPT ![p] = "event"] /\ UNCHANGED <<peer, wire, closes>>
    BY <1>2 DEF ReadFails, Goes, peerVars
  <2>2. thr'[p] = "event" /\ \A q \in Peers \ {p} : thr'[q] = thr[q]
    BY <2>1 DEF TypeOK
  <2>3. CloseOf(p)'
    BY <1>1, <2>1, <2>2 DEF CloseInv, CloseOf, None
  <2> QED
    BY <2>1, <2>2, <2>3, CloseOthers
<1>3. CASE ReadData(p)
  <2>1. Reads(p) /\ Taken(p) /\ First(p)[1] = "data"
    BY <1>3 DEF ReadData
  <2>2. /\ thr' = [thr EXCEPT ![p] = IF Fits(p) /\ Text(p) THEN "read" ELSE "event"]
        /\ closes' = IF Fits(p) /\ ~Text(p) THEN [closes EXCEPT ![p] = @ + 1] ELSE closes
        /\ peer' = peer
    BY <1>3, ReadDataOwn
  <2>3. /\ thr'[p] = (IF Fits(p) /\ Text(p) THEN "read" ELSE "event")
        /\ Fits(p) /\ Text(p) => closes'[p] = closes[p]
        /\ \A q \in Peers \ {p} : thr'[q] = thr[q] /\ closes'[q] = closes[q]
    BY <2>2 DEF TypeOK
  <2>4. CloseOf(p)'
    BY <1>1, <2>1, <2>2, <2>3, CloseLeft DEF CloseOf, None
  <2> QED
    BY <2>1, <2>2, <2>3, <2>4, CloseLeft, CloseOthers
<1>4. CASE ReadPing(p)
  <2>1. Reads(p) /\ Taken(p) /\ First(p)[1] # "close" /\ UNCHANGED <<thr, peer, closes>>
    BY <1>4 DEF ReadPing, threadVars
  <2>2. CloseOf(p)'
    BY <1>1, <2>1, CloseLeft DEF CloseOf, None
  <2> QED
    BY <2>1, <2>2, CloseLeft, CloseOthers
<1>5. CASE ReadBad(p)
  <2>1. /\ Reads(p) /\ Taken(p) /\ First(p)[1] # "close" /\ UNCHANGED <<peer, closes>>
        /\ thr' = [thr EXCEPT ![p] = "event"]
    BY <1>5 DEF ReadBad, Goes
  <2>2. thr'[p] = "event" /\ \A q \in Peers \ {p} : thr'[q] = thr[q]
    BY <2>1 DEF TypeOK
  <2>3. CloseOf(p)'
    BY <1>1, <2>1, <2>2, CloseLeft DEF CloseOf, None
  <2> QED
    BY <2>1, <2>2, <2>3, CloseLeft, CloseOthers
<1>6. CASE ReadClose(p)
  <2>1. state[at[p]] # "CLOSING"
    BY <1>1 DEF OwnInv
  <2>2. /\ Reads(p) /\ Taken(p) /\ UNCHANGED <<peer, closes>>
        /\ thr' = [thr EXCEPT ![p] = "reply"]
    BY <1>6, <2>1 DEF ReadClose, Goes
  <2>3. thr'[p] = "reply" /\ \A q \in Peers \ {p} : thr'[q] = thr[q]
    BY <2>2 DEF TypeOK
  <2>4. CloseOf(p)'
    BY <1>1, <2>2, <2>3, CloseLeft DEF CloseOf, None
  <2> QED
    BY <2>2, <2>3, <2>4, CloseLeft, CloseOthers
<1> QED
  BY <1>2, <1>3, <1>4, <1>5, <1>6 DEF ReadFrame

LEMMA CloseKeeps ==
  ASSUME ServerCloses = {}, TypeOK, UnaskedInv, OwnInv, WireInv, CloseInv, [Next]_vars
  PROVE  CloseInv'
<1>1. CASE UNCHANGED vars \/ \E t \in Ports : Start(t)
  <2>1. UNCHANGED <<thr, closes, peer, wire>>
    BY <1>1 DEF vars, Start, CopyEvents, CountEvents, ClearTable, threadVars, peerVars
  <2> QED
    BY <2>1 DEF CloseInv
<1>2. ASSUME NEW p \in Peers, Accept(p) PROVE CloseInv'
  <2>1. /\ thr[p] = None /\ UNCHANGED <<closes, wire>>
        /\ peer' = [peer EXCEPT ![p] = "open"] \/ peer' = [peer EXCEPT ![p] = "gone"]
        /\ thr' = thr \/ thr' = [thr EXCEPT ![p] = "handshake"]
    BY <1>2 DEF Accept, OwnInv, threadVars
  <2>2. /\ peer'[p] # "closing" /\ thr'[p] \in {None, "handshake"}
        /\ \A q \in Peers \ {p} : peer'[q] = peer[q] /\ thr'[q] = thr[q]
    BY <2>1 DEF TypeOK
  <2>3. CloseOf(p)'
    BY <2>1, <2>2 DEF CloseOf, CloseInv, None
  <2> QED
    BY <2>1, <2>2, <2>3, CloseOthers
<1>3. ASSUME NEW p \in Peers, SendData(p) \/ SendControl(p) \/ Quit(p) PROVE CloseInv'
  <2>1. /\ UNCHANGED <<thr, closes>>
        /\ peer'[p] # "closing" /\ \A q \in Peers \ {p} : peer'[q] = peer[q]
    BY <1>3 DEF SendData, SendControl, Quit, threadVars, TypeOK
  <2>2. \A q \in Peers \ {p} : wire'[q] = wire[q]
    BY <1>3 DEF SendData, SendControl, Quit, TypeOK
  <2>3. CloseOf(p)'
    BY <2>1 DEF CloseOf, CloseInv
  <2> QED
    BY <2>1, <2>2, <2>3, CloseOthers
<1>4. ASSUME NEW p \in Peers, SendClose(p) PROVE CloseInv'
  <2>1. /\ UNCHANGED <<thr, closes>> /\ wire'[p] = Append(wire[p], <<"close", 0>>)
        /\ \A q \in Peers \ {p} : peer'[q] = peer[q] /\ wire'[q] = wire[q]
    BY <1>4 DEF SendClose, threadVars, TypeOK
  <2>2. wire[p] \in Seq(Wires)
    BY DEF TypeOK
  <2>3. wire'[p] # <<>> /\ wire'[p][Len(wire'[p])] = <<"close", 0>>
    <3>1. Len(Append(wire[p], <<"close", 0>>)) = Len(wire[p]) + 1 /\ Len(wire[p]) \in Nat
      BY <2>2
    <3>2. Append(wire[p], <<"close", 0>>)[Len(wire[p]) + 1] = <<"close", 0>>
      BY <2>2
    <3>3. Len(Append(wire[p], <<"close", 0>>)) # 0
      BY <3>1
    <3>4. Append(wire[p], <<"close", 0>>) # <<>>
      BY <3>3, NotEmpty, Zenon
    <3> QED
      BY <2>1, <3>1, <3>2, <3>4
  <2>4. CloseOf(p)'
    BY <2>1, <2>3 DEF CloseOf, CloseInv
  <2> QED
    BY <2>1, <2>4, CloseOthers
<1>5. ASSUME NEW p \in Peers, ThreadStep(p), ~ReadFrame(p), ~Reply(p) PROVE CloseInv'
  <2>1. /\ UNCHANGED <<closes, peer, wire>>
        /\ \/ Handshake(p) /\ Goes(p, "read") /\ thr[p] = "handshake"
           \/ /\ thr[p] \in {"handshake", "event", "closed", "test", "free"}
              /\ \E x \in {"closed", "test", "free", "join", "end"} : Goes(p, x)
    BY <1>5 DEF ThreadStep, Handshake, HandshakeFails, OnClose, Closed, CloseTest,
                CloseFree, peerVars
  <2>2. thr[p] = "closed" => ~ Goes(p, "join")
    BY <1>5, <2>1 DEF ThreadStep, Handshake, HandshakeFails, OnClose, Closed,
                      CloseTest, CloseFree, OwnInv, Living, Goes, TypeOK
  <2>3. \A q \in Peers \ {p} : thr'[q] = thr[q]
    BY <2>1 DEF Goes, TypeOK
  <2>4. \/ thr[p] = "handshake" /\ thr'[p] \in {"read", "closed"}
        \/ /\ thr[p] \in {"event", "closed", "test", "free"}
           /\ thr'[p] \in {"closed", "test", "free", "end"}
    BY <1>5, <2>2 DEF ThreadStep, Handshake, HandshakeFails, OnClose, Closed,
                      CloseTest, CloseFree, Goes, TypeOK
  <2>5. CloseOf(p)'
    BY <2>1, <2>4 DEF CloseOf, CloseInv, None
  <2> QED
    BY <2>1, <2>3, <2>5, CloseOthers
<1>6. ASSUME NEW p \in Peers, Reply(p) PROVE CloseInv'
  <2>1. Source(p) = p /\ Valid(at[p]) /\ thr[p] = "reply"
    BY <1>6, Own DEF Reply, Living
  <2>2. /\ thr' = [thr EXCEPT ![p] = "event"] /\ UNCHANGED <<peer, wire>>
        /\ closes' = [closes EXCEPT ![p] = @ + 1]
    BY <1>6, <2>1 DEF Reply, Goes, peerVars
  <2>3. /\ thr'[p] = "event" /\ closes'[p] = closes[p] + 1
        /\ \A q \in Peers \ {p} : thr'[q] = thr[q] /\ closes'[q] = closes[q]
    BY <2>2 DEF TypeOK
  <2>4. CloseOf(p)'
    BY <2>1, <2>2, <2>3 DEF CloseOf, CloseInv, None
  <2> QED
    BY <2>2, <2>3, <2>4, CloseOthers
<1> QED
  BY <1>1, <1>2, <1>3, <1>4, <1>5, <1>6, Steps, CloseReading DEF PeerDoes, ThreadStep

-----------------------------------------------------------------------------
(* Messages                                                                 *)

\* Of the messages d a peer with the frames s was delivered: the frame before
\* the i-th; whether f are frames of one message, in turn, after frame z; and
\* whether all of them are whole.
Before(d, i) == IF i = 1 THEN 0 ELSE d[i - 1][Len(d[i - 1])][2]

InTurn(p, s, f, z) ==
  \A k \in 1 .. Len(f) :
    /\ z + k <= Len(s) /\ f[k] = <<p, z + k>>
    /\ (s[z + k][1] # "cont") <=> (k = 1)

Whole(p, s, d) ==
  \A i \in 1 .. Len(d) :
    LET z == Before(d, i) IN
    /\ Len(d[i]) > 0 /\ InTurn(p, s, d[i], z)
    /\ \A k \in 1 .. Len(d[i]) : s[z + k][2] <=> (k = Len(d[i]))
    /\ s[z + 1][1] = "txt" => WellFormed(s, z + 1, z + Len(d[i]))

\* The frames b .. e are text, but for a character that is not complete.
Checked(s, b, e) ==
  \A n \in b .. e : s[n][3] # "empty" => (s[n][3] = "rest" <=> Unfinished(s, b, n))

\* The decoder after the frames b .. e of a message of this type.
Decoded(s, b, e, type, utf) ==
  IF type = "txt"
  THEN /\ Checked(s, b, e) /\ utf \in {"accept", "half"}
       /\ utf = "half" <=> Unfinished(s, b, e + 1)
  ELSE utf = "accept"

\* The message m begun after n frames were read: it follows the last delivered.
Begun(p, s, d, m, n) ==
  LET z == Before(d, Len(d) + 1) IN
  /\ m.type = None <=> Len(m.frames) = 0
  /\ Len(m.frames) > 0 => m.type = s[z + 1][1]
  /\ z + Len(m.frames) = n /\ n \in Nat /\ n <= Len(s)
  /\ InTurn(p, s, m.frames, z)
  /\ \A k \in 1 .. Len(m.frames) : ~ s[z + k][2]
  /\ Decoded(s, z + 1, n, m.type, m.utf)

\* The data frames of a peer that were read.
Got(p) == IF wire[p] # <<>> /\ wire[p][1][1] = "data" THEN Len(said[p]) - 1
          ELSE Len(said[p])

\* While its frames are read, what was delivered and what is begun are all a
\* peer has sent; later the messages stay.
MessageOf(p) ==
  /\ Whole(p, said[p], delivered[p])
  /\ thr[p] \in {None, "handshake", "read"} =>
       Begun(p, said[p], delivered[p], msg[p], Got(p))

MessageInv == \A p \in Peers : MessageOf(p)

LEMMA BeforeNat ==
  ASSUME NEW p, NEW s \in Seq(Ops), NEW d \in Seq(Seq(FrameNames)), Whole(p, s, d),
         NEW i \in 1 .. Len(d) + 1
  PROVE  Before(d, i) \in Nat
<1>1. CASE i = 1
  BY <1>1 DEF Before
<1>2. CASE i # 1
  <2>1. i - 1 \in 1 .. Len(d)
    BY <1>2
  <2>2. d[i - 1] \in Seq(FrameNames) /\ Len(d[i - 1]) > 0
    BY <2>1 DEF Whole
  <2>3. d[i - 1][Len(d[i - 1])] \in FrameNames
    BY <2>2
  <2> QED
    BY <1>2, <2>3 DEF Before, FrameNames
<1> QED
  BY <1>1, <1>2

\* What the decoder holds, frame by frame.
LEMMA UnfinishedNext ==
  ASSUME NEW s, NEW b \in Nat, NEW n \in Nat, b <= n
  PROVE  Unfinished(s, b, n + 1) <=>
           s[n][3] = "half" \/ (s[n][3] = "empty" /\ Unfinished(s, b, n))
<1>1. ASSUME Unfinished(s, b, n + 1)
      PROVE  s[n][3] = "half" \/ (s[n][3] = "empty" /\ Unfinished(s, b, n))
  <2>1. PICK j \in b .. n : s[j][3] = "half" /\ \A i \in j + 1 .. n : s[i][3] = "empty"
    BY <1>1 DEF Unfinished
  <2>2. CASE j = n
    BY <2>1, <2>2
  <2>3. CASE j # n
    <3>1. j \in b .. n - 1 /\ n \in j + 1 .. n /\ \A i \in j + 1 .. n - 1 : i \in j + 1 .. n
      BY <2>1, <2>3
    <3> QED
      BY <2>1, <3>1 DEF Unfinished
  <2> QED
    BY <2>2, <2>3
<1>2. ASSUME s[n][3] = "half" PROVE Unfinished(s, b, n + 1)
  <2>1. n \in b .. n + 1 - 1 /\ \A i \in n + 1 .. n + 1 - 1 : FALSE
    OBVIOUS
  <2> QED
    BY <1>2, <2>1 DEF Unfinished
<1>3. ASSUME s[n][3] = "empty", Unfinished(s, b, n) PROVE Unfinished(s, b, n + 1)
  <2>1. PICK j \in b .. n - 1 :
          s[j][3] = "half" /\ \A i \in j + 1 .. n - 1 : s[i][3] = "empty"
    BY <1>3 DEF Unfinished
  <2>2. /\ j \in b .. n + 1 - 1
        /\ \A i \in j + 1 .. n + 1 - 1 : i = n \/ i \in j + 1 .. n - 1
    BY <2>1
  <2> QED
    BY <1>3, <2>1, <2>2 DEF Unfinished
<1> QED
  BY <1>1, <1>2, <1>3

LEMMA CheckedNext ==
  ASSUME NEW s, NEW b \in Nat, NEW n \in Nat, b <= n, Checked(s, b, n - 1),
         s[n][3] # "empty" => (s[n][3] = "rest" <=> Unfinished(s, b, n))
  PROVE  Checked(s, b, n)
<1>1. \A i \in b .. n : i \in b .. n - 1 \/ i = n
  OBVIOUS
<1> QED
  BY <1>1 DEF Checked

\* The frame s[n] takes the decoder one step.
LEMMA DecodedNext ==
  ASSUME NEW s, NEW b \in Nat, NEW n \in Nat, b <= n, NEW utf, NEW next,
         s[n][3] \in {"plain", "half", "rest", "empty"},
         IF b = n THEN utf = "accept" ELSE Decoded(s, b, n - 1, "txt", utf),
         next = Decode(utf, s[n][3]), next # "reject"
  PROVE  Decoded(s, b, n, "txt", next)
<1>1. /\ Checked(s, b, n - 1) /\ utf \in {"accept", "half"}
      /\ utf = "half" <=> Unfinished(s, b, n)
  <2>1. CASE b = n
    <3>1. ~Unfinished(s, b, n) /\ Checked(s, b, n - 1)
      <4>1. \A j \in b .. n - 1 : FALSE
        BY <2>1
      <4> QED
        BY <4>1 DEF Unfinished, Checked
    <3> QED
      BY <2>1, <3>1
  <2>2. CASE b # n
    <3>1. n - 1 + 1 = n
      OBVIOUS
    <3> QED
      BY <2>2, <3>1 DEF Decoded
  <2> QED
    BY <2>1, <2>2
<1>2. /\ s[n][3] # "empty" => (s[n][3] = "rest" <=> utf = "half")
      /\ next \in {"accept", "half"}
      /\ next = "half" <=> s[n][3] = "half" \/ (s[n][3] = "empty" /\ utf = "half")
  BY <1>1 DEF Decode
<1>3. Checked(s, b, n)
  BY <1>1, <1>2, CheckedNext
<1>4. next = "half" <=> Unfinished(s, b, n + 1)
  BY <1>1, <1>2, UnfinishedNext
<1> QED
  BY <1>2, <1>3, <1>4 DEF Decoded

\* The next frame a peer sends changes nothing of those before.
LEMMA CheckedSent ==
  ASSUME NEW s \in Seq(Ops), NEW o \in Ops, NEW b \in Nat \ {0}, NEW e \in Nat,
         e <= Len(s)
  PROVE  /\ Unfinished(Append(s, o), b, e + 1) <=> Unfinished(s, b, e + 1)
         /\ Checked(Append(s, o), b, e) <=> Checked(s, b, e)
<1> DEFINE t == Append(s, o)
<1>1. \A j \in 1 .. Len(s) : t[j] = s[j]
  OBVIOUS
<1>2. Len(s) \in Nat
  OBVIOUS
<1> HIDE DEF t
<1>3. ASSUME NEW n \in b .. e + 1 PROVE Unfinished(t, b, n) <=> Unfinished(s, b, n)
  <2>1. \A j \in b .. n - 1 : j \in 1 .. Len(s)
    BY <1>2
  <2>2. \A j \in b .. n - 1 : \A i \in j + 1 .. n - 1 : i \in 1 .. Len(s)
    BY <1>2
  <2> QED
    BY <1>1, <2>1, <2>2 DEF Unfinished
<1>4. Unfinished(t, b, e + 1) <=> Unfinished(s, b, e + 1)
  <2>1. CASE b <= e + 1
    BY <1>3, <2>1
  <2>2. CASE b > e + 1
    <3>1. \A j \in b .. e + 1 - 1 : FALSE
      BY <2>2
    <3> QED
      BY <3>1 DEF Unfinished
  <2> QED
    BY <2>1, <2>2
<1>5. \A n \in b .. e : t[n] = s[n] /\ (Unfinished(t, b, n) <=> Unfinished(s, b, n))
  BY <1>1, <1>2, <1>3
<1> QED
  BY <1>4, <1>5 DEF Checked, t

LEMMA WellFormedChecked ==
  ASSUME NEW s, NEW b, NEW e
  PROVE  WellFormed(s, b, e) <=> Checked(s, b, e) /\ ~Unfinished(s, b, e + 1)
BY DEF WellFormed, Checked

LEMMA InTurnSent ==
  ASSUME NEW p, NEW s \in Seq(Ops), NEW o \in Ops, NEW f \in Seq(FrameNames),
         NEW z \in Nat, InTurn(p, s, f, z)
  PROVE  /\ InTurn(p, Append(s, o), f, z)
         /\ \A k \in 1 .. Len(f) : Append(s, o)[z + k] = s[z + k]
         /\ Len(f) > 0 => z + Len(f) <= Len(s)
<1>1. \A j \in 1 .. Len(s) : Append(s, o)[j] = s[j]
  OBVIOUS
<1>2. Len(Append(s, o)) = Len(s) + 1 /\ Len(s) \in Nat /\ Len(f) \in Nat
  OBVIOUS
<1>3. \A k \in 1 .. Len(f) : z + k \in 1 .. Len(s) /\ z + k <= Len(s) + 1
  BY <1>2 DEF InTurn
<1> QED
  BY <1>1, <1>2, <1>3 DEF InTurn

LEMMA WholeSent ==
  ASSUME NEW p, NEW s \in Seq(Ops), NEW o \in Ops, NEW d \in Seq(Seq(FrameNames)),
         Whole(p, s, d)
  PROVE  Whole(p, Append(s, o), d)
<1> DEFINE t == Append(s, o)
<1>1. ASSUME NEW i \in 1 .. Len(d), NEW z, z = Before(d, i)
      PROVE  /\ Len(d[i]) > 0 /\ InTurn(p, t, d[i], z)
             /\ \A k \in 1 .. Len(d[i]) : t[z + k][2] <=> (k = Len(d[i]))
             /\ t[z + 1][1] = "txt" => WellFormed(t, z + 1, z + Len(d[i]))
  <2>1. z \in Nat /\ d[i] \in Seq(FrameNames)
    BY <1>1, BeforeNat
  <2>2. /\ Len(d[i]) > 0 /\ InTurn(p, s, d[i], z)
        /\ \A k \in 1 .. Len(d[i]) : s[z + k][2] <=> (k = Len(d[i]))
        /\ s[z + 1][1] = "txt" => WellFormed(s, z + 1, z + Len(d[i]))
    BY <1>1 DEF Whole
  <2>3. /\ InTurn(p, t, d[i], z) /\ z + Len(d[i]) <= Len(s)
        /\ \A k \in 1 .. Len(d[i]) : t[z + k] = s[z + k]
    BY <2>1, <2>2, InTurnSent
  <2>4. Len(d[i]) \in Nat /\ 1 \in 1 .. Len(d[i]) /\ z + Len(d[i]) \in Nat
        /\ z + 1 \in Nat \ {0}
    BY <2>1, <2>2
  <2>5. WellFormed(t, z + 1, z + Len(d[i])) <=> WellFormed(s, z + 1, z + Len(d[i]))
    BY <2>3, <2>4, CheckedSent, WellFormedChecked
  <2> HIDE DEF t
  <2> QED
    BY <2>2, <2>3, <2>4, <2>5
<1> HIDE DEF t
<1> QED
  BY <1>1 DEF Whole, t

LEMMA BegunSent ==
  ASSUME NEW p, NEW s \in Seq(Ops), NEW o \in Ops, NEW d \in Seq(Seq(FrameNames)),
         NEW m \in Messages, NEW n, Whole(p, s, d), Begun(p, s, d, m, n)
  PROVE  Begun(p, Append(s, o), d, m, n)
<1> DEFINE z == Before(d, Len(d) + 1)
           t == Append(s, o)
<1>1. m.frames \in Seq(FrameNames) /\ Len(d) + 1 \in 1 .. Len(d) + 1
  BY DEF Messages
<1>2. z \in Nat
  BY <1>1, BeforeNat
<1>3. /\ m.type = None <=> Len(m.frames) = 0
      /\ Len(m.frames) > 0 => m.type = s[z + 1][1]
      /\ z + Len(m.frames) = n /\ n \in Nat /\ n <= Len(s)
      /\ InTurn(p, s, m.frames, z)
      /\ \A k \in 1 .. Len(m.frames) : ~ s[z + k][2]
      /\ Decoded(s, z + 1, n, m.type, m.utf)
  BY DEF Begun
<1>4. /\ InTurn(p, t, m.frames, z)
      /\ \A k \in 1 .. Len(m.frames) : t[z + k] = s[z + k]
  BY <1>1, <1>2, <1>3, InTurnSent
<1>5. n <= Len(t)
  BY <1>3
<1>6. Decoded(t, z + 1, n, m.type, m.utf)
  <2>1. z + 1 \in Nat \ {0}
    BY <1>2
  <2> HIDE DEF z
  <2> QED
    BY <1>3, <2>1, CheckedSent DEF Decoded
<1> HIDE DEF z, t
<1>7. Len(m.frames) > 0 => m.type = t[z + 1][1]
  <2>1. Len(m.frames) > 0 => 1 \in 1 .. Len(m.frames)
    BY <1>1
  <2> QED
    BY <1>3, <1>4, <2>1
<1>8. \A k \in 1 .. Len(m.frames) : ~ t[z + k][2]
  BY <1>3, <1>4
<1> QED
  BY <1>3, <1>4, <1>5, <1>6, <1>7, <1>8 DEF Begun, z, t

\* A frame that goes on with what is begun.
LEMMA InTurnNext ==
  ASSUME NEW p, NEW s \in Seq(Ops), NEW f \in Seq(FrameNames), NEW z \in Nat,
         InTurn(p, s, f, z), z + Len(f) + 1 = Len(s),
         (s[Len(s)][1] # "cont") <=> (Len(f) = 0)
  PROVE  InTurn(p, s, Append(f, <<p, Len(s)>>), z)
<1> DEFINE g == Append(f, <<p, Len(s)>>)
<1>1. /\ Len(g) = Len(f) + 1 /\ Len(f) \in Nat /\ g[Len(f) + 1] = <<p, Len(s)>>
      /\ \A k \in 1 .. Len(f) : g[k] = f[k]
  OBVIOUS
<1> HIDE DEF g
<1>2. SUFFICES ASSUME NEW k \in 1 .. Len(g)
               PROVE  /\ z + k <= Len(s) /\ g[k] = <<p, z + k>>
                      /\ (s[z + k][1] # "cont") <=> (k = 1)
  BY DEF InTurn, g
<1>3. CASE k \in 1 .. Len(f)
  BY <1>1, <1>3 DEF InTurn
<1>4. CASE k = Len(f) + 1
  <2>1. z + k = Len(s) /\ (k = 1 <=> Len(f) = 0)
    BY <1>1, <1>4
  <2>2. g[k] = <<p, z + k>>
    BY <1>1, <1>4, <2>1
  <2>3. z + k <= Len(s)
    BY <2>1
  <2>4. (s[z + k][1] # "cont") <=> (k = 1)
    BY <2>1, Zenon
  <2> QED
    BY <2>2, <2>3, <2>4, Zenon
<1> QED
  BY <1>1, <1>3, <1>4

\* The last frame makes one more whole message.
LEMMA WholeNext ==
  ASSUME NEW p, NEW s \in Seq(Ops), NEW d \in Seq(Seq(FrameNames)), Whole(p, s, d),
         NEW f \in Seq(FrameNames), Len(f) > 0,
         NEW z, z = Before(d, Len(d) + 1), InTurn(p, s, f, z),
         \A k \in 1 .. Len(f) : s[z + k][2] <=> (k = Len(f)),
         s[z + 1][1] = "txt" => WellFormed(s, z + 1, z + Len(f))
  PROVE  /\ Whole(p, s, Append(d, f))
         /\ Before(Append(d, f), Len(Append(d, f)) + 1) = f[Len(f)][2]
<1> DEFINE e == Append(d, f)
<1>1. /\ Len(e) = Len(d) + 1 /\ Len(d) \in Nat /\ e[Len(d) + 1] = f
      /\ \A i \in 1 .. Len(d) : e[i] = d[i]
  OBVIOUS
<1> HIDE DEF e
<1>2. ASSUME NEW i \in 1 .. Len(d) + 1 PROVE Before(e, i) = Before(d, i)
  <2>1. i # 1 => i - 1 \in 1 .. Len(d)
    BY <1>1
  <2> QED
    BY <1>1, <2>1 DEF Before
<1>3. ASSUME NEW i \in 1 .. Len(e), NEW y, y = Before(e, i)
      PROVE  /\ Len(e[i]) > 0 /\ InTurn(p, s, e[i], y)
             /\ \A k \in 1 .. Len(e[i]) : s[y + k][2] <=> (k = Len(e[i]))
             /\ s[y + 1][1] = "txt" => WellFormed(s, y + 1, y + Len(e[i]))
  <2>1. CASE i \in 1 .. Len(d)
    <3>1. e[i] = d[i] /\ y = Before(d, i)
      BY <1>1, <1>2, <1>3, <2>1
    <3> QED
      BY <2>1, <3>1 DEF Whole
  <2>2. CASE i = Len(d) + 1
    <3>1. e[i] = f /\ y = z
      BY <1>1, <1>2, <1>3, <2>2
    <3> QED
      BY <3>1
  <2> QED
    BY <1>1, <2>1, <2>2
<1>4. Before(e, Len(e) + 1) = f[Len(f)][2]
  BY <1>1 DEF Before
<1> QED
  BY <1>3, <1>4 DEF Whole, e

LEMMA MessageOthers ==
  ASSUME MessageInv, NEW p \in Peers, MessageOf(p)',
         \A q \in Peers \ {p} : /\ thr'[q] = thr[q] /\ said'[q] = said[q]
                                /\ wire'[q] = wire[q] /\ msg'[q] = msg[q]
                                /\ delivered'[q] = delivered[q]
  PROVE  MessageInv'
<1>1. ASSUME NEW q \in Peers \ {p} PROVE MessageOf(q)'
  <2>1. Got(q)' = Got(q)
    BY DEF Got
  <2> QED
    BY <2>1 DEF MessageInv, MessageOf
<1> QED
  BY <1>1 DEF MessageInv

\* Behind the frame that is read there is no data frame.
LEMMA GotRead ==
  ASSUME TypeOK, OwnInv, WireInv, NEW p \in Peers, Reads(p), Taken(p), said' = said
  PROVE  /\ Got(p)' = Len(said[p])
         /\ Got(p) = IF First(p)[1] = "data" THEN Len(said[p]) - 1 ELSE Len(said[p])
         /\ \A q \in Peers \ {p} : wire'[q] = wire[q]
<1>1. /\ wire' = [wire EXCEPT ![p] = Tail(wire[p])] /\ wire[p] # <<>>
      /\ wire[p] \in Seq(Wires) /\ First(p) = wire[p][1]
  BY ReadsOwn
<1>2. wire'[p] = Tail(wire[p]) /\ \A q \in Peers \ {p} : wire'[q] = wire[q]
  BY <1>1 DEF TypeOK
<1>3. /\ Tail(wire[p]) \in Seq(Wires) /\ Len(Tail(wire[p])) = Len(wire[p]) - 1
      /\ Len(wire[p]) \in Nat \ {0}
      /\ \A i \in 1 .. Len(wire[p]) - 1 : Tail(wire[p])[i] = wire[p][i + 1]
  BY <1>1, TailOf
<1>4. ASSUME Tail(wire[p]) # <<>> PROVE Tail(wire[p])[1][1] # "data"
  <2>1. 2 \in 1 .. Len(wire[p]) /\ Tail(wire[p])[1] = wire[p][2]
    BY <1>3, <1>4
  <2>2. wire[p][2][1] # "data"
    BY <2>1 DEF WireInv
  <2> QED
    BY <2>1, <2>2
<1>5. Got(p)' = Len(said[p])
  BY <1>2, <1>4, Zenon DEF Got
<1> QED
  BY <1>1, <1>2, <1>5 DEF Got

\* Reading a data frame goes on with the message, ends it, or gives up.
LEMMA MessageData ==
  ASSUME TypeOK, ListenInv, OwnInv, WireInv, MessageInv, NEW p \in Peers, ReadData(p)
  PROVE  MessageInv'
<1> DEFINE s == said[p]
           d == delivered[p]
           n == Len(said[p])
           m == msg[p]
           z == Before(delivered[p], Len(delivered[p]) + 1)
           g == Append(msg[p].frames, <<p, Len(said[p])>>)
<1>1. Reads(p) /\ Taken(p) /\ First(p)[1] = "data" /\ thr[p] = "read"
  BY DEF ReadData, Reads
<1>2. /\ thr' = [thr EXCEPT ![p] = IF Fits(p) /\ Text(p) THEN "read" ELSE "event"]
      /\ msg' = [msg EXCEPT ![p] = IF Fits(p) /\ Text(p) /\ ~Final(p)
                                   THEN Message(p) ELSE Nothing]
      /\ delivered' = IF Fits(p) /\ Text(p) /\ Final(p) /\ Served(Port[p])
                      THEN [delivered EXCEPT ![p] = Append(@, Message(p).frames)]
                      ELSE delivered
      /\ said' = said
  BY ReadDataOwn
<1>3. Served(Port[p])
  BY <1>1, WsServerAssumption DEF OwnInv, ListenInv, None
<1>6. n \in Nat /\ n > 0 /\ s[n] \in Ops /\ s \in Seq(Ops)
  BY <1>1, ReadsData
<1>4. /\ thr'[p] = (IF Fits(p) /\ Text(p) THEN "read" ELSE "event")
      /\ msg'[p] = (IF Fits(p) /\ Text(p) /\ ~Final(p) THEN Message(p) ELSE Nothing)
      /\ delivered'[p] = (IF Fits(p) /\ Text(p) /\ Final(p) THEN Append(d, g) ELSE d)
      /\ \A q \in Peers \ {p} : /\ thr'[q] = thr[q] /\ msg'[q] = msg[q]
                                /\ delivered'[q] = delivered[q]
  <2>1. Message(p).frames = g
    BY <1>6, MessageType
  <2> HIDE DEF g
  <2> QED
    BY <1>2, <1>3, <2>1 DEF TypeOK
<1>5. /\ Got(p)' = n /\ Got(p) = n - 1
      /\ \A q \in Peers \ {p} : wire'[q] = wire[q]
  BY <1>1, <1>2, GotRead
<1>7. Whole(p, s, d) /\ Begun(p, s, d, m, n - 1)
  BY <1>1, <1>5 DEF MessageInv, MessageOf
<1>8. m \in Messages /\ m.frames \in Seq(FrameNames) /\ d \in Seq(Seq(FrameNames))
  BY <1>6, MessageType DEF TypeOK
<1>9. z \in Nat
  <2>1. Len(d) + 1 \in 1 .. Len(d) + 1
    BY <1>8
  <2> QED
    BY <1>6, <1>7, <1>8, <2>1, BeforeNat
<1>10. CASE ~(Fits(p) /\ Text(p))
  <2>1. MessageOf(p)'
    BY <1>2, <1>4, <1>7, <1>10 DEF MessageOf, None
  <2> QED
    BY <1>2, <1>4, <1>5, <2>1, MessageOthers
<1>11. CASE Fits(p) /\ Text(p)
  <2>1. /\ m.type = None <=> Len(m.frames) = 0
        /\ Len(m.frames) > 0 => m.type = s[z + 1][1]
        /\ z + Len(m.frames) = n - 1 /\ InTurn(p, s, m.frames, z)
        /\ \A k \in 1 .. Len(m.frames) : ~ s[z + k][2]
        /\ Decoded(s, z + 1, n - 1, m.type, m.utf)
    BY <1>7 DEF Begun
  <2>2. (s[n][1] # "cont") <=> (Len(m.frames) = 0)
    BY <1>11, <2>1 DEF Fits, Expected
  <2>3. /\ Message(p).type = (IF s[n][1] = "cont" THEN m.type ELSE s[n][1])
        /\ Message(p).utf = (IF Message(p).type = "txt" THEN Decode(m.utf, s[n][3]) ELSE m.utf)
        /\ Message(p).utf # "reject" /\ (Final(p) => Message(p).utf = "accept")
    BY <1>11 DEF Message, WithFrame, Text, Final
  <2>4. s[n][3] \in {"plain", "half", "rest", "empty"} /\ s[n][1] \in {"txt", "bin", "cont"}
    BY <1>6, WsServerAssumption
  <2>b. Len(m.frames) \in Nat /\ (Len(m.frames) = 0 <=> z + 1 = n) /\ z + 1 <= n
    BY <1>8, <1>9, <2>1
  <2>t. Message(p).type = s[z + 1][1] /\ Message(p).type # None
    <3>1. CASE Len(m.frames) = 0
      BY <2>2, <2>3, <2>4, <2>b, <3>1 DEF None
    <3>2. CASE Len(m.frames) # 0
      BY <2>1, <2>2, <2>3, <2>b, <3>2
    <3> QED
      BY <3>1, <3>2
  <2>5. Decoded(s, z + 1, n, Message(p).type, Message(p).utf)
    <3>1. CASE Message(p).type = "txt"
      <4>1. IF z + 1 = n THEN m.utf = "accept"
            ELSE Decoded(s, z + 1, n - 1, "txt", m.utf)
        <5>1. CASE z + 1 = n
          <6>1. m.type = None
            BY <2>1, <2>b, <5>1
          <6> QED
            BY <2>1, <5>1, <6>1 DEF Decoded, None
        <5>2. CASE z + 1 # n
          <6>1. m.type = "txt"
            BY <2>2, <2>3, <2>b, <3>1, <5>2
          <6> QED
            BY <2>1, <5>2, <6>1
        <5> QED
          BY <5>1, <5>2
      <4> DEFINE b == z + 1
                 utf == m.utf
                 next == Message(p).utf
      <4>2. b \in Nat /\ n \in Nat /\ b <= n /\ s[n][3] \in {"plain", "half", "rest", "empty"}
        BY <1>6, <1>9, <2>4, <2>b
      <4>3. next = Decode(utf, s[n][3]) /\ next # "reject"
        BY <2>3, <3>1
      <4>4. IF b = n THEN utf = "accept" ELSE Decoded(s, b, n - 1, "txt", utf)
        BY <4>1
      <4> HIDE DEF z, s, m, n, b, utf, next
      <4>5. Decoded(s, b, n, "txt", next)
        BY <4>2, <4>3, <4>4, DecodedNext
      <4> QED
        BY <3>1, <4>5 DEF b, next
    <3>2. CASE Message(p).type # "txt"
      <4>1. m.type # "txt"
        BY <2>1, <2>t, <2>b, <3>2 DEF None
      <4>2. m.utf = "accept"
        BY <2>1, <4>1 DEF Decoded
      <4> QED
        BY <2>3, <3>2, <4>2 DEF Decoded
    <3> QED
      BY <3>1, <3>2
  <2>6. InTurn(p, s, g, z)
    <3>2. z + Len(m.frames) + 1 = n
      BY <1>6, <1>8, <1>9, <2>1
    <3> QED
      BY <1>6, <1>8, <1>9, <2>1, <2>2, <3>2, InTurnNext
  <2>7. /\ g \in Seq(FrameNames) /\ Len(g) = Len(m.frames) + 1 /\ Len(m.frames) \in Nat
        /\ g[Len(g)] = <<p, n>>
    <3>1. <<p, n>> \in FrameNames
      BY <1>6 DEF FrameNames
    <3> QED
      BY <1>8, <3>1
  <2> HIDE DEF g, z
  <2>8. z + Len(g) = n /\ Len(g) > 0
    BY <1>6, <1>9, <2>1, <2>7
  <2>9. \A k \in 1 .. Len(g) : s[z + k][2] => k = Len(g)
    <3>1. \A k \in 1 .. Len(g) : k # Len(g) => k \in 1 .. Len(m.frames)
      BY <2>7
    <3> QED
      BY <2>1, <3>1
  <2>10. CASE Final(p)
    <3>1. s[n][2] /\ Message(p).utf = "accept"
      BY <2>3, <2>10 DEF Final
    <3>2. \A k \in 1 .. Len(g) : s[z + k][2] <=> (k = Len(g))
      BY <2>8, <2>9, <3>1
    <3>3. /\ Whole(p, s, Append(d, g))
          /\ Before(Append(d, g), Len(Append(d, g)) + 1) = n
      <4>1. s[z + 1][1] = "txt" => WellFormed(s, z + 1, z + Len(g))
        BY <2>5, <2>8, <2>t, <3>1, WellFormedChecked DEF Decoded
      <4>2. /\ Whole(p, s, Append(d, g))
            /\ Before(Append(d, g), Len(Append(d, g)) + 1) = g[Len(g)][2]
        <5>1. z = Before(d, Len(d) + 1)
          BY DEF z
        <5> QED
          BY <1>6, <1>7, <1>8, <2>6, <2>7, <2>8, <3>2, <4>1, <5>1, WholeNext
      <4>3. g[Len(g)][2] = n
        BY <2>7
      <4> QED
        BY <4>2, <4>3
    <3>4. Begun(p, s, Append(d, g), Nothing, n)
      BY <1>6, <3>3 DEF Begun, Nothing, InTurn, Decoded, None
    <3>5. MessageOf(p)'
      <4>1. /\ said'[p] = s /\ delivered'[p] = Append(d, g) /\ msg'[p] = Nothing
        BY <1>2, <1>4, <1>11, <2>10
      <4> QED
        BY <1>5, <3>3, <3>4, <4>1 DEF MessageOf
    <3> QED
      BY <1>2, <1>4, <1>5, <3>5, MessageOthers
  <2>11. CASE ~Final(p)
    <3>1. ~ s[n][2]
      BY <2>11 DEF Final
    <3>2. \A k \in 1 .. Len(g) : ~ s[z + k][2]
      BY <2>8, <2>9, <3>1
    <3>3. Message(p).frames = g
      BY <1>6, MessageType DEF g
    <3>4. Begun(p, s, d, Message(p), n)
      BY <1>6, <2>5, <2>6, <2>8, <2>t, <3>2, <3>3 DEF Begun, z
    <3>5. MessageOf(p)'
      <4>1. /\ said'[p] = s /\ delivered'[p] = d /\ msg'[p] = Message(p)
        BY <1>2, <1>4, <1>11, <2>11
      <4> QED
        BY <1>5, <1>7, <3>4, <4>1 DEF MessageOf
    <3> QED
      BY <1>2, <1>4, <1>5, <3>5, MessageOthers
  <2> QED
    BY <2>10, <2>11
<1> QED
  BY <1>10, <1>11

LEMMA MessageKeeps ==
  ASSUME ServerCloses = {}, TypeOK, UnaskedInv, ListenInv, OwnInv, WireInv, MessageInv,
         [Next]_vars
  PROVE  MessageInv'
<1>1. CASE UNCHANGED vars \/ (\E t \in Ports : Start(t)) \/ (\E p \in Peers : Quit(p))
  <2>1. UNCHANGED <<thr, said, wire, msg, delivered>>
    BY <1>1 DEF vars, Start, CopyEvents, CountEvents, ClearTable, Quit, threadVars,
                peerVars
  <2> QED
    BY <2>1 DEF MessageInv, MessageOf, Got
<1>2. ASSUME NEW p \in Peers, Accept(p) PROVE MessageInv'
  <2>1. /\ UNCHANGED <<said, wire, msg, delivered>> /\ thr[p] = None
        /\ thr' = thr \/ thr' = [thr EXCEPT ![p] = "handshake"]
    BY <1>2 DEF Accept, OwnInv, threadVars
  <2>2. \A q \in Peers \ {p} : thr'[q] = thr[q]
    BY <2>1 DEF TypeOK
  <2>3. MessageOf(p)'
    BY <2>1 DEF MessageInv, MessageOf, Got
  <2> QED
    BY <2>1, <2>2, <2>3, MessageOthers
<1>3. ASSUME NEW p \in Peers, SendData(p) PROVE MessageInv'
  <2>1. /\ thr[p] = "read" /\ wire[p] = <<>> /\ UNCHANGED <<thr, msg, delivered>>
    BY <1>3 DEF SendData, threadVars
  <2>2. PICK o \in Ops :
          /\ said' = [said EXCEPT ![p] = Append(@, o)]
          /\ wire' = [wire EXCEPT ![p] = Append(@, <<"data", Len(said[p]) + 1>>)]
    BY <1>3 DEF SendData
  <2>3. /\ wire'[p] = <<(<<"data", Len(said[p]) + 1>>)>>
        /\ said'[p] = Append(said[p], o)
        /\ \A q \in Peers \ {p} : wire'[q] = wire[q] /\ said'[q] = said[q]
    BY <2>1, <2>2 DEF TypeOK
  <2>4. said[p] \in Seq(Ops) /\ msg[p] \in Messages
        /\ delivered[p] \in Seq(Seq(FrameNames))
    BY DEF TypeOK
  <2>5. Got(p)' = Len(said[p]) /\ Got(p) = Len(said[p])
    <3>1. Len(Append(said[p], o)) - 1 = Len(said[p])
      BY <2>4
    <3>2. wire'[p] # <<>> /\ wire'[p][1][1] = "data"
      BY <2>3
    <3> QED
      BY <2>1, <2>3, <3>1, <3>2 DEF Got
  <2>6. /\ Whole(p, said[p], delivered[p])
        /\ Begun(p, said[p], delivered[p], msg[p], Len(said[p]))
    BY <2>1, <2>5 DEF MessageInv, MessageOf
  <2>7. /\ Whole(p, Append(said[p], o), delivered[p])
        /\ Begun(p, Append(said[p], o), delivered[p], msg[p], Len(said[p]))
    BY <2>4, <2>6, WholeSent, BegunSent
  <2>8. MessageOf(p)'
    BY <2>1, <2>3, <2>5, <2>7 DEF MessageOf
  <2> QED
    BY <2>1, <2>3, <2>8, MessageOthers
<1>4. ASSUME NEW p \in Peers, SendControl(p) \/ SendClose(p) PROVE MessageInv'
  <2>1. PICK k \in Controls \cup {"close"} :
          wire' = [wire EXCEPT ![p] = Append(@, <<k, 0>>)]
    BY <1>4 DEF SendControl, SendClose
  <2>2. k # "data" /\ UNCHANGED <<thr, said, msg, delivered>>
    BY <1>4, WsServerAssumption DEF SendControl, SendClose, threadVars
  <2>3. /\ wire'[p] = Append(wire[p], <<k, 0>>) /\ wire[p] \in Seq(Wires)
        /\ \A q \in Peers \ {p} : wire'[q] = wire[q]
    BY <2>1 DEF TypeOK
  <2>4. CASE wire[p] = <<>>
    <3>1. wire'[p] = <<(<<k, 0>>)>>
      BY <2>3, <2>4
    <3>2. wire'[p][1][1] # "data"
      BY <2>2, <3>1
    <3>3. Got(p)' = Got(p)
      BY <2>2, <2>4, <3>2 DEF Got
    <3>4. MessageOf(p)'
      BY <2>2, <3>3 DEF MessageInv, MessageOf
    <3> QED
      BY <2>2, <2>3, <3>4, MessageOthers
  <2>5. CASE wire[p] # <<>>
    <3>1. Append(wire[p], <<k, 0>>)[1] = wire[p][1]
      BY <2>3, <2>5
    <3>2. Len(Append(wire[p], <<k, 0>>)) # 0
      BY <2>3
    <3>3. wire'[p] # <<>> /\ wire'[p][1] = wire[p][1]
      BY <2>3, <3>1, <3>2, NotEmpty, Zenon
    <3>4. Got(p)' = Got(p)
      BY <2>2, <2>5, <3>3 DEF Got
    <3>5. MessageOf(p)'
      BY <2>2, <3>4 DEF MessageInv, MessageOf
    <3> QED
      BY <2>2, <2>3, <3>5, MessageOthers
  <2> QED
    BY <2>4, <2>5
<1>5. ASSUME NEW p \in Peers, ThreadStep(p), ~ReadFrame(p) PROVE MessageInv'
  <2>1. /\ UNCHANGED <<said, wire, msg, delivered>>
        /\ \/ thr[p] = "handshake"
           \/ \E x \in Places \ {None, "handshake", "read"} : Goes(p, x)
    BY <1>5 DEF ThreadStep, Handshake, HandshakeFails, Reply, OnClose, Closed,
                CloseTest, CloseFree, peerVars, Places, Living, None
  <2>2. \E x \in Places : Goes(p, x)
    BY <1>5 DEF ThreadStep, Handshake, HandshakeFails, Reply, OnClose, Closed,
                CloseTest, CloseFree, Places, Living
  <2>3. \A q \in Peers \ {p} : thr'[q] = thr[q]
    BY <2>2 DEF Goes, TypeOK
  <2>4. thr'[p] \in {None, "handshake", "read"} => thr[p] = "handshake"
    BY <2>1 DEF Goes, TypeOK
  <2>5. MessageOf(p)'
    BY <2>1, <2>4 DEF MessageInv, MessageOf, Got
  <2> QED
    BY <2>1, <2>3, <2>5, MessageOthers
<1>6. ASSUME NEW p \in Peers, ReadFails(p) \/ ReadBad(p) \/ ReadClose(p)
      PROVE  MessageInv'
  <2>1. /\ said' = said /\ delivered' = delivered
        /\ msg' = [msg EXCEPT ![p] = Nothing]
        /\ thr' = [thr EXCEPT ![p] = "event"] \/ thr' = [thr EXCEPT ![p] = "reply"]
    BY <1>6 DEF ReadFails, ReadBad, ReadClose, Goes, peerVars
  <2>2. /\ thr'[p] \notin {None, "handshake", "read"}
        /\ \A q \in Peers \ {p} : thr'[q] = thr[q] /\ msg'[q] = msg[q]
    BY <2>1 DEF TypeOK, None
  <2>3. \A q \in Peers \ {p} : wire'[q] = wire[q]
    BY <1>6, <2>1, GotRead DEF ReadFails, ReadBad, ReadClose, peerVars
  <2>4. MessageOf(p)'
    BY <2>1, <2>2 DEF MessageInv, MessageOf
  <2> QED
    BY <2>1, <2>2, <2>3, <2>4, MessageOthers
<1>7. ASSUME NEW p \in Peers, ReadPing(p) PROVE MessageInv'
  <2>1. /\ Reads(p) /\ Taken(p) /\ First(p)[1] # "data"
        /\ UNCHANGED <<thr, said, msg, delivered>>
    BY <1>7 DEF ReadPing, threadVars
  <2>2. Got(p)' = Got(p) /\ \A q \in Peers \ {p} : wire'[q] = wire[q]
    BY <2>1, GotRead
  <2>3. MessageOf(p)'
    BY <2>1, <2>2 DEF MessageInv, MessageOf
  <2> QED
    BY <2>1, <2>2, <2>3, MessageOthers
<1> QED
  BY <1>1, <1>2, <1>3, <1>4, <1>5, <1>6, <1>7, MessageData, Steps
     DEF PeerDoes, ThreadStep, ReadFrame

-----------------------------------------------------------------------------
(* The invariant                                                            *)

IInv == TypeOK /\ UnaskedInv /\ ListenInv /\ OwnInv /\ WireInv /\ CloseInv
        /\ MessageInv

LEMMA InitInv ==
  ASSUME Init
  PROVE  IInv
<1>1. Lowest(Slots) \in Slots
  BY LowestIn, WsServerAssumption
<1>2. Nothing \in Messages /\ None \in Places
  BY NothingType DEF Places
<1>3. TypeOK
  BY <1>1, <1>2 DEF Init, TypeOK, MAX_LISTEN_PORTS
<1>4. UnaskedInv /\ ListenInv
  BY DEF Init, UnaskedInv, ListenInv
<1>5. OwnInv
  BY DEF Init, OwnInv, None, Living, Speaking
<1>6. WireInv /\ CloseInv
  BY DEF Init, WireInv, CloseInv
<1>7. MessageInv
  <2>1. ASSUME NEW p \in Peers PROVE MessageOf(p)
    <3>1. said[p] = <<>> /\ delivered[p] = <<>> /\ wire[p] = <<>> /\ msg[p] = Nothing
      BY DEF Init
    <3>2. Got(p) = 0 /\ Whole(p, said[p], delivered[p])
      BY <3>1 DEF Got, Whole
    <3>3. Begun(p, said[p], delivered[p], msg[p], 0)
      BY <3>1 DEF Begun, Before, Nothing, InTurn, Decoded, None
    <3> QED
      BY <3>2, <3>3 DEF MessageOf
  <2> QED
    BY <2>1 DEF MessageInv
<1> QED
  BY <1>3, <1>4, <1>5, <1>6, <1>7 DEF IInv

LEMMA InvKeeps ==
  ASSUME Calm, ServerCloses = {}, IInv, [Next]_vars
  PROVE  IInv'
BY TypeKeeps, UnaskedKeeps, ListenKeeps, OwnKeeps, WireKeeps, CloseKeeps,
   MessageKeeps DEF IInv

\* Whatever the clients do, and however many there are, every entry in use has
\* one living thread, and every living thread an entry of its own.
THEOREM Invariant ==
  ASSUME Calm, ServerCloses = {}
  PROVE  Spec => []IInv
<1>1. Init => IInv
  BY InitInv
<1>2. IInv /\ [Next]_vars => IInv'
  BY InvKeeps
<1> QED
  BY <1>1, <1>2, PTL DEF Spec

\* onopen and onclose of websocket.c come in pairs, entry by entry.
THEOREM EventsPairedCorrect ==
  ASSUME Calm, ServerCloses = {}
  PROVE  Spec => EventsPaired
<1> DEFINE Paired == \A p \in Peers :
                       /\ Handshake(p) => Source(p) = p /\ opened[at[p]] = None
                       /\ OnClose(p) => opened[at[p]] = p
<1>1. IInv => Paired
  <2>1. ASSUME IInv, NEW p \in Peers, Handshake(p)
        PROVE  Source(p) = p /\ opened[at[p]] = None
    BY <2>1, Own, Silent DEF IInv, Handshake, Living, Speaking
  <2>2. ASSUME IInv, NEW p \in Peers, OnClose(p)
        PROVE  opened[at[p]] = p
    BY <2>2 DEF IInv, OnClose, OwnInv, Speaking
  <2> QED
    BY <2>1, <2>2
<1>2. IInv /\ [Next]_vars => [Paired]_vars
  BY <1>1
<1> QED
  BY <1>2, Invariant, PTL DEF Spec, EventsPaired

\* do_close answers a CLOSE that was read, once, before ws_establishconnection
\* gives the client up.
THEOREM CloseAnsweredCorrect ==
  ASSUME Calm, ServerCloses = {}
  PROVE  Spec => []CloseAnswered
<1>1. IInv => CloseAnswered
  BY DEF IInv, CloseInv, CloseAnswered
<1> QED
  BY <1>1, Invariant, PTL

\* next_frame and do_pong: whatever control frames come between, what onmessage
\* is given is one whole message of its own client, of one frame or of many,
\* and text if it is a text message.
THEOREM MessagesWholeCorrect ==
  ASSUME Calm, ServerCloses = {}
  PROVE  Spec => []MessagesWhole
<1>1. ASSUME IInv, NEW p \in Peers, NEW i \in 1 .. Len(delivered[p]), NEW begin,
             begin = IF i = 1 THEN 1
                     ELSE delivered[p][i - 1][Len(delivered[p][i - 1])][2] + 1
      PROVE  OneMessage(p, delivered[p][i], begin)
  <2>0. PICK s, m : s = said[p] /\ m = delivered[p][i]
    OBVIOUS
  <2>1. PICK z : z = Before(delivered[p], i)
    OBVIOUS
  <2>2. /\ said[p] \in Seq(Ops) /\ delivered[p] \in Seq(Seq(FrameNames))
        /\ Whole(p, said[p], delivered[p])
    BY <1>1 DEF IInv, TypeOK, MessageInv, MessageOf
  <2>3. z \in Nat /\ m \in Seq(FrameNames) /\ begin = z + 1
    <3>1. z \in Nat
      BY <2>1, <2>2, BeforeNat
    <3>2. m \in Seq(FrameNames)
      BY <2>0, <2>2
    <3>3. begin = z + 1
      BY <1>1, <2>1 DEF Before
    <3> QED
      BY <3>1, <3>2, <3>3
  <2>4. /\ Len(m) > 0 /\ InTurn(p, s, m, z)
        /\ \A k \in 1 .. Len(m) : s[z + k][2] <=> (k = Len(m))
        /\ s[z + 1][1] = "txt" => WellFormed(s, z + 1, z + Len(m))
    BY <2>0, <2>1, <2>2 DEF Whole
  <2>5. /\ Len(m) \in Nat /\ begin + Len(m) - 1 = z + Len(m)
        /\ \A k \in 1 .. Len(m) : begin + k - 1 = z + k
    BY <2>3
  <2>6. m # <<>>
    BY <2>3, <2>4
  <2>7. ASSUME NEW n \in begin .. begin + Len(m) - 1
        PROVE  (s[n][1] # "cont" <=> n = begin) /\ (s[n][2] <=> n = begin + Len(m) - 1)
    <3>1. n - z \in 1 .. Len(m) /\ z + (n - z) = n
          /\ (n - z = 1 <=> n = begin) /\ (n - z = Len(m) <=> n = begin + Len(m) - 1)
      BY <2>3, <2>5
    <3>2. s[z + (n - z)][1] # "cont" <=> n - z = 1
      BY <2>4, <3>1 DEF InTurn
    <3>3. s[z + (n - z)][2] <=> n - z = Len(m)
      BY <2>4, <3>1
    <3> QED
      BY <3>1, <3>2, <3>3
  <2>8. /\ m # <<>> /\ \A k \in 1 .. Len(m) : m[k] = <<p, begin + k - 1>>
        /\ \A n \in begin .. begin + Len(m) - 1 :
             (s[n][1] # "cont" <=> n = begin) /\ (s[n][2] <=> n = begin + Len(m) - 1)
        /\ s[begin][1] = "txt" => WellFormed(s, begin, begin + Len(m) - 1)
    BY <2>3, <2>4, <2>5, <2>6, <2>7 DEF InTurn
  <2> QED
    BY <2>0, <2>8 DEF OneMessage
<1>2. IInv => MessagesWhole
  BY <1>1 DEF MessagesWhole
<1> QED
  BY <1>2, Invariant, PTL

=============================================================================
