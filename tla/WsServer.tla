------------------------------- MODULE WsServer -------------------------------
(***************************************************************************)
(* The WebSocket server the console and the image page connect to: wsServer *)
(* (ws.c, which here listens on several ports).  One thread accepts         *)
(* the connections of a port, one thread reads the frames of a client and   *)
(* calls onopen, onmessage and onclose, and one thread per closing bounds   *)
(* the time a client may take to answer.  They meet in client_socks, the    *)
(* table of connections, whose entries are used again.                      *)
(*                                                                          *)
(* A peer is one life of one connection.  A data frame is known by its peer *)
(* and its number, what it holds by what it does to the UTF-8 decoder.      *)
(* ws_ping, which the program does not call, is left out; ws_close_client,  *)
(* which it does not call either, is kept for the peers of ServerCloses.    *)
(***************************************************************************)
EXTENDS Integers, Sequences

CONSTANTS
  Peers,        \* lives of connections
  Port,         \* of each, the port it connects to
  Ports,        \* the ports, one ws_socket call each, in threads of their own
  Slots,        \* the indices of client_socks
  ServerCloses, \* the peers ws_close_client is called for
  Reading,      \* the ports whose onmessage reads the text it is given
  Ops,          \* the data frames: how each begins, whether it is a last one,
                \* and what it holds: "plain", "half", "rest", "empty"
  Controls,     \* the others they send: "ping", "pong", and "bad" ones
  Frames,       \* bound, for each peer: frames it sends
  Calm          \* whether listeners start in turn, before clients come, and
                \* no client comes while one the server closes is going

ASSUME WsServerAssumption ==
  /\ Slots \subseteq Nat /\ Slots # {} /\ "none" \notin Peers
  /\ Port \in [Peers -> Ports] /\ 0 \notin Ports /\ Frames \in [Peers -> Nat]
  /\ ServerCloses \subseteq Peers /\ Reading \subseteq Ports
  /\ Ops \subseteq {"txt", "bin", "cont"} \X BOOLEAN \X {"plain", "half", "rest", "empty"}
  /\ Controls \subseteq {"ping", "pong", "bad"} /\ Calm \in BOOLEAN

VARIABLES
  starting, \* where each port's ws_socket is
  events,   \* cli_events, as the ports their entries are for
  listens,  \* listen_ports
  sock,     \* of each slot, client_sock: whose socket it holds
  state,    \* of each slot
  counted,  \* of each slot, close_thrd
  opened,   \* of each slot, the client of the last onopen, until an onclose
  thr,      \* where the thread of each connection is
  at,       \* its slot
  msg,      \* what it has read of a message: type, decoder, frames
  tout,     \* where the timeout thread of a closing is
  srv,      \* where ws_close_client is
  said,     \* the data frames each peer has sent
  wire,     \* its frames not yet read
  peer,     \* "new", "open", "wrong", "closing" (it sent CLOSE), "gone"
  cut,      \* peers whose socket the server has shut
  closes,   \* CLOSE frames each peer was sent
  delivered,\* the messages of each peer onmessage was called with
  crashed

vars == <<starting, events, listens, sock, state, counted, opened, thr, at, msg,
          tout, srv, said, wire, peer, cut, closes, delivered, crashed>>

listenVars == <<starting, events, listens>>
slotVars   == <<sock, state, counted>>
threadVars == <<thr, at, msg>>
peerVars   == <<said, wire, peer>>

None    == "none"
MAX_LISTEN_PORTS == 16
Nothing == [type |-> None, utf |-> "accept", frames |-> <<>>]
Lowest(S) == CHOOSE i \in S : \A j \in S : i <= j

Valid(s) == sock[s] # None
Mine(p)  == at[p]

-----------------------------------------------------------------------------
(* ws_socket                                                               *)

\* The events of a port go to the next entry of cli_events; with none left the
\* program panics ...
CopyEvents(t) ==
  /\ starting[t] = "off" /\ ~crashed
  /\ (Calm => \A u \in Ports : IF u < t THEN starting[u] = "on" ELSE starting[u] = "off")
  /\ IF listens >= MAX_LISTEN_PORTS
     THEN crashed' = TRUE /\ UNCHANGED <<events, starting>>
     ELSE /\ events' = [events EXCEPT ![listens] = t]
          /\ starting' = [starting EXCEPT ![t] = "copied"]
          /\ UNCHANGED crashed
  /\ UNCHANGED <<listens, slotVars, opened, threadVars, tout, srv, peerVars, cut,
                 closes, delivered>>

\* ... which is then counted.
CountEvents(t) ==
  /\ starting[t] = "copied" /\ ~crashed
  /\ listens' = listens + 1
  /\ starting' = [starting EXCEPT ![t] = "bound"]
  /\ UNCHANGED <<events, slotVars, opened, threadVars, tout, srv, peerVars, cut,
                 closes, delivered, crashed>>

\* memset(client_socks, -1), the table all ports share: nobody is in it any
\* more, and a slot nobody has filled since says that a timeout thread runs.
ClearTable(t) ==
  /\ starting[t] = "bound" /\ ~crashed
  /\ sock' = [s \in Slots |-> None] /\ state' = [s \in Slots |-> None]
  /\ counted' = [s \in Slots |-> TRUE]
  /\ starting' = [starting EXCEPT ![t] = "on"]
  /\ UNCHANGED <<events, listens, opened, threadVars, tout, srv, peerVars, cut,
                 closes, delivered, crashed>>

\* geteventsidxfromport
Served(t) == \E i \in 0 .. listens - 1 : events[i] = t

-----------------------------------------------------------------------------
(* ws_accept                                                               *)

\* Mutation: an entry is free once its state is CLOSED.
FreeSlots_Closed == {s \in Slots : sock[s] = None \/ state[s] = "CLOSED"}

FreeSlots == {s \in Slots : sock[s] = None}

\* A client the server closes is on its way out.
Leaving(p) == srv[p] # None /\ ~(thr[p] = "end" /\ srv[p] = "done" /\ tout[p] \in {None, "end"})

Accept(p) ==
  /\ peer[p] = "new" /\ starting[Port[p]] = "on" /\ ~crashed
  /\ (Calm => /\ \A t \in Ports : starting[t] = "on"
              /\ \A q \in Peers : ~Leaving(q))
  /\ IF FreeSlots = {}
     THEN /\ peer' = [peer EXCEPT ![p] = "gone"]
          /\ cut' = cut \cup {p}
          /\ UNCHANGED <<slotVars, threadVars>>
     ELSE LET s == Lowest(FreeSlots) IN
          /\ sock' = [sock EXCEPT ![s] = p]
          /\ state' = [state EXCEPT ![s] = "CONNECTING"]
          /\ counted' = [counted EXCEPT ![s] = FALSE]
          /\ at' = [at EXCEPT ![p] = s]
          /\ thr' = [thr EXCEPT ![p] = "handshake"]
          /\ peer' = [peer EXCEPT ![p] = "open"]
          /\ UNCHANGED <<msg, cut>>
  /\ UNCHANGED <<listenVars, opened, tout, srv, said, wire, closes, delivered,
                 crashed>>

-----------------------------------------------------------------------------
(* The peers                                                               *)

\* A peer sends the frames of one message after another, one frame at a time,
\* until it sends one it may not, or CLOSE: then no more.
Sent(p) == Len(said[p]) + Len(wire[p])

\* The frame a conforming peer may send next: what has been begun goes on.
Next1(p, o) ==
  LET n == Len(said[p]) IN
  IF n = 0 \/ said[p][n][2] THEN o[1] # "cont" ELSE o[1] = "cont"

SendData(p) ==
  /\ peer[p] = "open" /\ thr[p] = "read" /\ ~crashed /\ wire[p] = <<>>
  /\ Sent(p) < Frames[p]
  /\ \E o \in Ops :
       /\ said' = [said EXCEPT ![p] = Append(@, o)]
       /\ wire' = [wire EXCEPT ![p] = Append(@, <<"data", Len(said[p]) + 1>>)]
       /\ peer' = IF Next1(p, o) THEN peer ELSE [peer EXCEPT ![p] = "wrong"]
  /\ UNCHANGED <<listenVars, slotVars, opened, threadVars, tout, srv, cut,
                 closes, delivered, crashed>>

SendControl(p) ==
  /\ peer[p] = "open" /\ thr[p] = "read" /\ ~crashed /\ wire[p] = <<>>
  /\ Sent(p) < Frames[p]
  /\ \E k \in Controls :
       /\ wire' = [wire EXCEPT ![p] = Append(@, <<k, 0>>)]
       /\ peer' = IF k # "bad" THEN peer ELSE [peer EXCEPT ![p] = "wrong"]
  /\ UNCHANGED <<listenVars, slotVars, opened, threadVars, tout, srv, said, cut,
                 closes, delivered, crashed>>

\* A peer may leave a CLOSE unanswered, and may end its connection at any time.
SendClose(p) ==
  /\ peer[p] = "open" /\ thr[p] \notin {None, "handshake"} /\ ~crashed
  /\ Len(wire[p]) < 2
  /\ wire' = [wire EXCEPT ![p] = Append(@, <<"close", 0>>)]
  /\ peer' = [peer EXCEPT ![p] = "closing"]
  /\ UNCHANGED <<listenVars, slotVars, opened, threadVars, tout, srv, said, cut,
                 closes, delivered, crashed>>

Quit(p) ==
  /\ peer[p] \in {"open", "wrong", "closing"} /\ ~crashed
  /\ peer' = [peer EXCEPT ![p] = "gone"]
  /\ UNCHANGED <<listenVars, slotVars, opened, threadVars, tout, srv, said, wire,
                 cut, closes, delivered, crashed>>

-----------------------------------------------------------------------------
(* ws_establishconnection                                                  *)

Goes(p, pc) == thr' = [thr EXCEPT ![p] = pc]

\* The socket the thread reads, through its slot; recv fails when it has ended.
Source(p) == sock[at[p]]
Alive(p)  == /\ Source(p) # None /\ Source(p) \notin cut
             /\ wire[Source(p)] # <<>> \/ peer[Source(p)] # "gone"

\* do_handshake: the request has come whole and has a key; it is answered and
\* the client told of.  onopen of websocket.c.
Handshake(p) ==
  /\ thr[p] = "handshake" /\ ~crashed /\ Alive(p)
  /\ state' = [state EXCEPT ![at[p]] = "OPEN"]
  /\ opened' = IF Served(Port[p]) THEN [opened EXCEPT ![at[p]] = p] ELSE opened
  /\ Goes(p, "read")
  /\ UNCHANGED <<listenVars, sock, counted, at, msg, tout, srv, peerVars, cut,
                 closes, delivered, crashed>>

\* It has no key, came in parts, or not at all.
HandshakeFails(p) ==
  /\ thr[p] = "handshake" /\ ~crashed /\ Goes(p, "closed")
  /\ UNCHANGED <<listenVars, slotVars, opened, at, msg, tout, srv, peerVars, cut,
                 closes, delivered, crashed>>

Reads(p) == thr[p] = "read" /\ ~crashed /\ Alive(p) /\ wire[Source(p)] # <<>>
First(p) == Head(wire[Source(p)])
Taken(p) == wire' = [wire EXCEPT ![Source(p)] = Tail(@)]

\* next_byte fails.
ReadFails(p) ==
  /\ thr[p] = "read" /\ ~crashed /\ ~Alive(p)
  /\ Goes(p, "event") /\ msg' = [msg EXCEPT ![p] = Nothing]
  /\ UNCHANGED <<listenVars, slotVars, opened, at, tout, srv, peerVars, cut,
                 closes, delivered, crashed>>

\* is_utf8_len_state over one frame: "half" ends within a character, "rest"
\* is the end of one.
Decode(u, text) ==
  CASE text = "empty"                  -> u
    [] u = "accept" /\ text = "plain" -> "accept"
    [] u = "accept" /\ text = "half"  -> "half"
    [] u = "half"   /\ text = "rest"  -> "accept"
    [] OTHER                          -> "reject"

\* A frame of a message: it begins one, or goes on with the one begun.
Expected(p, op) == (msg[p].type = None) <=> (op # "cont")

\* The message with its next frame n, o.  Only the text of a text message is
\* decoded.
WithFrame(m, o, f) ==
  LET type == IF o[1] = "cont" THEN m.type ELSE o[1] IN
  [type   |-> type,
   utf    |-> IF type = "txt" THEN Decode(m.utf, o[3]) ELSE m.utf,
   frames |-> Append(m.frames, f)]

\* onmessage is given no text, but NULL; the console's copies from it, if the
\* client has a ring.
NoText(m) == \A k \in 1 .. Len(m.frames) :
               said[m.frames[k][1]][m.frames[k][2]][3] = "empty"

\* next_frame, data: the message grows; its last frame delivers it, unless it
\* is a text message and not text.  onmessage.
ReadData(p) ==
  /\ Reads(p) /\ First(p)[1] = "data"
  /\ LET q == Source(p)  o == said[q][First(p)[2]]
         m == WithFrame(msg[p], o, <<q, First(p)[2]>>)
         fits == Expected(p, o[1]) /\ state[at[p]] # "CLOSING"
         text == IF o[2] THEN m.utf = "accept" ELSE m.utf # "reject"
         whole == fits /\ text /\ o[2] /\ Served(Port[p]) IN
       /\ Goes(p, IF fits /\ text THEN "read" ELSE "event")
       /\ msg' = [msg EXCEPT ![p] = IF fits /\ text /\ ~o[2] THEN m ELSE Nothing]
       /\ delivered' = IF whole THEN [delivered EXCEPT ![p] = Append(@, m.frames)]
                       ELSE delivered
       /\ crashed' \in {FALSE, whole /\ NoText(m) /\ Port[p] \in Reading}
       /\ closes' = IF fits /\ ~text THEN [closes EXCEPT ![q] = @ + 1] ELSE closes
  /\ Taken(p)
  /\ UNCHANGED <<listenVars, slotVars, opened, at, tout, srv, said, peer, cut>>

\* Mutation: a ping counts as the last frame of what was being read.
ReadPing_Fin(p) ==
  /\ Reads(p) /\ First(p)[1] \in {"ping", "pong"} /\ state[at[p]] # "CLOSING"
  /\ Taken(p)
  /\ msg' = [msg EXCEPT ![p] = Nothing]
  /\ delivered' = IF msg[p].type # None
                  THEN [delivered EXCEPT ![p] = Append(@, msg[p].frames)]
                  ELSE delivered
  /\ UNCHANGED <<listenVars, slotVars, opened, at, thr, tout, srv, said, peer, cut,
                 closes, crashed>>

\* do_pong, or a pong, which nobody waits for: the message goes on.
ReadPing(p) ==
  /\ Reads(p) /\ First(p)[1] \in {"ping", "pong"} /\ state[at[p]] # "CLOSING"
  /\ Taken(p)
  /\ UNCHANGED <<listenVars, slotVars, opened, threadVars, tout, srv, said, peer,
                 cut, closes, delivered, crashed>>

\* Reserved bits, an unknown or an oversized frame; or, once the server has
\* asked to close, anything but CLOSE.
ReadBad(p) ==
  /\ Reads(p)
  /\ \/ First(p)[1] = "bad"
     \/ First(p)[1] \in {"ping", "pong"} /\ state[at[p]] = "CLOSING"
  /\ Taken(p) /\ Goes(p, "event") /\ msg' = [msg EXCEPT ![p] = Nothing]
  /\ UNCHANGED <<listenVars, slotVars, opened, at, tout, srv, said, peer, cut,
                 closes, delivered, crashed>>

\* Mutation: the state is set before it is tested.
ReadClose_SetFirst(p) ==
  /\ Reads(p) /\ First(p)[1] = "close"
  /\ Taken(p) /\ msg' = [msg EXCEPT ![p] = Nothing]
  /\ state' = [state EXCEPT ![at[p]] = "CLOSING"] /\ Goes(p, "event")
  /\ UNCHANGED <<listenVars, sock, counted, opened, at, tout, srv, said, peer, cut,
                 closes, delivered, crashed>>

\* CLOSE: to be answered unless the state says the server asked first.
ReadClose(p) ==
  /\ Reads(p) /\ First(p)[1] = "close"
  /\ Taken(p) /\ msg' = [msg EXCEPT ![p] = Nothing]
  /\ Goes(p, IF state[at[p]] = "CLOSING" THEN "event" ELSE "reply")
  /\ UNCHANGED <<listenVars, slotVars, opened, at, tout, srv, said, peer, cut,
                 closes, delivered, crashed>>

\* set_client_state, do_close
Reply(p) ==
  /\ thr[p] = "reply" /\ ~crashed
  /\ Goes(p, "event")
  /\ IF Valid(at[p])
     THEN /\ state' = [state EXCEPT ![at[p]] = "CLOSING"]
          /\ closes' = [closes EXCEPT ![Source(p)] = @ + 1]
     ELSE UNCHANGED <<state, closes>>
  /\ UNCHANGED <<listenVars, sock, counted, opened, at, msg, tout, srv, peerVars,
                 cut, delivered, crashed>>

\* onclose
OnClose(p) ==
  /\ thr[p] = "event" /\ ~crashed /\ Goes(p, "closed")
  /\ opened' = IF Served(Port[p]) THEN [opened EXCEPT ![at[p]] = None] ELSE opened
  /\ UNCHANGED <<listenVars, slotVars, at, msg, tout, srv, peerVars, cut, closes,
                 delivered, crashed>>

\* close_thrd is read, without the lock.
Closed(p) ==
  /\ thr[p] = "closed" /\ ~crashed
  /\ Goes(p, IF counted[at[p]] THEN "join" ELSE "test")
  /\ UNCHANGED <<listenVars, slotVars, opened, at, msg, tout, srv, peerVars, cut,
                 closes, delivered, crashed>>

\* The signal does not end the timeout thread's wait, which tests the state
\* again: the join lasts as long.  There may be no such thread.
Join(p) ==
  /\ thr[p] = "join" /\ ~crashed
  /\ IF tout[p] = None THEN crashed' = TRUE /\ UNCHANGED thr
     ELSE tout[p] = "end" /\ Goes(p, "test") /\ UNCHANGED crashed
  /\ UNCHANGED <<listenVars, slotVars, opened, at, msg, tout, srv, peerVars, cut,
                 closes, delivered>>

\* close_client: the state and the socket first, ...
Shut(s) ==
  /\ state' = [state EXCEPT ![s] = "CLOSED"]
  /\ cut' = cut \cup {sock[s]}

\* ... the entry, under the global mutex, last.
Free(s) == sock' = [sock EXCEPT ![s] = None]

\* Mutation: a client whose CLOSE was answered counts as closed.
CloseTest_Answered(p) ==
  /\ thr[p] = "test" /\ ~crashed
  /\ IF Valid(at[p]) /\ state[at[p]] \notin {"CLOSING", "CLOSED"}
     THEN Shut(at[p]) /\ Goes(p, "free")
     ELSE Goes(p, "end") /\ UNCHANGED <<state, cut>>
  /\ UNCHANGED <<listenVars, sock, counted, opened, at, msg, tout, srv, peerVars,
                 closes, delivered, crashed>>

CloseTest(p) ==
  /\ thr[p] = "test" /\ ~crashed
  /\ IF Valid(at[p]) /\ state[at[p]] # "CLOSED"
     THEN Shut(at[p]) /\ Goes(p, "free")
     ELSE Goes(p, "end") /\ UNCHANGED <<state, cut>>
  /\ UNCHANGED <<listenVars, sock, counted, opened, at, msg, tout, srv, peerVars,
                 closes, delivered, crashed>>

CloseFree(p) ==
  /\ thr[p] = "free" /\ ~crashed /\ Free(at[p]) /\ Goes(p, "end")
  /\ UNCHANGED <<listenVars, state, counted, opened, at, msg, tout, srv, peerVars,
                 cut, closes, delivered, crashed>>

-----------------------------------------------------------------------------
(* ws_close_client and close_timeout                                       *)

\* The CLOSE frame goes first ...
ServerClose(p) ==
  /\ p \in ServerCloses /\ srv[p] = None /\ ~crashed
  /\ thr[p] # None /\ opened[at[p]] = p /\ Valid(at[p])
  /\ closes' = [closes EXCEPT ![sock[at[p]]] = @ + 1]
  /\ srv' = [srv EXCEPT ![p] = "sent"]
  /\ UNCHANGED <<listenVars, slotVars, opened, threadVars, tout, peerVars, cut,
                 delivered, crashed>>

\* ... then the state, unless the client's own CLOSE has changed it.
StartTimeout(p) ==
  /\ srv[p] = "sent" /\ ~crashed /\ srv' = [srv EXCEPT ![p] = "done"]
  /\ IF Valid(at[p]) /\ state[at[p]] = "OPEN"
     THEN /\ state' = [state EXCEPT ![at[p]] = "CLOSING"]
          /\ tout' = [tout EXCEPT ![p] = "wait"]
          /\ counted' = [counted EXCEPT ![at[p]] = TRUE]
     ELSE UNCHANGED <<state, tout, counted>>
  /\ UNCHANGED <<listenVars, sock, opened, threadVars, peerVars, cut, closes,
                 delivered, crashed>>

\* close_timeout: the time is over, or the client was closed before.
Expire(p) ==
  /\ tout[p] = "wait" /\ ~crashed
  /\ IF state[at[p]] # "CLOSED" /\ Valid(at[p])
     THEN Shut(at[p]) /\ tout' = [tout EXCEPT ![p] = "free"]
     ELSE tout' = [tout EXCEPT ![p] = "end"] /\ UNCHANGED <<state, cut>>
  /\ UNCHANGED <<listenVars, sock, counted, opened, threadVars, srv, peerVars,
                 closes, delivered, crashed>>

ExpireFree(p) ==
  /\ tout[p] = "free" /\ ~crashed /\ Free(at[p])
  /\ tout' = [tout EXCEPT ![p] = "end"]
  /\ UNCHANGED <<listenVars, state, counted, opened, threadVars, srv, peerVars, cut,
                 closes, delivered, crashed>>

-----------------------------------------------------------------------------
Init ==
  /\ starting = [t \in Ports |-> "off"] /\ listens = 0
  /\ events = [i \in 0 .. MAX_LISTEN_PORTS - 1 |-> 0]
  /\ sock = [s \in Slots |-> None] /\ state = [s \in Slots |-> None]
  /\ counted = [s \in Slots |-> FALSE] /\ opened = [s \in Slots |-> None]
  /\ thr = [p \in Peers |-> None] /\ at = [p \in Peers |-> Lowest(Slots)]
  /\ msg = [p \in Peers |-> Nothing] /\ tout = [p \in Peers |-> None]
  /\ srv = [p \in Peers |-> None] /\ said = [p \in Peers |-> <<>>]
  /\ wire = [p \in Peers |-> <<>>] /\ peer = [p \in Peers |-> "new"]
  /\ cut = {} /\ closes = [p \in Peers |-> 0]
  /\ delivered = [p \in Peers |-> <<>>] /\ crashed = FALSE

Start(t)   == CopyEvents(t) \/ CountEvents(t) \/ ClearTable(t)
PeerDoes(p) == SendData(p) \/ SendControl(p) \/ SendClose(p) \/ Quit(p)
ReadFrame(p) == ReadFails(p) \/ ReadData(p) \/ ReadPing(p) \/ ReadBad(p) \/ ReadClose(p)
Ending(p)  == \/ Reply(p) \/ OnClose(p) \/ Closed(p) \/ Join(p)
              \/ CloseTest(p) \/ CloseFree(p)
Connection(p) == Handshake(p) \/ HandshakeFails(p) \/ ReadFrame(p) \/ Ending(p)
Closing(p) == StartTimeout(p) \/ Expire(p) \/ ExpireFree(p)

Next == \/ \E t \in Ports : Start(t)
        \/ \E p \in Peers : \/ Accept(p) \/ PeerDoes(p) \/ Connection(p)
                            \/ ServerClose(p) \/ Closing(p)

\* Threads are scheduled and the clock goes on; peers owe nothing.
Fairness == \A p \in Peers : WF_vars(Connection(p)) /\ WF_vars(Closing(p))

Spec == Init /\ [][Next]_vars /\ Fairness

-----------------------------------------------------------------------------
(* Properties                                                              *)

\* A character is not complete with the frames b .. n - 1.
Unfinished(s, b, n) ==
  \E j \in b .. n - 1 : s[j][3] = "half" /\ \A i \in j + 1 .. n - 1 : s[i][3] = "empty"

\* The frames b .. e are text.
WellFormed(s, b, e) ==
  /\ \A n \in b .. e : s[n][3] # "empty" => (s[n][3] = "rest" <=> Unfinished(s, b, n))
  /\ ~Unfinished(s, b, e + 1)

\* m is a message of the peer's own frames, from the number begin on.
OneMessage(p, m, begin) ==
  LET s == said[p]  end == begin + Len(m) - 1 IN
  /\ m # <<>> /\ \A k \in 1 .. Len(m) : m[k] = <<p, begin + k - 1>>
  /\ \A n \in begin .. end : (s[n][1] # "cont" <=> n = begin) /\ (s[n][2] <=> n = end)
  /\ s[begin][1] = "txt" => WellFormed(s, begin, end)

\* A message given to onmessage is one message of that peer: its frames
\* without a gap from the one that begins it to its last, whatever control
\* frames came between them; and well-formed text if it is a text message (of
\* a binary one, which onmessage is given alike, nothing is checked).
MessagesWhole ==
  \A p \in Peers : \A i \in 1 .. Len(delivered[p]) :
    OneMessage(p, delivered[p][i],
               IF i = 1 THEN 1 ELSE delivered[p][i - 1][Len(delivered[p][i - 1])][2] + 1)

\* A client the program is told of has an entry of its own, and onclose ends
\* what the onopen of the same client began: no thread speaks for the client
\* that has its entry now, or had it before.
EventsPaired ==
  [][\A p \in Peers :
       /\ Handshake(p) => Source(p) = p /\ opened[at[p]] = None
       /\ OnClose(p) => opened[at[p]] = p]_vars

\* A CLOSE that has been read is answered before the client is given up: with
\* one CLOSE, if the server did not send its own.
CloseAnswered ==
  \A p \in Peers :
    peer[p] = "closing" /\ wire[p] = <<>> /\ thr[p] \notin {"reply", "read"} =>
      closes[p] = 1 \/ (p \in ServerCloses /\ closes[p] = 2)

\* A client that has gone, and one the server closes whatever it does, leaves
\* its thread ended and its entry free.
GoneAtLast ==
  \A p \in Peers :
    (thr[p] # None /\ (peer[p] \in {"closing", "gone"} \/ tout[p] # None \/ srv[p] = "done"))
      ~> ((thr[p] = "end" /\ \A s \in Slots : sock[s] # p) \/ crashed)

\* ws.c says "We only send a CLOSE frame once, if we're already in CLOSING
\* state, there is no need to send."
OneClose == \A p \in Peers : closes[p] <= 1
=============================================================================
