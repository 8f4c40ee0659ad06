------------------------------- MODULE Clients -------------------------------
(***************************************************************************)
(* The clients of the console and what is printed to them: the listeners   *)
(* that accept TCP connections (network.c) and WebSocket ones              *)
(* (websocket.c), the output rings of messages.c that msg_print fills      *)
(* without a lock, and the transmit thread of each client that empties its *)
(* ring.                                                                   *)
(*                                                                         *)
(* A peer is one life of one connection.  A command connection is a peer   *)
(* of port 600, a data connection one of port 601, both kept in tables of  *)
(* MAXCONNECTION entries; a WebSocket peer has an entry of ws.c's table.   *)
(* A line is known by its number.  The reading and writing of out_index    *)
(* by one statement is one step.                                           *)
(***************************************************************************)
EXTENDS Integers

CONSTANTS
  Peers,     \* lives of connections
  Kind,      \* of each: "cmd", "data" or "ws"
  Entries,   \* the indices of each connection table
  Outs,      \* the indices of clients_out_buffer
  N,         \* MAX_NB_MESSAGES
  Writers,   \* threads that print
  Wild,      \* what the use of index -1 may come to: "sleep", "end", "crash"
  Calm,      \* whether peers and printers take turns, at a pace clients keep
  MaxLines   \* bound: lines printed

ASSUME ClientsAssumption ==
  /\ Kind \in [Peers -> {"cmd", "data", "ws"}]
  /\ Entries \subseteq Nat /\ Outs \subseteq Nat
  /\ N \in Nat /\ N >= 2 /\ MaxLines \in Nat
  /\ Wild \subseteq {"sleep", "end", "crash"} /\ Wild # {} /\ Calm \in BOOLEAN

VARIABLES
  conn,    \* where the thread of each connection is
  at,      \* its entry in its table
  rings,   \* clients_out_buffer and handle_to_index
  tx,      \* where each transmit thread is
  idx,     \* the ring it works on
  hand,    \* the line it has taken
  pr,      \* each printer: where it is, the ring it has reached, its line
  sent,    \* lines printed
  got,     \* the last line each peer received; at first, the last printed
  crashed

vars == <<conn, at, rings, tx, idx, hand, pr, sent, got, crashed>>

Succ(i) == (i + 1) % N
Lowest(S) == CHOOSE i \in S : \A j \in S : i <= j

\* threadparams_cmd, threadparams_data, client_socks: the peer in an entry. The
\* entry is cleared by the last step of the connection's thread.
Holds(p)      == conn[p] \in {"open", "leaving", "removing"}
In(kind, i)   == {p \in Peers : Kind[p] = kind /\ Holds(p) /\ at[p] = i}
Free(kind)    == {i \in Entries : In(kind, i) = {}}

\* The handle of a client: the address of its entry, or 0x80000000 with its
\* index, for command and data connections alike.
Handle(p) == <<Kind[p] = "ws", at[p]>>

\* handle_to_index
IndexOf(h) ==
  LET S == {k \in Outs : rings[k].enabled /\ rings[k].handle = h}
  IN  IF S = {} THEN -1 ELSE Lowest(S)

\* print_socket's and ws_sendframe_txt's receiver: whoever has the entry.
To(p) == In(IF Kind[p] = "ws" THEN "ws" ELSE "cmd", at[p])

Empty(k) == rings[k].out = rings[k].in
Count(k) == (rings[k].in - rings[k].out) % N

\* Environment: nobody comes, goes or prints before the rest is at rest, and a
\* printer leaves the rings room.
AtRest  == \A p \in Peers : /\ conn[p] \in {"new", "open", "gone"}
                            /\ \/ tx[p] \in {"none", "lost", "end"}
                               \/ tx[p] = "wait" /\ conn[p] = "open"
Settled == Calm => /\ AtRest
                   /\ \A k \in Outs : ~rings[k].signalled
                   /\ \A w \in Writers : pr[w].pc = "idle"
Paced   == Calm => /\ \A p \in Peers : conn[p] \in {"new", "open", "gone"}
                   /\ \A k \in Outs : Count(k) < N - 1

-----------------------------------------------------------------------------
(* Coming                                                                  *)

\* Mutation: the event keeps the state the client before left it in.
Registered_KeepsEvent(h) ==
  LET S == {k \in Outs : ~rings[k].enabled}
  IN  IF S = {} THEN rings
      ELSE [rings EXCEPT ![Lowest(S)] =
              [@ EXCEPT !.enabled = TRUE, !.handle = h, !.in = 0, !.out = 0]]

\* add_client: the first ring nobody has, emptied, its event reset; none
\* when all are taken.
Registered(h) ==
  LET S == {k \in Outs : ~rings[k].enabled}
  IN  IF S = {} THEN rings
      ELSE [rings EXCEPT ![Lowest(S)] =
              [enabled |-> TRUE, handle |-> h, in |-> 0, out |-> 0,
               text |-> [i \in 0 .. N - 1 |-> 0],
               signalled |-> FALSE, cancelled |-> FALSE]]

Arrives(p) ==
  /\ ~crashed /\ conn[p] = "new" /\ Settled

\* tcp_listener, both modes: too many connections.
Refuse(p) ==
  /\ Arrives(p) /\ Free(Kind[p]) = {}
  /\ conn' = [conn EXCEPT ![p] = "gone"]
  /\ UNCHANGED <<at, rings, tx, idx, hand, pr, sent, got, crashed>>

\* tcp_listener for a data connection.  connection_thread creates a transmit
\* thread for it too, with the handle of the command connection of its index.
AcceptData(p) ==
  /\ Arrives(p) /\ Kind[p] = "data" /\ Free("data") # {}
  /\ at' = [at EXCEPT ![p] = Lowest(Free("data"))]
  /\ conn' = [conn EXCEPT ![p] = "open"]
  /\ tx' = [tx EXCEPT ![p] = "look"]
  /\ UNCHANGED <<rings, idx, hand, pr, sent, got, crashed>>

\* tcp_listener for a command connection ends clientname in the entry of the
\* data connection of the same index, through a null pointer when there is
\* none.
AcceptCmd(p) ==
  /\ Arrives(p) /\ Kind[p] = "cmd" /\ Free("cmd") # {}
  /\ LET i == Lowest(Free("cmd")) IN
       IF i \in Free("data")
       THEN /\ crashed' = TRUE
            /\ UNCHANGED <<conn, at, rings, tx, got>>
       ELSE /\ at' = [at EXCEPT ![p] = i]
            /\ conn' = [conn EXCEPT ![p] = "open"]
            /\ rings' = Registered(<<FALSE, i>>)
            /\ got' = [got EXCEPT ![p] = sent]
            /\ tx' = [tx EXCEPT ![p] = "look"]
            /\ UNCHANGED crashed
  /\ UNCHANGED <<idx, hand, pr, sent>>

\* onopen; without a ring there is no transmit thread.
WsOpen(p) ==
  /\ Arrives(p) /\ Kind[p] = "ws" /\ Free("ws") # {}
  /\ LET i == Lowest(Free("ws")) IN
       /\ at' = [at EXCEPT ![p] = i]
       /\ rings' = Registered(<<TRUE, i>>)
  /\ conn' = [conn EXCEPT ![p] = "open"]
  /\ got' = [got EXCEPT ![p] = sent]
  /\ tx' = [tx EXCEPT ![p] = IF rings' = rings THEN "none" ELSE "look"]
  /\ UNCHANGED <<idx, hand, pr, sent, crashed>>

-----------------------------------------------------------------------------
(* Going                                                                   *)

\* The peer ends its connection, or sends kill_server: recv's loop is left.
Leave(p) ==
  /\ ~crashed /\ conn[p] = "open" /\ Settled
  /\ conn' = [conn EXCEPT ![p] = "leaving"]
  /\ UNCHANGED <<at, rings, tx, idx, hand, pr, sent, got, crashed>>

\* exitwait empties the ring and cancels its event; a data connection does
\* not call it.
ExitWait(p) ==
  /\ ~crashed /\ conn[p] = "leaving"
  /\ conn' = [conn EXCEPT ![p] = "removing"]
  /\ LET k == IndexOf(Handle(p)) IN
       rings' = IF Kind[p] = "data" \/ k = -1 THEN rings
                ELSE [rings EXCEPT ![k].in = 0, ![k].out = 0,
                                   ![k].cancelled = TRUE]
  /\ UNCHANGED <<at, tx, idx, hand, pr, sent, got, crashed>>

\* Mutation: onclose does not remove the client.
Clear_KeepsRing(p) ==
  /\ ~crashed /\ conn[p] = "removing"
  /\ conn' = [conn EXCEPT ![p] = "gone"]
  /\ UNCHANGED <<at, rings, tx, idx, hand, pr, sent, got, crashed>>

\* The entry becomes free.  onclose removes the client's ring before that;
\* connection_thread only closes its socket.
Clear(p) ==
  /\ ~crashed /\ conn[p] = "removing"
  /\ conn' = [conn EXCEPT ![p] = "gone"]
  /\ LET k == IndexOf(Handle(p)) IN
       rings' = IF Kind[p] # "ws" \/ k = -1 THEN rings
                ELSE [rings EXCEPT ![k].in = 0, ![k].out = 0,
                        ![k].text = [i \in 0 .. N - 1 |-> 0],
                        ![k].enabled = FALSE]
  /\ UNCHANGED <<at, tx, idx, hand, pr, sent, got, crashed>>

-----------------------------------------------------------------------------
(* A transmit thread: network_txthread, websocket_txthread, msg_out_wait   *)

\* It asks for its ring each time round.  For a client that is not registered
\* the index is -1 and msg_out_wait works on what lies before the array.
TxLook(p) ==
  /\ ~crashed /\ tx[p] = "look"
  /\ idx' = [idx EXCEPT ![p] = IndexOf(Handle(p))]
  /\ IF idx'[p] # -1
     THEN tx' = [tx EXCEPT ![p] = "test"] /\ UNCHANGED crashed
     ELSE \E o \in Wild :
            /\ tx' = [tx EXCEPT ![p] = IF o = "sleep" THEN "lost" ELSE "end"]
            /\ crashed' = (o = "crash")
  /\ UNCHANGED <<conn, at, rings, hand, pr, sent, got>>

TxTest(p) ==
  /\ ~crashed /\ tx[p] = "test"
  /\ tx' = [tx EXCEPT ![p] = IF Empty(idx[p]) THEN "wait" ELSE "take"]
  /\ UNCHANGED <<conn, at, rings, idx, hand, pr, sent, got, crashed>>

\* waitEvent returns; a cancelled event ends the thread.
TxWake(p) ==
  /\ ~crashed /\ tx[p] = "wait"
  /\ LET r == rings[idx[p]] IN
       /\ r.signalled \/ r.cancelled
       /\ tx' = [tx EXCEPT ![p] = IF r.cancelled THEN "end" ELSE "test"]
  /\ rings' = [rings EXCEPT ![idx[p]].signalled = FALSE]
  /\ UNCHANGED <<conn, at, idx, hand, pr, sent, got, crashed>>

\* The text is copied.  A ring emptied since the test gives an empty line, 0.
TxTake(p) ==
  /\ ~crashed /\ tx[p] = "take"
  /\ LET r == rings[idx[p]] IN
       IF r.out # r.in
       THEN /\ hand' = [hand EXCEPT ![p] = r.text[r.out]]
            /\ tx' = [tx EXCEPT ![p] = "step"]
       ELSE /\ hand' = [hand EXCEPT ![p] = 0]
            /\ tx' = [tx EXCEPT ![p] = "send"]
  /\ UNCHANGED <<conn, at, rings, idx, pr, sent, got, crashed>>

\* Mutation: the next index is counted from in_index.
TxStep_FromIn(p) ==
  /\ ~crashed /\ tx[p] = "step"
  /\ rings' = [rings EXCEPT ![idx[p]].out = Succ(rings[idx[p]].in)]
  /\ tx' = [tx EXCEPT ![p] = "send"]
  /\ UNCHANGED <<conn, at, idx, hand, pr, sent, got, crashed>>

TxStep(p) ==
  /\ ~crashed /\ tx[p] = "step"
  /\ rings' = [rings EXCEPT ![idx[p]].out = Succ(@)]
  /\ tx' = [tx EXCEPT ![p] = "send"]
  /\ UNCHANGED <<conn, at, idx, hand, pr, sent, got, crashed>>

\* print_socket takes the socket from the command table, through a null
\* pointer when the entry was cleared; ws_sendframe_txt then sends to nobody.
TxSend(p) ==
  /\ ~crashed /\ tx[p] = "send"
  /\ got' = [q \in Peers |-> IF q \in To(p) THEN hand[p] ELSE got[q]]
  /\ crashed' = (To(p) = {} /\ Kind[p] # "ws")
  /\ tx' = [tx EXCEPT ![p] = "look"] /\ hand' = [hand EXCEPT ![p] = 0]
  /\ UNCHANGED <<conn, at, rings, idx, pr, sent>>

-----------------------------------------------------------------------------
(* A printer: msg_print                                                    *)

PrintLine(w) ==
  /\ ~crashed /\ pr[w].pc = "idle" /\ sent < MaxLines /\ Paced
  /\ sent' = sent + 1
  /\ pr' = [pr EXCEPT ![w] = [pc |-> "scan", ring |-> 0, line |-> sent + 1]]
  /\ UNCHANGED <<conn, at, rings, tx, idx, hand, got, crashed>>

\* The text goes into the next enabled ring's slot; after the last the line
\* is done.
PrintCopy(w) ==
  /\ ~crashed /\ pr[w].pc = "scan"
  /\ LET S == {k \in Outs : rings[k].enabled /\ k >= pr[w].ring}
         k == Lowest(S) IN
       IF S = {}
       THEN /\ pr' = [pr EXCEPT ![w] = [pc |-> "idle", ring |-> 0, line |-> 0]]
            /\ UNCHANGED rings
       ELSE /\ rings' = [rings EXCEPT ![k].text[rings[k].in] = pr[w].line]
            /\ pr' = [pr EXCEPT ![w].pc = "step", ![w].ring = k]
  /\ UNCHANGED <<conn, at, tx, idx, hand, sent, got, crashed>>

\* in_index is advanced; a full ring gives up its oldest line.
PrintStep(w) ==
  /\ ~crashed /\ pr[w].pc = "step"
  /\ LET r == rings[pr[w].ring] IN
       rings' = [rings EXCEPT ![pr[w].ring].in = Succ(r.in),
                   ![pr[w].ring].out = IF Succ(r.in) = r.out THEN Succ(r.out)
                                       ELSE r.out]
  /\ pr' = [pr EXCEPT ![w].pc = "signal"]
  /\ UNCHANGED <<conn, at, tx, idx, hand, sent, got, crashed>>

\* sendEvent
PrintSignal(w) ==
  /\ ~crashed /\ pr[w].pc = "signal"
  /\ rings' = [rings EXCEPT ![pr[w].ring].signalled = TRUE]
  /\ pr' = [pr EXCEPT ![w].pc = "scan", ![w].ring = @ + 1]
  /\ UNCHANGED <<conn, at, tx, idx, hand, sent, got, crashed>>

-----------------------------------------------------------------------------
Init ==
  /\ conn = [p \in Peers |-> "new"] /\ at = [p \in Peers |-> -1]
  /\ rings = [k \in Outs |->
                [enabled |-> FALSE, handle |-> <<FALSE, -1>>, in |-> 0,
                 out |-> 0, text |-> [i \in 0 .. N - 1 |-> 0],
                 signalled |-> FALSE, cancelled |-> FALSE]]
  /\ tx = [p \in Peers |-> "none"] /\ idx = [p \in Peers |-> -1]
  /\ hand = [p \in Peers |-> 0]
  /\ pr = [w \in Writers |-> [pc |-> "idle", ring |-> 0, line |-> 0]]
  /\ sent = 0 /\ got = [p \in Peers |-> 0] /\ crashed = FALSE

Come(p)     == Refuse(p) \/ AcceptData(p) \/ AcceptCmd(p) \/ WsOpen(p)
Close(p)    == ExitWait(p) \/ Clear(p)
Transmit(p) == \/ TxLook(p) \/ TxTest(p) \/ TxWake(p)
               \/ TxTake(p) \/ TxStep(p) \/ TxSend(p)
Printing(w) == PrintCopy(w) \/ PrintStep(w) \/ PrintSignal(w)

Next == \/ \E p \in Peers : Come(p) \/ Leave(p) \/ Close(p) \/ Transmit(p)
        \/ \E w \in Writers : PrintLine(w) \/ Printing(w)

\* The threads are scheduled; that anyone comes, goes or prints is not assumed.
Fairness == /\ \A p \in Peers : WF_vars(Close(p)) /\ WF_vars(Transmit(p))
            /\ \A w \in Writers : WF_vars(Printing(w))

Spec == Init /\ [][Next]_vars /\ Fairness

-----------------------------------------------------------------------------
(* Properties                                                              *)

Lines == 1 .. MaxLines

\* A peer has the ring that its handle leads to.
Listening(p) == conn[p] = "open" /\ tx[p] # "none" /\ Kind[p] # "data"

\* What a client receives is every line printed since it came, each once and
\* in the order they were printed: nothing of the client that had its ring,
\* its entry or its event before, and no slot read twice or half written.
InOrder ==
  \A p \in Peers : tx[p] = "send" => \A q \in To(p) : hand[p] = got[q] + 1

\* Every line printed while a client is there arrives, unless it leaves: no
\* wake-up is lost between the test of the ring and the wait for its event,
\* and the event of a ring given to a new client is that client's.
EveryLineArrives ==
  \A p \in Peers : \A l \in Lines :
    (Listening(p) /\ l <= sent) ~> (got[p] >= l \/ conn[p] # "open" \/ crashed)

\* Of a WebSocket client that left nothing remains: its transmit thread ends
\* and its ring is free for the next; and of a command connection the
\* transmit thread ends.
LeftNothingBehind ==
  /\ \A p \in Peers :
       (conn[p] = "gone" /\ Kind[p] # "data")
         ~> (tx[p] \in {"none", "end"} \/ crashed)
  /\ \A i \in Entries :
       [](In("ws", i) = {} /\ ~crashed => IndexOf(<<TRUE, i>>) = -1)

=============================================================================
