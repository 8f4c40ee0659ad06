------------------------------- MODULE InQueue -------------------------------
(***************************************************************************)
(* The way of a command line from the clients to the script thread:        *)
(* msg_push_in_msg in the threads of the clients, msg_in_wait in the       *)
(* script thread, the ring of MAX_NB_MESSAGES slots between them, and the  *)
(* event that wakes the script thread.  The ring has a mutex; the event    *)
(* has its own, and is sent after the ring's is released.                  *)
(*                                                                         *)
(* A line is known by its number, in the order the lines entered the ring. *)
(* Its text matters only in being "kill_server" or not.                    *)
(***************************************************************************)
EXTENDS Integers

CONSTANTS
  Clients,   \* the threads that push lines
  N,         \* MAX_NB_MESSAGES
  MaxLines   \* bound: lines in one behaviour

ASSUME QueueAssumption == N \in Nat /\ N >= 2 /\ MaxLines \in Nat

VARIABLES
  slots,      \* in_buffer.messages: the number of the line in each slot
  inIndex,    \* in_buffer.in_index
  outIndex,   \* in_buffer.out_index
  signalled,  \* in_event.signalled
  signalling, \* clients that have pushed and not yet sent the event
  sent,       \* lines pushed so far
  kills,      \* those of them that read "kill_server"
  reader,     \* where the script thread is
  got,        \* the last line it took
  deaf,       \* whether the line it assembles begins with "kill_server"
  executed    \* the last line it executed

vars == <<slots, inIndex, outIndex, signalled, signalling, sent, kills,
          reader, got, deaf, executed>>

Lines == 1 .. MaxLines
Slots == 0 .. N - 1
Succ(i) == (i + 1) % N

Empty == outIndex = inIndex

\* The lines in the ring, oldest first.
Count   == (inIndex - outIndex) % N
Pending == [k \in 1 .. Count |-> slots[(outIndex + k - 1) % N]]

-----------------------------------------------------------------------------
(* A client's thread                                                       *)

\* Mutation: a full ring does not give up its oldest line.
Push_NoDrop(c) ==
  /\ c \notin signalling /\ sent < MaxLines
  /\ slots' = [slots EXCEPT ![inIndex] = sent + 1] /\ inIndex' = Succ(inIndex)
  /\ sent' = sent + 1 /\ kills' \in {kills, kills \cup {sent + 1}}
  /\ signalling' = signalling \cup {c}
  /\ UNCHANGED <<outIndex, signalled, reader, got, deaf, executed>>

\* Mutation: a full ring gives up two lines.
Push_DropTwo(c) ==
  /\ c \notin signalling /\ sent < MaxLines
  /\ slots' = [slots EXCEPT ![inIndex] = sent + 1] /\ inIndex' = Succ(inIndex)
  /\ outIndex' = IF inIndex' = outIndex THEN Succ(Succ(outIndex)) ELSE outIndex
  /\ sent' = sent + 1 /\ kills' \in {kills, kills \cup {sent + 1}}
  /\ signalling' = signalling \cup {c}
  /\ UNCHANGED <<signalled, reader, got, deaf, executed>>

\* msg_push_in_msg, under new_in_message_mutex: a full ring loses its oldest
\* line.
Push(c) ==
  /\ c \notin signalling /\ sent < MaxLines
  /\ slots' = [slots EXCEPT ![inIndex] = sent + 1]
  /\ inIndex' = Succ(inIndex)
  /\ outIndex' = IF inIndex' = outIndex THEN Succ(outIndex) ELSE outIndex
  /\ sent' = sent + 1
  /\ kills' \in {kills, kills \cup {sent + 1}}
  /\ signalling' = signalling \cup {c}
  /\ UNCHANGED <<signalled, reader, got, deaf, executed>>

\* Mutation: the event is sent only by the one who finds the ring empty.
Signal_OnlyFirst(c) ==
  /\ c \in signalling
  /\ signalled' = (signalled \/ Count = 1) /\ signalling' = signalling \ {c}
  /\ UNCHANGED <<slots, inIndex, outIndex, sent, kills, reader, got, deaf,
                 executed>>

\* sendEvent
Signal(c) ==
  /\ c \in signalling
  /\ signalled' = TRUE /\ signalling' = signalling \ {c}
  /\ UNCHANGED <<slots, inIndex, outIndex, sent, kills, reader, got, deaf,
                 executed>>

-----------------------------------------------------------------------------
(* The script thread                                                       *)

\* msg_in_wait finds nothing and goes to wait for the event.
FindEmpty ==
  /\ reader = "look" /\ Empty
  /\ reader' = "wait"
  /\ UNCHANGED <<slots, inIndex, outIndex, signalled, signalling, sent, kills,
                 got, deaf, executed>>

\* waitEvent returns; the event is reset.
Awake ==
  /\ reader = "wait" /\ signalled
  /\ signalled' = FALSE /\ reader' = "awake"
  /\ UNCHANGED <<slots, inIndex, outIndex, signalling, sent, kills, got, deaf,
                 executed>>

\* The event told of a line that was taken already: msg_in_wait returns 0.
Spurious ==
  /\ reader = "awake" /\ Empty
  /\ reader' = "look"
  /\ UNCHANGED <<slots, inIndex, outIndex, signalled, signalling, sent, kills,
                 got, deaf, executed>>

\* msg_in_wait takes the oldest line.
Take ==
  /\ reader \in {"look", "awake"} /\ ~Empty
  /\ got' = slots[outIndex] /\ outIndex' = Succ(outIndex)
  /\ reader' = "run"
  /\ UNCHANGED <<slots, inIndex, signalled, signalling, sent, kills, deaf,
                 executed>>

\* server_script_thread appends the text to its line.  After "kill_server" the
\* line is not begun anew, so that every later text is taken for part of it.
Ignore ==
  /\ reader = "run" /\ (deaf \/ got \in kills)
  /\ deaf' = TRUE /\ reader' = "look"
  /\ UNCHANGED <<slots, inIndex, outIndex, signalled, signalling, sent, kills,
                 got, executed>>

Execute ==
  /\ reader = "run" /\ ~deaf /\ got \notin kills
  /\ executed' = got /\ reader' = "look"
  /\ UNCHANGED <<slots, inIndex, outIndex, signalled, signalling, sent, kills,
                 got, deaf>>

-----------------------------------------------------------------------------
Init ==
  /\ slots = [i \in Slots |-> 0] /\ inIndex = 0 /\ outIndex = 0
  /\ signalled = FALSE /\ signalling = {} /\ sent = 0 /\ kills = {}
  /\ reader = "look" /\ got = 0 /\ deaf = FALSE /\ executed = 0

ScriptThread == FindEmpty \/ Awake \/ Spurious \/ Take \/ Ignore \/ Execute

Next == ScriptThread \/ \E c \in Clients : Push(c) \/ Signal(c)

\* The script thread runs whenever it can, and a client that has pushed a line
\* goes on to send the event.
Fairness == WF_vars(ScriptThread) /\ \A c \in Clients : WF_vars(Signal(c))

Spec == Init /\ [][Next]_vars /\ Fairness

-----------------------------------------------------------------------------
TypeOK ==
  /\ slots \in [Slots -> 0 .. MaxLines]
  /\ inIndex \in Slots /\ outIndex \in Slots
  /\ signalled \in BOOLEAN /\ signalling \subseteq Clients
  /\ sent \in 0 .. MaxLines /\ kills \subseteq Lines
  /\ reader \in {"look", "wait", "awake", "run"}
  /\ got \in 0 .. MaxLines /\ executed \in 0 .. MaxLines /\ deaf \in BOOLEAN

\* The ring holds the newest lines that were not taken, all of them as long as
\* there are no more than N - 1: a line is lost only to N - 1 newer ones.
Larger(a, b) == IF a > b THEN a ELSE b

NewestKept ==
  LET first == Larger(got, sent - (N - 1)) IN
    /\ Count = sent - first
    /\ \A k \in 1 .. Count : Pending[k] = first + k

\* The script thread never sleeps on a line that no event announces: the
\* emptiness test, the wait and the push are under different locks.
NoLostWakeup ==
  reader = "wait" /\ ~Empty => signalled \/ signalling # {}

\* Lines are taken in the order they were pushed, none of them twice.
InOrder == [][got' # got => got' > got]_vars

\* Every line is executed or lost to newer ones, unless "kill_server" was sent.
EveryLineHandled ==
  \A m \in Lines :
    (sent >= m) ~> (executed >= m \/ deaf)

\* The ring and its locks implement a mailbox that drops its oldest message.
Mailbox == INSTANCE LossyQueue WITH
  Capacity <- N - 1, Messages <- Lines, queue <- Pending

ImplementsMailbox == Mailbox!Spec

=============================================================================
