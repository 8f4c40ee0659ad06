------------------------------ MODULE LossyQueue ------------------------------
(***************************************************************************)
(* A bounded mailbox that never blocks its senders: when it is full the    *)
(* oldest message makes room for the new one.  This is what the console    *)
(* promises to its clients about their command lines.                      *)
(***************************************************************************)
EXTENDS Naturals, Sequences

CONSTANTS
  Capacity,  \* messages it holds at most
  Messages   \* what may be sent

VARIABLES
  queue,  \* the messages, oldest first
  got     \* the last message received

vars == <<queue, got>>

Init == queue = <<>> /\ got \notin Messages

Send ==
  \E m \in Messages :
    /\ queue' = IF Len(queue) = Capacity THEN Append(Tail(queue), m)
                                         ELSE Append(queue, m)
    /\ UNCHANGED got

Receive ==
  /\ queue # <<>>
  /\ got' = Head(queue) /\ queue' = Tail(queue)

Next == Send \/ Receive

Spec == Init /\ [][Next]_vars

=============================================================================
