------------------------------ MODULE HeadMover ------------------------------
(***************************************************************************)
(* What the head of a drive does for those who move it: one request at a   *)
(* time, of at least one track, carried out track by track in the          *)
(* direction that was asked for.  The head stays between its two stops.    *)
(***************************************************************************)
EXTENDS Integers

CONSTANTS
  Last,    \* the innermost track
  MostAsk  \* the longest request

VARIABLES
  head,   \* where the head is
  left,   \* tracks of the request still to go
  inward  \* its direction

vars == <<head, left, inward>>

\* One track further, unless the head is at its stop.
Neighbour(track, in) ==
  IF in THEN (IF track < Last THEN track + 1 ELSE Last)
        ELSE (IF track > 0 THEN track - 1 ELSE 0)

Init == head \in 0 .. Last /\ left = 0 /\ inward \in BOOLEAN

Ask ==
  /\ left = 0
  /\ left' \in 1 .. MostAsk /\ inward' \in BOOLEAN
  /\ UNCHANGED head

Move ==
  /\ left > 0
  /\ left' = left - 1 /\ head' = Neighbour(head, inward)
  /\ UNCHANGED inward

Next == Ask \/ Move

Spec == Init /\ [][Next]_vars

=============================================================================
