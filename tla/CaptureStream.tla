---------------------------- MODULE CaptureStream ----------------------------
(***************************************************************************)
(* What a capture promises to the one who receives its stream: the words   *)
(* of the medium in order, without gap or repetition, as they come, and a  *)
(* verdict.  "complete" is given when all of them were handed over,        *)
(* "noindex" only when none was, and "internal" breaks off anywhere.  How  *)
(* far the hand-over may run ahead of the capture is Lead.                 *)
(***************************************************************************)
EXTENDS Naturals

CONSTANTS
  Lead,    \* how far the hand-over may be ahead of the capture
  Lengths  \* possible lengths of a stream, in words

VARIABLES
  captured,   \* words captured
  delivered,  \* words handed over
  length,     \* words this capture is to have
  verdict     \* "open" until the capture has ended

vars == <<captured, delivered, length, verdict>>

Init ==
  /\ captured = 0 /\ delivered = 0 /\ length \in Lengths /\ verdict = "open"

Begin ==
  /\ captured' = 0 /\ delivered' = 0 /\ verdict' = "open"
  /\ UNCHANGED length

\* The length is settled before the first word.
SetLength ==
  /\ captured = 0 /\ delivered = 0 /\ verdict = "open"
  /\ length' \in Lengths
  /\ UNCHANGED <<captured, delivered, verdict>>

Capture ==
  /\ captured < length
  /\ captured' = captured + 1
  /\ UNCHANGED <<delivered, length, verdict>>

Deliver ==
  /\ verdict = "open"
  /\ \E n \in 1 .. length :
       /\ delivered + n <= length /\ delivered + n <= captured + Lead
       /\ delivered' = delivered + n
  /\ captured > 0
  /\ UNCHANGED <<captured, length, verdict>>

Complete ==
  /\ verdict = "open" /\ delivered = length
  /\ verdict' = "complete"
  /\ UNCHANGED <<captured, delivered, length>>

GiveUp ==
  /\ verdict = "open" /\ delivered = 0
  /\ verdict' = "noindex"
  /\ UNCHANGED <<captured, delivered, length>>

BreakOff ==
  /\ verdict = "open"
  /\ verdict' = "internal"
  /\ UNCHANGED <<captured, delivered, length>>

Next ==
  \/ Begin \/ SetLength \/ Capture \/ Deliver
  \/ Complete \/ GiveUp \/ BreakOff

Spec == Init /\ [][Next]_vars

=============================================================================
