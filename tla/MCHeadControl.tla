--------------------------- MODULE MCHeadControl ---------------------------
(* HeadControl on a drive of four tracks, with loops just long enough to     *)
(* cross it.  Movehead, headstep and the double stepped dump reach its stop. *)
(* No dump counts the position further in than Apple mode's search for track *)
(* 0 counts it out, which keeps the position bounded.  No dump starts beyond *)
(* track 0 with double stepping: readdisk goes to its first track by single  *)
(* tracks, so TrackAsNamed does not hold of such a dump.  A headstep of no   *)
(* tracks is left to a configuration of its own.                             *)
EXTENDS HeadControl

MCOrders == {[start |-> 0, max |-> 2, double |-> TRUE],
             [start |-> 1, max |-> 4, double |-> FALSE]}

=============================================================================
