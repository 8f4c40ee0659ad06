---------------------------- MODULE MCDumpSession ----------------------------
(* Two drives, two or three dump commands.  With an impatient client the     *)
(* commands that matter to the question are enough.                          *)
EXTENDS DumpSession

CONSTANTS d1, d2

MCDrives      == {d1, d2}
AllCommands   == {"dump", "stop", "headstep", "recalibrate", "reset"}
DumpOnly      == {"dump"}
DumpAndStop   == {"dump", "stop"}
DumpStopReset == {"dump", "stop", "reset"}

=============================================================================
