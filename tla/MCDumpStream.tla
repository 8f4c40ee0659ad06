---------------------------- MODULE MCDumpStream ----------------------------
(* DumpStream on a small buffer.  The sizes put the remainder of the last    *)
(* chunk below, at and above one chunk; with MaxSize beyond the largest size *)
(* there is memory past the end of the buffer, as in the real DRAM.          *)
EXTENDS DumpStream

MCSizes == {6, 8, 10}

=============================================================================
