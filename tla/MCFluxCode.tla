----------------------------- MODULE MCFluxCode -----------------------------
(* Words of four samples, bytes of sixteen values, groups of four words.     *)
(* The gaps reach the deltas of one, two, three, four and too many bytes.     *)
EXTENDS FluxCode

MCWords == {{0}, {3}, {0, 2}}
MCGaps  == {1, 3, 130, 1030}

=============================================================================
