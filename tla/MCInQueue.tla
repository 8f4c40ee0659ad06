------------------------------ MODULE MCInQueue ------------------------------
(* Two clients, a ring of three slots, enough lines to go round it twice.    *)
EXTENDS InQueue

CONSTANTS c1, c2

MCClients == {c1, c2}

=============================================================================
