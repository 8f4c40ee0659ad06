------------------------------ MODULE MCWsServer ------------------------------
(* Three clients for one entry: one that talks, one the server closes and    *)
(* one of the other port that takes an entry over.                           *)
EXTENDS WsServer

CONSTANTS a, b, c

MCPeers  == {a, b, c}
MCPort   == [p \in MCPeers |-> IF p = c THEN 8081 ELSE 8080]
MCFrames == [p \in MCPeers |-> IF p = a THEN 2 ELSE 0]
MCOps == {<<"txt", FALSE, "half">>, <<"txt", FALSE, "empty">>, <<"txt", TRUE, "plain">>,
          <<"txt", TRUE, "empty">>, <<"cont", TRUE, "plain">>, <<"cont", TRUE, "rest">>,
          <<"bin", FALSE, "half">>, <<"bin", TRUE, "half">>}
MCServerCloses == {b}
=============================================================================
