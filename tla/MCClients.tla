------------------------------ MODULE MCClients ------------------------------
(* A data connection, a command connection beside it, and two WebSocket lives *)
(* that come to share a ring, which two lines go all the way round.          *)
EXTENDS Clients

CONSTANTS d, c, w1, w2, script

MCPeers   == {d, c, w1, w2}
MCKind    == [p \in MCPeers |-> CASE p = d -> "data" [] p = c -> "cmd"
                                  [] OTHER -> "ws"]
MCEntries == {0}
MCOuts    == {0, 1}
MCWriters == {script}
MCWild    == {"sleep"}

\* A data connection, and two command connections one after the other.
MCPeersAgain == {d, w1, w2}
MCKindAgain  == [p \in MCPeersAgain |-> IF p = d THEN "data" ELSE "cmd"]

=============================================================================
