--------------------------------- MODULE MCLink ---------------------------------
(* Link between a server and a client, or between two clients.             *)
EXTENDS Link

CONSTANTS client, server

Pair == {client, server}
Client == {client}
None == {}
SameToken == {[e \in Pair |-> "secret"]}
AnyToken == SameToken \cup {[e \in Pair |-> IF e = client THEN "secret" ELSE "other"]}

FullMode == {FALSE}
BothModes == BOOLEAN

AnyType == Types
\* What a link survives losing once: all but the Handshake that opens it.
AfterHandshake == Types \ {"Handshake"}
OnlyHandshakeAck == {"HandshakeAck"}

=============================================================================
