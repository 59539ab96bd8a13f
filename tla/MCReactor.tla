------------------------------ MODULE MCReactor ------------------------------
(* The instances of GatewayReactor that TLC checks. *)
EXTENDS GatewayReactor

\* Each of the sources of work at its limit while the others are quiet, and a
\* server that is stopped and started again.
Mix(m, s, t, n) == [messages |-> m, submits |-> s, stalls |-> t, starts |-> n]
EachAlone == {Mix(2, 0, 0, 1), Mix(0, 1, 0, 1), Mix(0, 0, 2, 1), Mix(1, 0, 0, 2)}
Stalls == {Mix(0, 0, 1, 1)}

OneEach == [cpu |-> 1, io |-> 1]

OneTimer == [heartbeat_check |-> 1]
Skip == [heartbeat_check |-> TRUE]
==============================================================================
