-------------------------- MODULE MCCommandChannel --------------------------
(***************************************************************************)
(* CommandChannel on small instances.  A tick is 30 ms; the reorder wait   *)
(* is one tick at the default RTT of 10 ms.                                *)
(***************************************************************************)
EXTENDS CommandChannel

(* No sample yet (10 ms assumed), and an estimate of twice as much.        *)
TwoRtts == {0, 20}
OneRtt == {10}
=============================================================================
