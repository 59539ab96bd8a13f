---------------------------- MODULE MCDataPlane ----------------------------
(***************************************************************************)
(* DataPlane on small instances.  A tick is one report interval; with      *)
(* kMaxRetries = 1 a gap is given up after three of them.                  *)
(***************************************************************************)
EXTENDS DataPlane

(* An RTT whose loss threshold stays below one report interval.            *)
OneRtt == {200}
(* An RTT with 3.5 * RTT above two report intervals.                 *)
SlowRtts == {10, 700}
(* An RTT with 3.5 * RTT beyond the give-up age.                           *)
VerySlowRtts == {1000}
=============================================================================
