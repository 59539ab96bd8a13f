--------------------------- MODULE OrderedDelivery ---------------------------
(***************************************************************************)
(* What the command channel promises its application within one session of *)
(* a peer: commands come out in the order of their sequences, none twice;  *)
(* some may never come out.  A new session starts over.                    *)
(***************************************************************************)
EXTENDS Integers

CONSTANT Cmds     \* sequences of commands

VARIABLE log      \* sequences handed to the application in this session

Init == log = {}

(* A batch is handed over in ascending order; all of it lies beyond        *)
(* everything handed over before.                                          *)
Deliver ==
    /\ log' \subseteq Cmds
    /\ log \subseteq log'
    /\ \A s \in log' \ log : \A t \in log : t < s

Restart == log' = {}

Next == Deliver \/ Restart

Spec == Init /\ [][Next]_log
=============================================================================
