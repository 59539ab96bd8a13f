------------------------------ MODULE MCSendPath ------------------------------
(* SendPath with three messages: the first and the third urgent.           *)
EXTENDS SendPath

TwoLevels == [m \in Msgs |-> IF m % 2 = 1 THEN 2 ELSE 1]

BothModes == BOOLEAN
FromAny == {"none", "Handshake", "Online"}

=============================================================================
