---------------------------- MODULE MCReassembly ----------------------------
EXTENDS Reassembly, Fec

\* With five bytes to a fragment: one, two and three data fragments.
OnePart == <<7>>
TwoParts == <<1, 255, 3, 4>>
ThreeParts == <<200, 0, 17, 5, 90, 33, 128>>
\* The process before a restart sends a small or a large message, the one
\* after it the middle one.
Processes == [s \in 0..1 |-> IF s = 0 THEN {OnePart, ThreeParts} ELSE {TwoParts}]
BothModes == BOOLEAN

\* What the theorems of ReassemblyProofs suppose holds of the code's own
\* erasure code here, and of these messages and pauses.
ASSUME PremisesAssumption == ErasureCode /\ AllFit /\ QuietRestarts
=============================================================================
