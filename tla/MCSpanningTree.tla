--------------------------- MODULE MCSpanningTree ---------------------------
EXTENDS TreeAttestation

CONSTANT FirmwareTime

\* Neighbours in the order of the ids share a key, the others do not.
ChainRing == [p \in Prover |-> {p, p + 1}]
SameRing == [p \in Prover |-> Key]
EqualFirmware == [p \in Prover |-> FirmwareTime]
\* Prover 1 is of the fast type, the others are of the slow one.
MixedFirmware == [p \in Prover |-> IF p = 1 THEN 0 ELSE FirmwareTime]
=============================================================================
