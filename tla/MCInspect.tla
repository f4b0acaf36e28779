------------------------------ MODULE MCInspect ------------------------------
EXTENDS Inspect

CONSTANTS r1, d1, s1

MCBlobSize == [d \in Digests |-> s1]
=============================================================================
