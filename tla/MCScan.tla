------------------------------- MODULE MCScan -------------------------------
EXTENDS Scan

CONSTANTS r1, d1, s1

MCBlobSize == [d \in Digests |-> s1]
=============================================================================
