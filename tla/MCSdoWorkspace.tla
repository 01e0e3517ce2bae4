--------------------------- MODULE MCSdoWorkspace ---------------------------
EXTENDS SdoWorkspace
CONSTANTS k1, k2, v1, v2

OneObject == <<[key |-> k1, value |-> v1], [key |-> k1, value |-> v2]>>
TwoObjects == <<[key |-> k1, value |-> v1], [key |-> k2, value |-> v2]>>
WholeTable == {1..n : n \in 1..MaxRows}
AnySelection == SUBSET (1..MaxRows)
=============================================================================
