--------------------------- MODULE MCPairRequests ---------------------------
(* Instances of PairRequests.                                                *)
EXTENDS PairRequests

CONSTANTS a1, a2, x1, x2, x3
=============================================================================
