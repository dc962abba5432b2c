--------------------------- MODULE BatchesDataMC ---------------------------
(* A small instance of BatchesData for TLC.                                *)
EXTENDS BatchesData

CONSTANTS u1, u2, b1, b2, k1, k2, f1, f2

OneEach == [b \in Batches |-> IF b = b1 THEN u1 ELSE u2]
=============================================================================
