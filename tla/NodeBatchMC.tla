---------------------------- MODULE NodeBatchMC ----------------------------
(* Small instances of NodeBatch for TLC.                                   *)
EXTENDS NodeBatch

CONSTANTS s1, s2
=============================================================================
