-------------------------- MODULE ImportServiceMC --------------------------
(* Small instances of ImportService for TLC.                               *)
EXTENDS ImportService

CONSTANTS j1, j2

(* An upload with events and one that has nothing to publish.              *)
TwoFiles == [j \in Jobs |-> IF j = j1 THEN <<TRUE, TRUE>> ELSE <<FALSE>>]

(* Two uploads whose events share the producer.                            *)
Rivals == [j \in Jobs |-> IF j = j1 THEN <<TRUE, TRUE>> ELSE <<FALSE, TRUE>>]
=============================================================================
