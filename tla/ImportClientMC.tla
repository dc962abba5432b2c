-------------------------- MODULE ImportClientMC ---------------------------
(* A small instance of ImportClient for TLC.                               *)
EXTENDS ImportClient
CONSTANTS j1, j2, q1, q2
=============================================================================
