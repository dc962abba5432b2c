-------------------------- MODULE NodeDashboardMC --------------------------
(* A small instance of NodeDashboard for TLC.                              *)
EXTENDS NodeDashboard
CONSTANTS b1, b2, c1, c2
=============================================================================
