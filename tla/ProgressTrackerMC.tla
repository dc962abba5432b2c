------------------------- MODULE ProgressTrackerMC -------------------------
(* Small instances of ProgressTracker for TLC.                             *)
EXTENDS ProgressTracker

CONSTANTS j1, j2, w1, w2
=============================================================================
