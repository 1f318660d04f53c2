------------------------------ MODULE GameFlowMC ------------------------------
(* Instances of GameFlow for TLC.                                          *)
EXTENDS GameFlow

CONSTANTS k1, k2
=============================================================================
