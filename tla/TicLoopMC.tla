------------------------------ MODULE TicLoopMC ------------------------------
(* Instances of TicLoop for TLC.                                           *)
EXTENDS TicLoop
=============================================================================
