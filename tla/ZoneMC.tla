------------------------------- MODULE ZoneMC -------------------------------
(* Instances of Zone for TLC.                                              *)
EXTENDS Zone

CONSTANTS u1, u2, null
=============================================================================
