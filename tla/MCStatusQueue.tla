---------------------------- MODULE MCStatusQueue ----------------------------
(* Instances of StatusQueue for TLC. *)
EXTENDS StatusQueue

CONSTANTS p1, p2
=============================================================================
