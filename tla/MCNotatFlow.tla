----------------------------- MODULE MCNotatFlow -----------------------------
(* Instances of NotatFlow for TLC. *)
EXTENDS NotatFlow
=============================================================================
