----------------------------- MODULE MCRecording -----------------------------
(* Instances of Recording for TLC. *)
EXTENDS Recording

AgentSpeaks == [s \in Speakers |-> IF s = "agent" THEN 3 ELSE 0]
OneFrame == [s \in Speakers |-> IF s = "agent" THEN 1 ELSE 0]
=============================================================================
