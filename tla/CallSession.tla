----------------------------- MODULE CallSession -----------------------------
(***************************************************************************)
(* What the rest of the system can observe of one streamer process during  *)
(* a call: the status messages it sends to the agent's queue, the          *)
(* transcription blobs it leaves behind, and when it asks Leverance to     *)
(* process the call.  Recording implements this specification.             *)
(***************************************************************************)
EXTENDS Sequences

CONSTANT Speakers

VARIABLES
    phase,      \* of the process: idle, recording, stopping, notified, gone
    stage,      \* of each transcriber: off, live, hungup, done
    transcript, \* per speaker, whether the transcription blob exists
    statusQueue \* the messages sent to the agent's status queue

vars == <<phase, stage, transcript, statusQueue>>

Init ==
    /\ phase = "idle"
    /\ stage = [s \in Speakers |-> "off"]
    /\ transcript = [s \in Speakers |-> FALSE]
    /\ statusQueue = <<>>

(* A status message is sent at most once, and may be lost on the way. *)
Send(status) ==
    \/ statusQueue' = Append(statusQueue, status)
    \/ UNCHANGED statusQueue

(* The process records, stops, notifies Leverance and is gone. *)
Advance(from, to) ==
    /\ phase = from
    /\ phase' = to
    /\ UNCHANGED <<stage, transcript, statusQueue>>

(* A transcriber announces the call, also when the call is already over; *)
(* or it never comes up.                                                 *)
GoLive(s) ==
    /\ phase \notin {"idle", "gone"}
    /\ stage[s] = "off"
    /\ \/ /\ stage' = [stage EXCEPT ![s] = "live"]
          /\ Send("start-call")
       \/ /\ stage' = [stage EXCEPT ![s] = "done"]
          /\ UNCHANGED statusQueue
    /\ UNCHANGED <<phase, transcript>>

(* A transcriber announces the end of the call, never before the stop. *)
HangUp(s) ==
    /\ phase \in {"stopping", "notified"}
    /\ stage[s] = "live"
    /\ stage' \in {[stage EXCEPT ![s] = "hungup"], [stage EXCEPT ![s] = "done"]}
    /\ Send("end-call")
    /\ UNCHANGED <<phase, transcript>>

(* The transcript appears after the announced end of the call, as a whole  *)
(* and once, or not at all.                                                *)
Deliver(s) ==
    /\ phase # "gone"
    /\ stage[s] = "hungup"
    /\ stage' = [stage EXCEPT ![s] = "done"]
    /\ \/ transcript' = [transcript EXCEPT ![s] = TRUE]
       \/ UNCHANGED transcript
    /\ UNCHANGED <<phase, statusQueue>>

Next ==
    \/ Advance("idle", "recording")
    \/ Advance("recording", "stopping")
    \/ Advance("stopping", "notified")
    \/ Advance("notified", "gone")
    \/ \E s \in Speakers : GoLive(s) \/ HangUp(s) \/ Deliver(s)

Spec == Init /\ [][Next]_vars
=============================================================================
