------------------------------ MODULE AzureAudio ------------------------------
(***************************************************************************)
(* The streamer's azure mode: each recording process of FlagFile stores    *)
(* the audio of its two recorders as numbered blobs and announces them in  *)
(* the queue status-audio; the caller's storage thread also keeps the      *)
(* agent's status queue (azure_storage.py, _process_queue_azure).          *)
(*                                                                         *)
(* A buffer of audio is its number; how callback and recorder share it is  *)
(* the subject of Recording.                                               *)
(***************************************************************************)
EXTENDS FlagFile, Integers, Sequences, SequencesExt

CONSTANTS
    Streams,     \* the pairs <<call, speaker>> that are recorded
    MaxBuffers,  \* bound: buffers of each stream
    Faults       \* per stream, the calls to Azure that may fail; "late": a
                 \* callback may be overtaken by the stop

ASSUME AzureAudioAssumption ==
    /\ Streams \subseteq Calls \X {"caller", "agent"}
    /\ MaxBuffers \in [Streams -> Nat]
    /\ Faults \in [Streams -> SUBSET {"client", "upload", "queue", "late"}]

VARIABLES
    rec,          \* the recorder: "off", "on", "flushed", "ended"
    put,          \* buffers it has put so far
    dataQueue,    \* caller_queue, agent_queue
    store,        \* the storage thread's next step, "done", or "dead"
    drains,       \* has it left its loop?
    item,         \* what it has taken from the queue and stores
    segmentCount, \* segment_count
    blobs,        \* the container: blob n is element n + 1
    failed,       \* buffers whose upload failed
    announced,    \* the segment messages of status-audio
    statusQueue   \* status-{AgentID}

recVars == <<rec, put>>
threadVars == <<dataQueue, drains, item, segmentCount>>
azureVars == <<blobs, failed, announced, statusQueue>>
audioVars == <<recVars, store, threadVars, azureVars>>
vars == <<flagVars, audioVars>>

StartMetadata == 0
EndMetadata == -1
Nothing == -2
IsAudio(x) == x > 0
Call(t) == t[1]
IsCaller(t) == t[2] = "caller"
Running(t) == proc[Call(t)] \in {"recording", "stopping", "joining"}
StopEvent(t) == proc[Call(t)] = "joining"

Init ==
    /\ FlagInit
    /\ rec = [t \in Streams |-> "off"]
    /\ put = [t \in Streams |-> 0]
    /\ dataQueue = [t \in Streams |-> <<>>]
    /\ store = [t \in Streams |-> "create"]
    /\ drains = [t \in Streams |-> FALSE]
    /\ item = [t \in Streams |-> Nothing]
    /\ segmentCount = [t \in Streams |-> 0]
    /\ blobs = [t \in Streams |-> <<>>]
    /\ failed = [t \in Streams |-> {}]
    /\ announced = [t \in Streams |-> <<>>]
    /\ statusQueue = <<>>

-----------------------------------------------------------------------------
(* The recorders *)

PutItem(t, x) == dataQueue' = [dataQueue EXCEPT ![t] = Append(@, x)]

Record(t, from, to) ==
    /\ Running(t)
    /\ rec[t] = from
    /\ rec' = [rec EXCEPT ![t] = to]
    /\ UNCHANGED <<flagVars, store, drains, item, segmentCount, azureVars>>

Open(t) == Record(t, "off", "on") /\ PutItem(t, StartMetadata) /\ UNCHANGED put

(* A callback that passed its check before the stop may put its buffer     *)
(* after it, before the recorder puts the rest.                            *)
PutBuffer(t) ==
    /\ Record(t, "on", "on")
    /\ StopEvent(t) => "late" \in Faults[t]
    /\ put[t] < MaxBuffers[t]
    /\ put' = [put EXCEPT ![t] = @ + 1]
    /\ PutItem(t, put[t] + 1)

(* The remaining data, if there are any. *)
Flush(t) ==
    /\ Record(t, "on", "flushed")
    /\ StopEvent(t)
    /\ \/ UNCHANGED <<put, dataQueue>>
       \/ /\ put[t] < MaxBuffers[t]
          /\ put' = [put EXCEPT ![t] = @ + 1]
          /\ PutItem(t, put[t] + 1)

AnnounceEnd(t) == Record(t, "flushed", "ended") /\ PutItem(t, EndMetadata) /\ UNCHANGED put

Recorder(t) == Open(t) \/ Flush(t) \/ AnnounceEnd(t)

-----------------------------------------------------------------------------
(* AzureStorage and its thread.  Its messages "start" and "end" in         *)
(* status-audio, which say nothing of a segment, are left out; only the    *)
(* caller's thread sends status messages.                                  *)

GoTo(t, from, to) ==
    /\ Running(t)
    /\ store[t] = from
    /\ store' = [store EXCEPT ![t] = to]
    /\ UNCHANGED <<flagVars, recVars>>

(* AzureStorage(): without credentials or clients the thread ends. *)
Create(t) ==
    /\ \/ GoTo(t, "create", IF IsCaller(t) THEN "clearStart" ELSE "next")
       \/ "client" \in Faults[t] /\ GoTo(t, "create", "dead")
    /\ UNCHANGED <<threadVars, azureVars>>

(* Every call first takes its client, which is created anew once the       *)
(* credentials have expired: that may fail as well as the call itself.     *)
MayFail(t, call) == call \in Faults[t]

(* Mutant: only the start of a call clears the queue. *)
ClearAtStart(t) ==
    /\ \/ GoTo(t, "clearStart", "sendStart") /\ statusQueue' = <<>>
       \/ GoTo(t, "clearEnd", "sendEnd") /\ UNCHANGED statusQueue
    /\ UNCHANGED <<threadVars, blobs, failed, announced>>

(* Every status message first removes what is in the queue; if that fails  *)
(* it is not sent.                                                         *)
ClearStatus(t) ==
    /\ \/ /\ GoTo(t, "clearStart", "sendStart") \/ GoTo(t, "clearEnd", "sendEnd")
          /\ statusQueue' = <<>>
       \/ /\ MayFail(t, "queue")
          /\ GoTo(t, "clearStart", "next") \/ GoTo(t, "clearEnd", "done")
          /\ UNCHANGED statusQueue
    /\ UNCHANGED <<threadVars, blobs, failed, announced>>

StatusBesked(t) == [call |-> Call(t), status |-> IF drains[t] THEN "end-call" ELSE "start-call"]

(* Mutant: the statuses of the queue status-audio are sent. *)
SendAudioStatus(t) ==
    /\ GoTo(t, "sendStart", "next") \/ GoTo(t, "sendEnd", "done")
    /\ statusQueue' = Append(statusQueue,
           [call |-> Call(t), status |-> IF drains[t] THEN "end" ELSE "start"])
    /\ UNCHANGED <<threadVars, blobs, failed, announced>>

SendStatus(t) ==
    /\ GoTo(t, "sendStart", "next") \/ GoTo(t, "sendEnd", "done")
    /\ \/ statusQueue' = Append(statusQueue, StatusBesked(t))
       \/ MayFail(t, "queue") /\ UNCHANGED statusQueue
    /\ UNCHANGED <<threadVars, blobs, failed, announced>>

(* Metadata are set aside in the loop; the three seconds after it store    *)
(* whatever still comes, metadata included.                                *)
TakeItem(t) ==
    /\ dataQueue[t] # <<>>
    /\ LET x == Head(dataQueue[t])
           stored == IsAudio(x) \/ drains[t]
       IN /\ GoTo(t, "next", IF stored THEN "upload" ELSE "next")
          /\ item' = [item EXCEPT ![t] = IF stored THEN x ELSE Nothing]
    /\ dataQueue' = [dataQueue EXCEPT ![t] = Tail(@)]
    /\ UNCHANGED <<drains, segmentCount, azureVars>>

LeaveLoop(t) ==
    /\ GoTo(t, "next", "next")
    /\ ~drains[t] /\ StopEvent(t) /\ dataQueue[t] = <<>>
    /\ drains' = [drains EXCEPT ![t] = TRUE]
    /\ UNCHANGED <<dataQueue, item, segmentCount, azureVars>>

(* The three seconds may pass before the recorder has put its rest. *)
EndDrain(t) ==
    /\ GoTo(t, "next", IF IsCaller(t) THEN "clearEnd" ELSE "done")
    /\ drains[t]
    /\ UNCHANGED <<threadVars, azureVars>>

(* upload_blob(overwrite=True) to the name with the current number. *)
Upload(t) ==
    /\ \/ /\ GoTo(t, "upload", "announce")
          /\ blobs' = [blobs EXCEPT ![t] =
                 IF segmentCount[t] < Len(@) THEN ReplaceAt(@, segmentCount[t] + 1, item[t])
                 ELSE Append(@, item[t])]
          /\ UNCHANGED <<item, failed>>
       \/ /\ MayFail(t, "upload")
          /\ GoTo(t, "upload", "next")
          /\ failed' = [failed EXCEPT ![t] = @ \cup {item[t]}]
          /\ item' = [item EXCEPT ![t] = Nothing]
          /\ UNCHANGED blobs
    /\ UNCHANGED <<dataQueue, drains, segmentCount, announced, statusQueue>>

AnnounceAs(t, n) ==
    /\ GoTo(t, "announce", "next")
    /\ announced' = [announced EXCEPT ![t] = Append(@, [segment |-> n, data |-> item[t]])]
    /\ item' = [item EXCEPT ![t] = Nothing]

Counted(t) == segmentCount' = [segmentCount EXCEPT ![t] = @ + 1]

FailToAnnounce(t) ==
    /\ MayFail(t, "queue")
    /\ GoTo(t, "announce", "next")
    /\ item' = [item EXCEPT ![t] = Nothing]
    /\ UNCHANGED announced

(* Mutant: a segment that could not be announced is not counted. *)
CountAnnounced(t) ==
    /\ \/ AnnounceAs(t, segmentCount[t]) /\ Counted(t)
       \/ FailToAnnounce(t) /\ UNCHANGED segmentCount
    /\ UNCHANGED <<dataQueue, drains, blobs, failed, statusQueue>>

(* Mutant: the segment is counted before it is announced. *)
CountFirst(t) ==
    /\ AnnounceAs(t, segmentCount[t] + 1) \/ FailToAnnounce(t)
    /\ Counted(t)
    /\ UNCHANGED <<dataQueue, drains, blobs, failed, statusQueue>>

(* A failed announcement is logged; the segment counts all the same. *)
Announce(t) ==
    /\ AnnounceAs(t, segmentCount[t]) \/ FailToAnnounce(t)
    /\ Counted(t)
    /\ UNCHANGED <<dataQueue, drains, blobs, failed, statusQueue>>

Storage(t) ==
    \/ Create(t) \/ ClearStatus(t) \/ SendStatus(t)
    \/ TakeItem(t) \/ LeaveLoop(t) \/ EndDrain(t)
    \/ Upload(t) \/ Announce(t)

-----------------------------------------------------------------------------
(* The processes *)

(* With its process a thread's data are gone; what is in Azure stays. *)
Gone(c) ==
    /\ LET At(f, x) == [t \in Streams |-> IF t[1] = c THEN x ELSE f[t]]
       IN /\ rec' = At(rec, "ended")
          /\ put' = At(put, 0)
          /\ store' = At(store, "done")
          /\ dataQueue' = At(dataQueue, <<>>)
          /\ drains' = At(drains, TRUE)
          /\ item' = At(item, Nothing)
          /\ segmentCount' = At(segmentCount, 0)
          /\ failed' = At(failed, {})
    /\ UNCHANGED <<blobs, announced, statusQueue>>

Ended(t) == rec[t] = "ended" /\ store[t] \in {"done", "dead"}

(* Each join returns when its thread has ended ... *)
JoinAll(c) == Exit(c) /\ (\A t \in Streams : Call(t) = c => Ended(t)) /\ Gone(c)

(* ... or after 30 seconds; the process then ends with its daemon threads. *)
JoinsExpire(c) == Exit(c) /\ "slow" \in Mishaps[c] /\ Gone(c)

Main(c) ==
    \/ (CreateFlag(c) \/ Monitor(c) \/ Stop(c)) /\ UNCHANGED audioVars
    \/ JoinAll(c)

Next ==
    \/ \E c \in Calls :
        \/ Genesys(c) /\ UNCHANGED audioVars
        \/ Main(c)
        \/ JoinsExpire(c)
        \/ Kill(c) /\ Gone(c)
    \/ \E t \in Streams : Recorder(t) \/ PutBuffer(t) \/ Storage(t)

Spec == Init /\ [][Next]_vars

-----------------------------------------------------------------------------
(* Properties *)

Items == {StartMetadata, EndMetadata} \cup Nat

(* Every variable keeps its type. *)
TypeOK ==
    /\ FlagTypeOK
    /\ rec \in [Streams -> {"off", "on", "flushed", "ended"}]
    /\ put \in [Streams -> Nat]
    /\ store \in [Streams -> {"create", "clearStart", "sendStart", "next", "upload", "announce",
                              "clearEnd", "sendEnd", "done", "dead"}]
    /\ drains \in [Streams -> BOOLEAN]
    /\ item \in [Streams -> Items \cup {Nothing}]
    /\ segmentCount \in [Streams -> Nat]
    /\ \A t \in Streams :
        /\ dataQueue[t] \in Seq(Items) /\ blobs[t] \in Seq(Items)
        /\ failed[t] \subseteq Items
        /\ announced[t] \in Seq([segment : Nat, data : Items])
    /\ statusQueue \in Seq([call : Calls, status : {"start-call", "end-call"}])

(* A message of status-audio names the blob that holds its data, also when *)
(* uploads and announcements before it failed: no blob is overwritten once *)
(* it was announced.                                                       *)
AnnouncedIsStored ==
    \A t \in Streams : \A i \in DOMAIN announced[t] :
        /\ announced[t][i].segment < Len(blobs[t])
        /\ blobs[t][announced[t][i].segment + 1] = announced[t][i].data

Held(t) == IF store[t] = "upload" THEN <<item[t]>> ELSE <<>>

(* What is stored, and what the thread and its queue still hold. *)
OnItsWay(t) == blobs[t] \o Held(t) \o dataQueue[t]
AudioAt(s) == {i \in DOMAIN s : IsAudio(s[i])}

(* Every buffer the recorder has put is, once and in the order of          *)
(* recording, in a blob, in the thread's hands or in its queue, unless its *)
(* upload failed: neither the end of the loop nor a failed announcement    *)
(* loses one.                                                              *)
BuffersInOrder ==
    \A t \in Streams : Running(t) =>
        LET s == OnItsWay(t) IN
        /\ \A i, j \in AudioAt(s) : i < j => s[i] < s[j]
        /\ {s[i] : i \in AudioAt(s)} = (1 .. put[t]) \ failed[t]

(* Clearing and sending are two steps, and two processes of an agent may   *)
(* take them in turn: still a call has at most one status in the queue.    *)
OneStatusPerCall ==
    \A i, j \in DOMAIN statusQueue : statusQueue[i].call = statusQueue[j].call => i = j
=============================================================================
