------------------------------ MODULE Recording ------------------------------
(***************************************************************************)
(* One run of the audio streamer for one call, in its OpenAI mode          *)
(* (audio_streamer/streamer.py and openai_transcriber.py).                 *)
(*                                                                         *)
(* Seven threads share the process: the main thread that watches the flag  *)
(* file and runs stop(); per speaker a recorder thread, the PortAudio      *)
(* callback that fills the recorder's buffer, and a transcriber thread     *)
(* that empties the data queue; and the request thread that notifies       *)
(* Leverance.  A frame of audio is the number of the callback that         *)
(* delivered it, so a buffer, a queue item and a transcript are sequences  *)
(* of frame numbers, and losing, repeating or reordering audio shows.      *)
(***************************************************************************)
EXTENDS Naturals, Sequences, SequencesExt

CONSTANTS
    MaxFrames,        \* bound: frames the sound device delivers, per speaker
    MaxBufferFrames,  \* max_buffer_size of the recorder, in frames
    MinChunkFrames,   \* min_chunk_duration_seconds of the transcriber, in frames
    Faults            \* the kinds of failure that may happen

Speakers == {"agent", "caller"}

FaultKinds == {"device", "config", "client", "token", "api", "upload", "status"}

ASSUME RecordingAssumption ==
    /\ MaxFrames \in [Speakers -> Nat]
    /\ MaxBufferFrames \in Nat \ {0}
    /\ MinChunkFrames \in Nat \ {0}
    /\ Faults \subseteq FaultKinds

VARIABLES
    main,       \* where the main thread is
    flag,       \* the flag file exists
    stopEvent,  \* stop_event is set
    config,     \* the answer of /get_config: "unknown", "ok" or "failed"
    unjoined,   \* the threads stop() has still to join, in order
    late,       \* the threads whose join timed out
    notify,     \* the request to /process_call: "none", "sent" or "answered"
    rec,        \* per speaker, where the recorder thread is
    callback,   \* per speaker, where the PortAudio callback is
    captured,   \* per speaker, the number of frames written to the buffer
    buffer,     \* per speaker, the recorder's buffer
    dataQueue,  \* per speaker, the queue between recorder and transcriber
    tr,         \* per speaker, where the transcriber thread is
    clientReady,\* per speaker, the OpenAI client was created
    metadata,   \* per speaker, the start metadata has been received
    chunk,      \* per speaker, the transcriber's buffer
    results,    \* per speaker, the frames transcribed so far
    blob,       \* per speaker, the frames in the transcription blob
    statusQueue \* the messages sent to the agent's status queue

mainVars == <<main, flag, stopEvent, config, unjoined, late, notify>>
recVars  == <<rec, callback, captured, buffer>>
trVars   == <<tr, clientReady, metadata, chunk, results, blob, statusQueue>>
vars == <<mainVars, recVars, dataQueue, trVars>>

-----------------------------------------------------------------------------
(* Threads in the order start() appends them to self.threads. *)

Threads == {"recorder", "transcriber"} \X Speakers

StartedThreads == << <<"recorder", "caller">>, <<"recorder", "agent">>,
                     <<"transcriber", "agent">>, <<"transcriber", "caller">> >>

ThreadAlive(t) == IF t[1] = "recorder" THEN rec[t[2]] # "done"
                                       ELSE tr[t[2]] # "done"

Running == main # "exited"   \* every thread but the main one is a daemon

StartItem == [kind |-> "start", frames |-> <<>>]
EndItem   == [kind |-> "end", frames |-> <<>>]
AudioItem(frames) == [kind |-> "audio", frames |-> frames]

Put(s, item) == dataQueue' = [dataQueue EXCEPT ![s] = Append(@, item)]

(* _upload_to_queue: a failure is logged and its result ignored. *)
SendStatus(status) ==
    \/ statusQueue' = Append(statusQueue, status)
    \/ /\ "status" \in Faults
       /\ UNCHANGED statusQueue

-----------------------------------------------------------------------------
Init ==
    /\ main = "start" /\ flag = FALSE /\ stopEvent = FALSE
    /\ config = "unknown" /\ unjoined = <<>> /\ late = {} /\ notify = "none"
    /\ rec = [s \in Speakers |-> "unborn"]
    /\ callback = [s \in Speakers |-> "idle"]
    /\ captured = [s \in Speakers |-> 0]
    /\ buffer = [s \in Speakers |-> <<>>]
    /\ dataQueue = [s \in Speakers |-> <<>>]
    /\ tr = [s \in Speakers |-> "unborn"]
    /\ clientReady = [s \in Speakers |-> FALSE]
    /\ metadata = [s \in Speakers |-> FALSE]
    /\ chunk = [s \in Speakers |-> <<>>]
    /\ results = [s \in Speakers |-> <<>>]
    /\ blob = [s \in Speakers |-> <<>>]
    /\ statusQueue = <<>>

-----------------------------------------------------------------------------
(* The main thread: SimpleRecordingManager.start and stop.                 *)

(* The flag file is created and both recorder threads are started. *)
StartRecording ==
    /\ main = "start"
    /\ main' = "config"
    /\ flag' = TRUE
    /\ rec' = [s \in Speakers |-> "started"]
    /\ UNCHANGED <<stopEvent, config, unjoined, late, notify,
                   callback, captured, buffer, dataQueue, trVars>>

(* GET /get_config; whatever it answers, the transcriber threads start. *)
FetchConfig ==
    /\ main = "config"
    /\ \/ config' = "ok"
       \/ "config" \in Faults /\ config' = "failed"
    /\ main' = "monitor"
    /\ tr' = [s \in Speakers |-> "started"]
    /\ UNCHANGED <<flag, stopEvent, unjoined, late, notify, recVars, dataQueue,
                   clientReady, metadata, chunk, results, blob, statusQueue>>

(* A second streamer process, started without /startRecording, removes the *)
(* flag file.                                                              *)
RemoveFlag ==
    /\ flag
    /\ flag' = FALSE
    /\ UNCHANGED <<main, stopEvent, config, unjoined, late, notify, recVars,
                   dataQueue, trVars>>

(* Mutant: the last thread was never appended to self.threads. *)
StopForgetsThread ==
    /\ main = "monitor"
    /\ ~flag
    /\ ~stopEvent
    /\ stopEvent' = TRUE
    /\ unjoined' = Front(StartedThreads)
    /\ main' = "joining"
    /\ UNCHANGED <<flag, config, late, notify, recVars, dataQueue, trVars>>

(* The monitoring loop sees that the flag file is gone and calls stop(). *)
Stop ==
    /\ main = "monitor"
    /\ ~flag
    /\ ~stopEvent
    /\ stopEvent' = TRUE
    /\ unjoined' = StartedThreads
    /\ main' = "joining"
    /\ UNCHANGED <<flag, config, late, notify, recVars, dataQueue, trVars>>

(* Mutant: join() without its timeout. *)
JoinThreadForEver ==
    /\ main = "joining"
    /\ unjoined # <<>>
    /\ ~ThreadAlive(Head(unjoined))
    /\ unjoined' = Tail(unjoined)
    /\ UNCHANGED <<main, flag, stopEvent, config, late, notify, recVars,
                   dataQueue, trVars>>

(* thread.join(timeout=30) returns because the thread ended or because the *)
(* 30 seconds are over.                                                    *)
JoinThread ==
    /\ main = "joining"
    /\ unjoined # <<>>
    /\ late' = IF ThreadAlive(Head(unjoined)) THEN late \cup {Head(unjoined)}
                                              ELSE late
    /\ unjoined' = Tail(unjoined)
    /\ UNCHANGED <<main, flag, stopEvent, config, notify, recVars, dataQueue,
                   trVars>>

(* Mutant: Leverance is notified before the threads are joined. *)
NotifyBeforeJoin ==
    /\ main = "joining"
    /\ main' = "closing"
    /\ notify' = "sent"
    /\ UNCHANGED <<flag, stopEvent, config, unjoined, late, recVars, dataQueue,
                   trVars>>

(* The request to /process_call runs in a thread of its own. *)
NotifyLeverance ==
    /\ main = "joining"
    /\ unjoined = <<>>
    /\ main' = "closing"
    /\ notify' = "sent"
    /\ UNCHANGED <<flag, stopEvent, config, unjoined, late, recVars, dataQueue,
                   trVars>>

(* Any answer, and any error, ends the request thread. *)
LeveranceAnswers ==
    /\ notify = "sent"
    /\ notify' = "answered"
    /\ UNCHANGED <<main, flag, stopEvent, config, unjoined, late, recVars,
                   dataQueue, trVars>>

(* The process ends with its last thread that is no daemon: the main thread *)
(* after its final second, or the request thread.                           *)
Exit ==
    /\ main = "closing"
    /\ notify = "answered"
    /\ main' = "exited"
    /\ UNCHANGED <<flag, stopEvent, config, unjoined, late, notify, recVars,
                   dataQueue, trVars>>

-----------------------------------------------------------------------------
(* The recorder threads: MicrophoneRecorder.start and SpeakerRecorder.start *)

(* The microphone announces itself unconditionally; the loopback of the    *)
(* speakers only after its device was found, and without it the thread     *)
(* dies in its own finally clause.                                         *)
Announce(s) ==
    /\ Running
    /\ rec[s] = "started"
    /\ \/ /\ rec' = [rec EXCEPT ![s] = "announced"]
          /\ Put(s, StartItem)
       \/ /\ s = "caller"
          /\ "device" \in Faults
          /\ rec' = [rec EXCEPT ![s] = "done"]
          /\ UNCHANGED dataQueue
    /\ UNCHANGED <<mainVars, callback, captured, buffer, trVars>>

OpenStream(s) ==
    /\ Running
    /\ rec[s] = "announced"
    /\ \/ rec' = [rec EXCEPT ![s] = "recording"]
       \/ "device" \in Faults /\ rec' = [rec EXCEPT ![s] = "flushed"]
    /\ UNCHANGED <<mainVars, callback, captured, buffer, dataQueue, trVars>>

(* stop_event.wait() returns: what is left in the buffer is put. *)
FlushBuffer(s) ==
    /\ Running
    /\ rec[s] = "recording"
    /\ stopEvent
    /\ rec' = [rec EXCEPT ![s] = "flushed"]
    /\ IF buffer[s] # <<>> THEN Put(s, AudioItem(buffer[s]))
                           ELSE UNCHANGED dataQueue
    /\ UNCHANGED <<mainVars, callback, captured, buffer, trVars>>

AnnounceEnd(s) ==
    /\ Running
    /\ rec[s] = "flushed"
    /\ rec' = [rec EXCEPT ![s] = "ended"]
    /\ Put(s, EndItem)
    /\ UNCHANGED <<mainVars, callback, captured, buffer, trVars>>

(* stop_stream() returns once no callback is running. *)
CloseStream(s) ==
    /\ Running
    /\ rec[s] = "ended"
    /\ callback[s] = "idle"
    /\ rec' = [rec EXCEPT ![s] = "done"]
    /\ UNCHANGED <<mainVars, callback, captured, buffer, dataQueue, trVars>>

(* The PortAudio callback, on a thread of its own while the stream is open. *)

EnterCallback(s) ==
    /\ Running
    /\ rec[s] = "recording"
    /\ callback[s] = "idle"
    /\ captured[s] < MaxFrames[s]
    /\ ~stopEvent
    /\ callback' = [callback EXCEPT ![s] = "entered"]
    /\ UNCHANGED <<mainVars, rec, captured, buffer, dataQueue, trVars>>

WriteFrame(s) ==
    /\ Running
    /\ callback[s] = "entered"
    /\ captured' = [captured EXCEPT ![s] = @ + 1]
    /\ buffer' = [buffer EXCEPT ![s] = Append(@, captured[s] + 1)]
    /\ callback' = [callback EXCEPT ![s] =
           IF Len(buffer[s]) + 1 >= MaxBufferFrames THEN "full" ELSE "idle"]
    /\ UNCHANGED <<mainVars, rec, dataQueue, trVars>>

(* Mutant: the silent buffer is skipped by clearing it. *)
PutFullBufferSkipsSilence(s) ==
    /\ Running
    /\ callback[s] = "full"
    /\ callback' = [callback EXCEPT ![s] = "put"]
    /\ \/ Put(s, AudioItem(buffer[s]))
       \/ s = "agent" /\ UNCHANGED dataQueue
    /\ UNCHANGED <<mainVars, rec, captured, buffer, trVars>>

(* A microphone buffer in which every byte is equal makes the callback     *)
(* raise (tid_siden_sidste_lyd is not bound): the buffer is kept.          *)
PutFullBuffer(s) ==
    /\ Running
    /\ callback[s] = "full"
    /\ \/ /\ Put(s, AudioItem(buffer[s]))
          /\ callback' = [callback EXCEPT ![s] = "put"]
       \/ /\ s = "agent"
          /\ callback' = [callback EXCEPT ![s] = "idle"]
          /\ UNCHANGED dataQueue
    /\ UNCHANGED <<mainVars, rec, captured, buffer, trVars>>

(* Mutant: the buffer is not truncated after it was put. *)
KeepBuffer(s) ==
    /\ Running
    /\ callback[s] = "put"
    /\ callback' = [callback EXCEPT ![s] = "idle"]
    /\ UNCHANGED <<mainVars, rec, captured, buffer, dataQueue, trVars>>

ClearBuffer(s) ==
    /\ Running
    /\ callback[s] = "put"
    /\ buffer' = [buffer EXCEPT ![s] = <<>>]
    /\ callback' = [callback EXCEPT ![s] = "idle"]
    /\ UNCHANGED <<mainVars, rec, captured, dataQueue, trVars>>

-----------------------------------------------------------------------------
(* The transcriber threads: _process_queue_openai, process_queue, finalize *)

(* __init__ asks for a token and creates the client, or goes on without.   *)
CreateClient(s) ==
    \/ clientReady' = [clientReady EXCEPT ![s] = TRUE]
    \/ "client" \in Faults /\ UNCHANGED clientReady

(* Without an answer to /get_config the manager has no controller_version: *)
(* the attribute error ends the thread before it takes anything.           *)
StartTranscriber(s) ==
    /\ Running
    /\ tr[s] = "started"
    /\ IF config = "failed"
       THEN /\ tr' = [tr EXCEPT ![s] = "done"]
            /\ UNCHANGED <<clientReady, statusQueue>>
       ELSE /\ tr' = [tr EXCEPT ![s] = "loop"]
            /\ CreateClient(s)
            /\ SendStatus("start-call")
    /\ UNCHANGED <<mainVars, recVars, dataQueue, metadata, chunk, results, blob>>

(* Mutant: the kind of the item becomes the stage, which "end" is not. *)
TakeItemUntilEnd(s) ==
    /\ Running
    /\ tr[s] = "loop"
    /\ dataQueue[s] # <<>>
    /\ LET item == Head(dataQueue[s])
       IN  /\ metadata' = [metadata EXCEPT ![s] = TRUE]
           /\ chunk' = [chunk EXCEPT ![s] = @ \o item.frames]
           /\ tr' = [tr EXCEPT ![s] = IF item.kind = "end" THEN item.kind ELSE @]
    /\ dataQueue' = [dataQueue EXCEPT ![s] = Tail(@)]
    /\ UNCHANGED <<mainVars, recVars, clientReady, results, blob, statusQueue>>

(* One turn of the processing loop that finds an item. *)
TakeItem(s) ==
    /\ Running
    /\ tr[s] = "loop"
    /\ dataQueue[s] # <<>>
    /\ LET item == Head(dataQueue[s])
           kept == IF metadata[s] THEN chunk[s] \o item.frames ELSE chunk[s]
       IN  /\ metadata' = [metadata EXCEPT ![s] = @ \/ item.kind = "start"]
           /\ chunk' = [chunk EXCEPT ![s] = kept]
           /\ tr' = [tr EXCEPT ![s] =
                  IF item.kind = "audio" /\ Len(kept) >= MinChunkFrames
                  THEN "chunk" ELSE "loop"]
    /\ dataQueue' = [dataQueue EXCEPT ![s] = Tail(@)]
    /\ UNCHANGED <<mainVars, recVars, clientReady, results, blob, statusQueue>>

(* _transcribe_chunk, from the loop ("chunk") and from finalize ("rest").  *)
(* A failed token refresh keeps the buffer; in finalize it ends the thread *)
(* with nothing uploaded.                                                  *)
Transcribe(s) ==
    /\ Running
    /\ tr[s] \in {"chunk", "rest"}
    /\ \/ /\ clientReady[s]
          /\ "token" \in Faults
          /\ tr' = [tr EXCEPT ![s] = IF @ = "chunk" THEN "loop" ELSE "done"]
          /\ UNCHANGED <<chunk, results>>
       \/ /\ tr' = [tr EXCEPT ![s] = IF @ = "chunk" THEN "loop" ELSE "upload"]
          /\ chunk' = [chunk EXCEPT ![s] = <<>>]
          /\ \/ /\ clientReady[s]
                /\ results' = [results EXCEPT ![s] = @ \o chunk[s]]
             \/ /\ ~clientReady[s] \/ "api" \in Faults
                /\ UNCHANGED results
    /\ UNCHANGED <<mainVars, recVars, dataQueue, clientReady, metadata, blob,
                   statusQueue>>

(* Where finalize begins: without a client it returns at once. *)
FinalStage(s) == IF ~clientReady[s] THEN "done"
                 ELSE IF chunk[s] # <<>> THEN "rest" ELSE "upload"

(* Mutant: end-call is announced only for a call with results. *)
LeaveLoopQuietly(s) ==
    /\ Running
    /\ tr[s] = "loop"
    /\ stopEvent
    /\ dataQueue[s] = <<>>
    /\ IF results[s] # <<>> THEN SendStatus("end-call") ELSE UNCHANGED statusQueue
    /\ tr' = [tr EXCEPT ![s] = FinalStage(s)]
    /\ UNCHANGED <<mainVars, recVars, dataQueue, clientReady, metadata, chunk,
                   results, blob>>

(* Mutant: the loop waits for an end item that it may have taken itself. *)
LeaveLoopAtEndItem(s) ==
    /\ Running
    /\ tr[s] = "loop"
    /\ stopEvent
    /\ dataQueue[s] = <<EndItem>>
    /\ SendStatus("end-call")
    /\ tr' = [tr EXCEPT ![s] = FinalStage(s)]
    /\ UNCHANGED <<mainVars, recVars, dataQueue, clientReady, metadata, chunk,
                   results, blob>>

(* The loop condition fails: stop_event is set and the queue is empty. *)
LeaveLoop(s) ==
    /\ Running
    /\ tr[s] = "loop"
    /\ stopEvent
    /\ dataQueue[s] = <<>>
    /\ SendStatus("end-call")
    /\ tr' = [tr EXCEPT ![s] = FinalStage(s)]
    /\ UNCHANGED <<mainVars, recVars, dataQueue, clientReady, metadata, chunk,
                   results, blob>>

(* Mutant: an upload is repeated as long as it succeeds. *)
UploadTwice(s) ==
    /\ Running
    /\ tr[s] = "upload"
    /\ \/ /\ blob' = [blob EXCEPT ![s] = @ \o results[s]]
          /\ UNCHANGED tr
       \/ /\ "upload" \in Faults
          /\ tr' = [tr EXCEPT ![s] = "done"]
          /\ UNCHANGED blob
    /\ UNCHANGED <<mainVars, recVars, dataQueue, clientReady, metadata, chunk,
                   results, statusQueue>>

(* Each upload asks /sta_credentials for a token and creates a client of   *)
(* its own; without them, as without the container, nothing is stored.     *)
StorageFails == "upload" \in Faults

(* _upload_to_blob appends to the blob; without results no blob is made. *)
Upload(s) ==
    /\ Running
    /\ tr[s] = "upload"
    /\ tr' = [tr EXCEPT ![s] = "done"]
    /\ \/ blob' = [blob EXCEPT ![s] = @ \o results[s]]
       \/ StorageFails /\ UNCHANGED blob
    /\ UNCHANGED <<mainVars, recVars, dataQueue, clientReady, metadata, chunk,
                   results, statusQueue>>

-----------------------------------------------------------------------------
Main == \/ StartRecording \/ FetchConfig \/ Stop \/ JoinThread
        \/ NotifyLeverance \/ Exit

Recorder(s) == \/ Announce(s) \/ OpenStream(s) \/ FlushBuffer(s)
               \/ AnnounceEnd(s) \/ CloseStream(s)

Callback(s) == \/ EnterCallback(s) \/ WriteFrame(s) \/ PutFullBuffer(s)
               \/ ClearBuffer(s)

Transcriber(s) == \/ StartTranscriber(s) \/ TakeItem(s) \/ Transcribe(s)
                  \/ LeaveLoop(s) \/ Upload(s)

Next == \/ Main
        \/ LeveranceAnswers
        \/ RemoveFlag
        \/ \E s \in Speakers : Recorder(s) \/ Callback(s) \/ Transcriber(s)

Spec == Init /\ [][Next]_vars

(* The main thread never waits without a timeout: /get_config has 10       *)
(* seconds, every join has 30.  Nothing is assumed of the answer to        *)
(* /process_call, which is requested without a timeout.                    *)
MainFairness == WF_vars(Main)

(* The operating system schedules the daemon threads; the PortAudio        *)
(* callback finishes once entered, but need not be called.                 *)
ThreadFairness ==
    \A s \in Speakers :
        /\ WF_vars(Recorder(s))
        /\ WF_vars(Transcriber(s))
        /\ WF_vars(WriteFrame(s) \/ PutFullBuffer(s) \/ ClearBuffer(s))

FairSpec == Spec /\ MainFairness

-----------------------------------------------------------------------------
(* Properties *)

Frames == Seq(Nat)
Items == [kind : {"start", "end", "audio"}, frames : Frames]

MainTypes ==
    /\ main \in {"start", "config", "monitor", "joining", "closing", "exited"}
    /\ flag \in BOOLEAN
    /\ stopEvent \in BOOLEAN
    /\ config \in {"unknown", "ok", "failed"}
    /\ unjoined \in Seq(Threads)
    /\ late \subseteq Threads
    /\ notify \in {"none", "sent", "answered"}

RecorderTypes ==
    /\ rec \in [Speakers -> {"unborn", "started", "announced", "recording",
                             "flushed", "ended", "done"}]
    /\ callback \in [Speakers -> {"idle", "entered", "full", "put"}]
    /\ captured \in [Speakers -> Nat]
    /\ buffer \in [Speakers -> Frames]

TranscriberTypes ==
    /\ tr \in [Speakers -> {"unborn", "started", "loop", "chunk", "rest",
                            "upload", "done"}]
    /\ clientReady \in [Speakers -> BOOLEAN]
    /\ metadata \in [Speakers -> BOOLEAN]
    /\ chunk \in [Speakers -> Frames]
    /\ results \in [Speakers -> Frames]
    /\ blob \in [Speakers -> Frames]
    /\ statusQueue \in Seq({"start-call", "end-call"})

(* Every variable keeps its type. *)
TypeOK ==
    /\ MainTypes
    /\ RecorderTypes
    /\ dataQueue \in [Speakers -> Seq(Items)]
    /\ TranscriberTypes

(* The frames of the items waiting in a data queue. *)
QueuedFrames(s) ==
    UNION {ToSet(dataQueue[s][i].frames) : i \in DOMAIN dataQueue[s]}

(* Unless the OpenAI client is missing or a transcription request fails, a *)
(* frame the callback wrote never vanishes: it stays in the recorder's     *)
(* buffer, the data queue, the transcriber's buffer or the results,        *)
(* whatever the order in which the three threads and stop() interleave.    *)
NoFrameVanishes ==
    Faults \cap {"client", "api"} = {} =>
        \A s \in Speakers :
            1 .. captured[s] \subseteq
                ToSet(buffer[s]) \cup QueuedFrames(s) \cup ToSet(chunk[s])
                    \cup ToSet(results[s])

(* Everything the recorder has put, in pieces: what is transcribed, what    *)
(* the transcriber has buffered, and the items of the data queue.           *)
Pieces(s) ==
    <<results[s], chunk[s]>> \o [i \in DOMAIN dataQueue[s] |-> dataQueue[s][i].frames]

(* A frame's place is its piece and its position there. *)
Places(p) == UNION {{i} \X DOMAIN p[i] : i \in DOMAIN p}
Before(a, b) == a[1] < b[1] \/ (a[1] = b[1] /\ a[2] < b[2])

(* The pairs of places at which a frame is repeated or overtaken. *)
Repeats(p) ==
    {x \in Places(p) \X Places(p) :
        Before(x[1], x[2]) /\ p[x[1][1]][x[1][2]] >= p[x[2][1]][x[2][2]]}

(* The transcript follows the order of the sound: while the call runs no   *)
(* frame is repeated or overtaken, and after the stop the sound starts     *)
(* over at most once, at the recorder's last buffer, put both by the       *)
(* callback and by the recorder thread: all repetitions span that place.   *)
AudioInOrder ==
    \A s \in Speakers :
        /\ Repeats(Pieces(s)) # {} => stopEvent
        /\ \A x, y \in Repeats(Pieces(s)) : Before(x[1], y[2])

(* Leverance is asked to process the call only when every thread the       *)
(* manager started has ended or has used up its 30 seconds.                *)
NotifyWaitsForThreads ==
    notify # "none" => \A t \in Threads : ThreadAlive(t) => t \in late

(* If no join timed out and no upload or token refresh fails, the request  *)
(* to /process_call finds everything that was transcribed in the blobs,    *)
(* and no audio is left half way in a transcriber.                         *)
NotifyFindsTranscripts ==
    /\ notify # "none"
    /\ late = {}
    /\ Faults \cap {"token", "upload"} = {}
    => \A s \in Speakers :
           /\ blob[s] = results[s]
           /\ clientReady[s] => chunk[s] = <<>>

(* Both transcribers write the agent's status queue without knowing of     *)
(* each other, also when one starts only after the other has finished;     *)
(* still the newest status is end-call when both are past their loops.     *)
NewestStatusIsEndCall ==
    /\ "status" \notin Faults
    /\ config = "ok"
    /\ \A s \in Speakers : tr[s] \in {"rest", "upload", "done"}
    => statusQueue # <<>> /\ Last(statusQueue) = "end-call"

(* Once the flag file is removed Leverance is notified, even if every      *)
(* recorder and every transcriber hangs for ever.                          *)
RemovedFlagLeadsToNotify ==
    main \in {"config", "monitor"} /\ ~flag ~> notify # "none"

(* If all threads are scheduled, every transcriber comes to an end after   *)
(* the stop (or the process does): the data queue is drained, also when    *)
(* chunks fail and stay buffered, and no thread waits for another.         *)
TranscribersEnd ==
    ThreadFairness =>
        (stopEvent ~> \A s \in Speakers : tr[s] = "done" \/ ~Running)

(* The process as the rest of the system sees it. *)
Session == INSTANCE CallSession WITH
    phase <- CASE main = "start" -> "idle"
               [] main \in {"config", "monitor"} -> "recording"
               [] main = "joining" -> "stopping"
               [] main = "closing" -> "notified"
               [] main = "exited" -> "gone",
    stage <- [s \in Speakers |->
                CASE tr[s] \in {"unborn", "started"} -> "off"
                  [] tr[s] \in {"loop", "chunk"} -> "live"
                  [] tr[s] \in {"rest", "upload"} -> "hungup"
                  [] tr[s] = "done" -> "done"],
    transcript <- [s \in Speakers |-> blob[s] # <<>>],
    statusQueue <- statusQueue

(* The threads, buffers and queues implement the session that the server   *)
(* and the frontend rely on: what they can observe of a call is its status *)
(* messages, its blobs and its request, in the orders CallSession allows.  *)
ImplementsSession == Session!Spec

(* Claim of the recorders' comment and of finalize's docstring: the audio   *)
(* left over at the stop is sent too, and the full transcription uploaded.  *)
(* So when both threads of a speaker are done no audio is left between them.*)
FullTranscription ==
    \A s \in Speakers : rec[s] = "done" /\ tr[s] = "done" => QueuedFrames(s) = {}
=============================================================================
