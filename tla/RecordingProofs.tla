--------------------------- MODULE RecordingProofs ---------------------------
(* Theorems about Recording, for every number of frames and every set of   *)
(* failures.                                                               *)
EXTENDS Recording, TLAPS

(* What the threads pass on: audio of any length, and the two markers. *)
LEMMA ItemTypes ==
    /\ <<>> \in Frames
    /\ \A e, f \in Frames : e \o f \in Frames
    /\ \A f \in Frames, n \in Nat : Append(f, n) \in Frames
    /\ StartItem \in Items
    /\ EndItem \in Items
    /\ \A f \in Frames : AudioItem(f) \in Items
    /\ \A item \in Items : item.frames \in Frames
  BY DEF Frames, Items, StartItem, EndItem, AudioItem

(* Putting an item keeps the data queues typed. *)
LEMMA PutTypes ==
    ASSUME dataQueue \in [Speakers -> Seq(Items)],
           NEW s \in Speakers, NEW item \in Items,
           Put(s, item)
    PROVE  dataQueue' \in [Speakers -> Seq(Items)]
  BY DEF Put

(* Sending a status keeps the status queue typed. *)
LEMMA SendTypes ==
    ASSUME statusQueue \in Seq({"start-call", "end-call"}),
           NEW status \in {"start-call", "end-call"},
           SendStatus(status)
    PROVE  statusQueue' \in Seq({"start-call", "end-call"})
  BY DEF SendStatus

(* The initial state is typed. *)
LEMMA InitTypes == Init => TypeOK
<1> SUFFICES ASSUME Init PROVE TypeOK
  OBVIOUS
<1>1. MainTypes
  <2>1. unjoined \in Seq(Threads) /\ late \subseteq Threads
    BY DEF Init
  <2>2. QED
    BY <2>1 DEF Init, MainTypes
<1>2. RecorderTypes
  BY ItemTypes DEF Init, RecorderTypes
<1>3. dataQueue \in [Speakers -> Seq(Items)]
  BY DEF Init
<1>4. TranscriberTypes
  BY ItemTypes DEF Init, TranscriberTypes
<1>5. QED
  BY <1>1, <1>2, <1>3, <1>4 DEF TypeOK

(* Each thread leaves the variables of the others alone. *)
LEMMA UnchangedTypes ==
    /\ MainTypes /\ UNCHANGED mainVars => MainTypes'
    /\ RecorderTypes /\ UNCHANGED recVars => RecorderTypes'
    /\ TranscriberTypes /\ UNCHANGED trVars => TranscriberTypes'
  BY DEF MainTypes, RecorderTypes, TranscriberTypes, mainVars, recVars, trVars

(* The steps of the main thread, and of what it waits for, are typed. *)
LEMMA MainStepTypes ==
    TypeOK /\ (Main \/ LeveranceAnswers \/ RemoveFlag) => TypeOK'
<1> SUFFICES ASSUME TypeOK, Main \/ LeveranceAnswers \/ RemoveFlag
             PROVE  TypeOK'
  OBVIOUS
<1>1. CASE StartRecording
  <2>1. MainTypes' /\ RecorderTypes'
    BY <1>1 DEF StartRecording, TypeOK, MainTypes, RecorderTypes
  <2>2. QED
    BY <1>1, <2>1, UnchangedTypes DEF StartRecording, TypeOK
<1>2. CASE FetchConfig
  <2>1. MainTypes' /\ TranscriberTypes'
    BY <1>2 DEF FetchConfig, TypeOK, MainTypes, TranscriberTypes
  <2>2. QED
    BY <1>2, <2>1, UnchangedTypes DEF FetchConfig, TypeOK
<1>3. CASE Stop
  <2>1. StartedThreads \in Seq(Threads)
    BY DEF StartedThreads, Threads, Speakers
  <2>2. MainTypes'
    BY <1>3, <2>1 DEF Stop, TypeOK, MainTypes
  <2>3. QED
    BY <1>3, <2>2, UnchangedTypes DEF Stop, TypeOK
<1>4. CASE JoinThread
  <2>1. MainTypes'
    BY <1>4 DEF JoinThread, TypeOK, MainTypes
  <2>2. QED
    BY <1>4, <2>1, UnchangedTypes DEF JoinThread, TypeOK
<1>5. CASE NotifyLeverance \/ Exit \/ LeveranceAnswers \/ RemoveFlag
  <2>1. MainTypes' /\ UNCHANGED <<recVars, dataQueue, trVars>>
    BY <1>5 DEF NotifyLeverance, Exit, LeveranceAnswers, RemoveFlag, TypeOK, MainTypes
  <2>2. QED
    BY <2>1, UnchangedTypes DEF TypeOK
<1>6. QED
  BY <1>1, <1>2, <1>3, <1>4, <1>5 DEF Main

(* The steps of a recorder thread and of its callback are typed. *)
LEMMA RecorderStepTypes ==
    ASSUME TypeOK, NEW s \in Speakers, Recorder(s) \/ Callback(s)
    PROVE  TypeOK'
<1>1. RecorderTypes'
  <2>1. CASE Recorder(s)
    BY <2>1 DEF Recorder, Announce, OpenStream, FlushBuffer, AnnounceEnd,
                CloseStream, TypeOK, RecorderTypes
  <2>2. CASE EnterCallback(s) \/ PutFullBuffer(s)
    BY <2>2 DEF EnterCallback, PutFullBuffer, TypeOK, RecorderTypes
  <2>3. CASE WriteFrame(s)
    <3>1. Append(buffer[s], captured[s] + 1) \in Frames
      BY ItemTypes DEF TypeOK, RecorderTypes
    <3>2. QED
      BY <2>3, <3>1 DEF WriteFrame, TypeOK, RecorderTypes
  <2>4. CASE ClearBuffer(s)
    BY <2>4, ItemTypes DEF ClearBuffer, TypeOK, RecorderTypes
  <2>5. QED
    BY <2>1, <2>2, <2>3, <2>4 DEF Callback
<1>2. dataQueue' \in [Speakers -> Seq(Items)]
  <2>1. buffer[s] \in Frames
    BY DEF TypeOK, RecorderTypes
  <2>2. \/ UNCHANGED dataQueue
        \/ \E item \in Items : Put(s, item)
    BY <2>1, ItemTypes
       DEF Recorder, Callback, Announce, OpenStream, FlushBuffer, AnnounceEnd,
           CloseStream, EnterCallback, WriteFrame, PutFullBuffer, ClearBuffer
  <2>3. QED
    BY <2>2, PutTypes DEF TypeOK
<1>3. UNCHANGED <<mainVars, trVars>>
  BY DEF Recorder, Callback, Announce, OpenStream, FlushBuffer, AnnounceEnd,
         CloseStream, EnterCallback, WriteFrame, PutFullBuffer, ClearBuffer
<1>4. QED
  BY <1>1, <1>2, <1>3, UnchangedTypes DEF TypeOK

(* The steps of a transcriber thread are typed. *)
LEMMA TranscriberStepTypes ==
    ASSUME TypeOK, NEW s \in Speakers, Transcriber(s)
    PROVE  TypeOK'
<1> USE DEF TypeOK
<1>1. CASE StartTranscriber(s)
  <2>1. statusQueue' \in Seq({"start-call", "end-call"})
    BY <1>1, SendTypes DEF StartTranscriber, TranscriberTypes
  <2>2. TranscriberTypes'
    BY <1>1, <2>1 DEF StartTranscriber, CreateClient, TranscriberTypes
  <2>3. QED
    BY <1>1, <2>2, UnchangedTypes DEF StartTranscriber
<1>2. CASE TakeItem(s)
  <2>1. /\ dataQueue' \in [Speakers -> Seq(Items)]
        /\ Head(dataQueue[s]) \in Items
    BY <1>2 DEF TakeItem
  <2>2. chunk' \in [Speakers -> Frames]
    BY <1>2, <2>1, ItemTypes DEF TakeItem, TranscriberTypes
  <2>3. TranscriberTypes'
    BY <1>2, <2>2 DEF TakeItem, TranscriberTypes
  <2>4. QED
    BY <1>2, <2>1, <2>3, UnchangedTypes DEF TakeItem
<1>3. CASE Transcribe(s)
  <2>1. chunk' \in [Speakers -> Frames]
    BY <1>3, ItemTypes DEF Transcribe, TranscriberTypes
  <2>2. results' \in [Speakers -> Frames]
    <3>1. results[s] \o chunk[s] \in Frames
      BY ItemTypes DEF TranscriberTypes
    <3>2. QED
      BY <1>3, <3>1 DEF Transcribe, TranscriberTypes
  <2>3. TranscriberTypes'
    BY <1>3, <2>1, <2>2 DEF Transcribe, TranscriberTypes
  <2>4. QED
    BY <1>3, <2>3, UnchangedTypes DEF Transcribe
<1>4. CASE LeaveLoop(s)
  <2>1. statusQueue' \in Seq({"start-call", "end-call"})
    BY <1>4, SendTypes DEF LeaveLoop, TranscriberTypes
  <2>2. TranscriberTypes'
    BY <1>4, <2>1 DEF LeaveLoop, FinalStage, TranscriberTypes
  <2>3. QED
    BY <1>4, <2>2, UnchangedTypes DEF LeaveLoop
<1>5. CASE Upload(s)
  <2>1. blob' \in [Speakers -> Frames]
    <3>1. blob[s] \o results[s] \in Frames
      BY ItemTypes DEF TranscriberTypes
    <3>2. QED
      BY <1>5, <3>1 DEF Upload, TranscriberTypes
  <2>2. TranscriberTypes'
    BY <1>5, <2>1 DEF Upload, TranscriberTypes
  <2>3. QED
    BY <1>5, <2>2, UnchangedTypes DEF Upload
<1>6. QED
  BY <1>1, <1>2, <1>3, <1>4, <1>5 DEF Transcriber

(* Every variable keeps its type, whatever the threads do. *)
THEOREM TypeCorrect == Spec => []TypeOK
<1>1. TypeOK /\ [Next]_vars => TypeOK'
  <2>1. TypeOK /\ UNCHANGED vars => TypeOK'
    BY UnchangedTypes DEF TypeOK, vars
  <2>2. QED
    BY <2>1, MainStepTypes, RecorderStepTypes, TranscriberStepTypes DEF Next
<1>2. QED
  BY InitTypes, <1>1, PTL DEF Spec

-----------------------------------------------------------------------------
(* Leverance is notified after every join.                                 *)

Waited(t) == t \in late \/ \E i \in DOMAIN unjoined : unjoined[i] = t

(* A thread that is alive although stop() runs is still to be joined or    *)
(* was given up; the request is sent when none is left to join.            *)
StopInv ==
    /\ main \in {"start", "config", "monitor", "joining"} => notify = "none"
    /\ main \in {"joining", "closing", "exited"} =>
           \A t \in Threads : ThreadAlive(t) => Waited(t)
    /\ main \in {"closing", "exited"} => unjoined = <<>>

(* Every thread of the manager is on the list that stop() joins. *)
LEMMA AllThreadsStarted ==
    \A t \in Threads : \E i \in DOMAIN StartedThreads : StartedThreads[i] = t
<1> TAKE t \in Threads
<1>1. DOMAIN StartedThreads = 1 .. 4
  BY DEF StartedThreads
<1>2. /\ StartedThreads[1] = <<"recorder", "caller">>
      /\ StartedThreads[2] = <<"recorder", "agent">>
      /\ StartedThreads[3] = <<"transcriber", "agent">>
      /\ StartedThreads[4] = <<"transcriber", "caller">>
  BY DEF StartedThreads
<1>3. t \in {StartedThreads[1], StartedThreads[2], StartedThreads[3], StartedThreads[4]}
  BY <1>2 DEF Threads, Speakers
<1>4. QED
  BY <1>1, <1>3

(* A thread that ended does not come back. *)
LEMMA EndedStaysEnded ==
    ASSUME TypeOK, NEW s \in Speakers, NEW t \in Threads,
           Recorder(s) \/ Callback(s) \/ Transcriber(s),
           ThreadAlive(t)'
    PROVE  ThreadAlive(t)
<1> USE DEF TypeOK, RecorderTypes, TranscriberTypes, ThreadAlive, Threads
<1>1. CASE Recorder(s)
  BY <1>1 DEF Recorder, Announce, OpenStream, FlushBuffer, AnnounceEnd,
              CloseStream, trVars
<1>2. CASE Callback(s)
  BY <1>2 DEF Callback, EnterCallback, WriteFrame, PutFullBuffer, ClearBuffer,
              trVars
<1>3. CASE Transcriber(s)
  BY <1>3 DEF Transcriber, StartTranscriber, TakeItem, Transcribe, LeaveLoop,
              FinalStage, Upload, recVars
<1>4. QED
  BY <1>1, <1>2, <1>3

(* One join takes its thread off the list only if it ended or is late. *)
LEMMA JoinKeepsWaiting ==
    ASSUME TypeOK, JoinThread, NEW t \in Threads, ThreadAlive(t), Waited(t)
    PROVE  Waited(t)'
<1>1. unjoined \in Seq(Threads) /\ unjoined # <<>>
  BY DEF TypeOK, MainTypes, JoinThread
<1>2. CASE t = Head(unjoined)
  BY <1>2 DEF JoinThread, Waited
<1>3. CASE t # Head(unjoined) /\ t \notin late
  <2>1. PICK i \in DOMAIN unjoined : unjoined[i] = t
    BY <1>3 DEF Waited
  <2>2. i # 1
    BY <1>1, <1>3, <2>1
  <2>3. i - 1 \in DOMAIN Tail(unjoined) /\ Tail(unjoined)[i - 1] = t
    BY <1>1, <2>1, <2>2
  <2>4. QED
    BY <2>3 DEF JoinThread, Waited
<1>4. CASE t \in late
  BY <1>4 DEF JoinThread, Waited
<1>5. QED
  BY <1>2, <1>3, <1>4

(* StopInv is inductive. *)
LEMMA StopStep == TypeOK /\ StopInv /\ [Next]_vars => StopInv'
<1> SUFFICES ASSUME TypeOK, StopInv, [Next]_vars PROVE StopInv'
  OBVIOUS
<1>1. CASE StartRecording \/ FetchConfig
  BY <1>1 DEF StartRecording, FetchConfig, StopInv
<1>2. CASE Stop
  <2>1. \A t \in Threads : Waited(t)'
    BY <1>2, AllThreadsStarted DEF Stop, Waited
  <2>2. QED
    BY <1>2, <2>1 DEF Stop, StopInv
<1>3. CASE JoinThread
  <2>1. \A t \in Threads : ThreadAlive(t)' => ThreadAlive(t)
    BY <1>3 DEF JoinThread, ThreadAlive, recVars, trVars
  <2>2. main = "joining" /\ main' = "joining" /\ notify' = notify
    BY <1>3 DEF JoinThread
  <2>3. QED
    BY <1>3, <2>1, <2>2, JoinKeepsWaiting DEF StopInv
<1>4. CASE NotifyLeverance \/ Exit \/ LeveranceAnswers \/ RemoveFlag
  <2>1. /\ UNCHANGED <<unjoined, late>>
        /\ \A t \in Threads : ThreadAlive(t)' => ThreadAlive(t)
    BY <1>4 DEF NotifyLeverance, Exit, LeveranceAnswers, RemoveFlag,
                ThreadAlive, recVars, trVars
  <2>2. \A t \in Threads : Waited(t) => Waited(t)'
    BY <2>1 DEF Waited
  <2>3. QED
    BY <1>4, <2>1, <2>2 DEF NotifyLeverance, Exit, LeveranceAnswers,
                            RemoveFlag, StopInv
<1>5. ASSUME NEW s \in Speakers, Recorder(s) \/ Callback(s) \/ Transcriber(s)
      PROVE  StopInv'
  <2>1. UNCHANGED mainVars
    BY <1>5 DEF Recorder, Callback, Transcriber, Announce, OpenStream,
         FlushBuffer, AnnounceEnd, CloseStream, EnterCallback, WriteFrame,
         PutFullBuffer, ClearBuffer, StartTranscriber, TakeItem, Transcribe,
         LeaveLoop, Upload
  <2>2. \A t \in Threads : ThreadAlive(t)' => ThreadAlive(t)
    BY <1>5, EndedStaysEnded
  <2>3. \A t \in Threads : Waited(t) => Waited(t)'
    BY <2>1 DEF Waited, mainVars
  <2>4. QED
    BY <2>1, <2>2, <2>3 DEF StopInv, mainVars
<1>6. CASE UNCHANGED vars
  BY <1>6 DEF vars, mainVars, recVars, trVars, StopInv, ThreadAlive, Waited
<1>7. QED
  BY <1>1, <1>2, <1>3, <1>4, <1>5, <1>6 DEF Next, Main

(* The request to Leverance waits for every thread or for its 30 seconds. *)
THEOREM NotifyWaits == Spec => []NotifyWaitsForThreads
<1>1. Init => StopInv
  BY DEF Init, StopInv
<1>2. TypeOK /\ StopInv => NotifyWaitsForThreads
  BY DEF TypeOK, MainTypes, StopInv, Waited, NotifyWaitsForThreads
<1>3. QED
  BY <1>1, <1>2, StopStep, TypeCorrect, PTL DEF Spec

-----------------------------------------------------------------------------
(* What a transcriber leaves behind.                                       *)

(* A transcriber that is done has uploaded its results and transcribed its *)
(* buffer; before that there is no blob, and nothing is transcribed        *)
(* without a client.                                                       *)
UploadInv(s) ==
    /\ tr[s] \in {"unborn", "started"} => ~clientReady[s]
    /\ tr[s] \in {"rest", "upload"} => clientReady[s]
    /\ ~clientReady[s] => results[s] = <<>>
    /\ tr[s] # "done" => blob[s] = <<>>
    /\ tr[s] = "upload" => chunk[s] = <<>>
    /\ tr[s] = "done" /\ Faults \cap {"token", "upload"} = {} =>
           /\ blob[s] = results[s]
           /\ clientReady[s] => chunk[s] = <<>>

TranscriptInv ==
    /\ main \in {"start", "config"} => \A s \in Speakers : tr[s] = "unborn"
    /\ \A s \in Speakers : UploadInv(s)

(* A step of a transcriber keeps UploadInv for its own speaker. *)
LEMMA UploadStep ==
    ASSUME TypeOK, NEW s \in Speakers, UploadInv(s), Transcriber(s)
    PROVE  UploadInv(s)'
<1> USE DEF TypeOK, TranscriberTypes, UploadInv
<1>1. CASE StartTranscriber(s)
  BY <1>1 DEF StartTranscriber
<1>2. CASE TakeItem(s)
  BY <1>2 DEF TakeItem
<1>3. CASE Transcribe(s)
  BY <1>3 DEF Transcribe
<1>4. CASE LeaveLoop(s)
  BY <1>4 DEF LeaveLoop, FinalStage
<1>5. CASE Upload(s)
  <2>1. <<>> \o results[s] = results[s]
    BY DEF Frames
  <2>2. QED
    BY <1>5, <2>1 DEF Upload, StorageFails
<1>6. QED
  BY <1>1, <1>2, <1>3, <1>4, <1>5 DEF Transcriber

(* TranscriptInv is inductive. *)
LEMMA TranscriptStep == TypeOK /\ TranscriptInv /\ [Next]_vars => TranscriptInv'
<1> SUFFICES ASSUME TypeOK, TranscriptInv, [Next]_vars PROVE TranscriptInv'
  OBVIOUS
<1>1. CASE FetchConfig
  BY <1>1 DEF FetchConfig, TranscriptInv, UploadInv, TypeOK, TranscriberTypes
<1>2. CASE \/ StartRecording \/ Stop \/ JoinThread \/ NotifyLeverance \/ Exit
           \/ LeveranceAnswers \/ RemoveFlag \/ UNCHANGED vars
           \/ \E s \in Speakers : Recorder(s) \/ Callback(s)
  <2>1. UNCHANGED trVars
    BY <1>2 DEF StartRecording, Stop, JoinThread, NotifyLeverance, Exit,
         LeveranceAnswers, RemoveFlag, vars, Recorder, Callback, Announce,
         OpenStream, FlushBuffer, AnnounceEnd, CloseStream, EnterCallback,
         WriteFrame, PutFullBuffer, ClearBuffer
  <2>2. main' \in {"start", "config"} => main \in {"start", "config"}
    BY <1>2 DEF StartRecording, Stop, JoinThread, NotifyLeverance, Exit,
         LeveranceAnswers, RemoveFlag, vars, mainVars, Recorder, Callback,
         Announce, OpenStream, FlushBuffer, AnnounceEnd, CloseStream,
         EnterCallback, WriteFrame, PutFullBuffer, ClearBuffer
  <2>3. QED
    BY <2>1, <2>2 DEF trVars, TranscriptInv, UploadInv
<1>3. ASSUME NEW s \in Speakers, Transcriber(s) PROVE TranscriptInv'
  <2>1. UploadInv(s)'
    BY <1>3, UploadStep DEF TranscriptInv
  <2>2. ASSUME NEW o \in Speakers, o # s PROVE UploadInv(o)'
    <3>1. /\ tr'[o] = tr[o] /\ clientReady'[o] = clientReady[o]
          /\ chunk'[o] = chunk[o] /\ results'[o] = results[o]
          /\ blob'[o] = blob[o]
      BY <1>3, <2>2 DEF Transcriber, StartTranscriber, CreateClient, TakeItem, Transcribe,
           LeaveLoop, Upload, TypeOK, TranscriberTypes
    <3>2. QED
      BY <3>1 DEF TranscriptInv, UploadInv
  <2>3. tr[s] # "unborn" /\ main' = main
    BY <1>3 DEF Transcriber, StartTranscriber, TakeItem, Transcribe, LeaveLoop,
         Upload, mainVars
  <2>4. QED
    BY <2>1, <2>2, <2>3 DEF TranscriptInv
<1>4. QED
  BY <1>1, <1>2, <1>3 DEF Next, Main

(* If every join succeeded, the request to Leverance finds in the blobs    *)
(* everything that was transcribed.                                        *)
THEOREM NotifyFinds == Spec => []NotifyFindsTranscripts
<1>1. Init => TranscriptInv
  BY DEF Init, TranscriptInv, UploadInv
<1>2. NotifyWaitsForThreads /\ TranscriptInv => NotifyFindsTranscripts
  <2> SUFFICES ASSUME NotifyWaitsForThreads, TranscriptInv,
                      notify # "none", late = {},
                      Faults \cap {"token", "upload"} = {},
                      NEW s \in Speakers
               PROVE  /\ blob[s] = results[s]
                      /\ clientReady[s] => chunk[s] = <<>>
    BY DEF NotifyFindsTranscripts
  <2>1. ~ThreadAlive(<<"transcriber", s>>)
    BY DEF NotifyWaitsForThreads, Threads
  <2>2. tr[s] = "done"
    BY <2>1 DEF ThreadAlive
  <2>3. QED
    BY <2>2 DEF TranscriptInv, UploadInv
<1>3. QED
  BY <1>1, <1>2, TranscriptStep, TypeCorrect, NotifyWaits, PTL DEF Spec

-----------------------------------------------------------------------------
(* The newest status.                                                      *)

(* Whichever transcriber leaves its loop last has sent the newest status.  *)
LEMMA StatusStep ==
    ASSUME TypeOK, TranscriptInv, NewestStatusIsEndCall, [Next]_vars
    PROVE  NewestStatusIsEndCall'
<1> DEFINE Past(s) == tr[s] \in {"rest", "upload", "done"}
<1> SUFFICES ASSUME "status" \notin Faults, config' = "ok",
                    \A s \in Speakers : Past(s)'
             PROVE  statusQueue' # <<>> /\ Last(statusQueue') = "end-call"
  BY DEF NewestStatusIsEndCall
<1>1. CASE UNCHANGED <<config, trVars>>
  BY <1>1 DEF NewestStatusIsEndCall, trVars
<1>2. CASE FetchConfig
  BY <1>2 DEF FetchConfig, Speakers
<1>3. ASSUME NEW s \in Speakers, LeaveLoop(s)
      PROVE  statusQueue' # <<>> /\ Last(statusQueue') = "end-call"
  <2>1. /\ statusQueue \in Seq({"start-call", "end-call"})
        /\ statusQueue' = Append(statusQueue, "end-call")
    BY <1>3 DEF LeaveLoop, SendStatus, TypeOK, TranscriberTypes
  <2>2. QED
    BY <2>1 DEF Last
<1>4. ASSUME NEW s \in Speakers,
             StartTranscriber(s) \/ TakeItem(s) \/ Transcribe(s) \/ Upload(s)
      PROVE  statusQueue' # <<>> /\ Last(statusQueue') = "end-call"
  <2>1. config' = config
    BY <1>4 DEF StartTranscriber, TakeItem, Transcribe, Upload, mainVars
  <2>2. ~StartTranscriber(s)
    BY <2>1 DEF StartTranscriber, TypeOK, TranscriberTypes
  <2>3. statusQueue' = statusQueue
    BY <1>4, <2>2 DEF TakeItem, Transcribe, Upload
  <2>4. \A o \in Speakers : Past(o)
    BY <1>4, <2>2 DEF TakeItem, Transcribe, Upload, TypeOK, TranscriberTypes
  <2>5. QED
    BY <2>1, <2>3, <2>4 DEF NewestStatusIsEndCall
<1>5. CASE \/ StartRecording \/ Stop \/ JoinThread \/ NotifyLeverance \/ Exit
           \/ LeveranceAnswers \/ RemoveFlag \/ UNCHANGED vars
           \/ \E s \in Speakers : Recorder(s) \/ Callback(s)
  <2>1. UNCHANGED <<config, trVars>>
    BY <1>5 DEF StartRecording, Stop, JoinThread, NotifyLeverance, Exit,
         LeveranceAnswers, RemoveFlag, vars, mainVars, Recorder, Callback,
         Announce, OpenStream, FlushBuffer, AnnounceEnd, CloseStream,
         EnterCallback, WriteFrame, PutFullBuffer, ClearBuffer
  <2>2. QED
    BY <1>1, <2>1
<1>6. QED
  BY <1>2, <1>3, <1>4, <1>5 DEF Next, Main, Transcriber

(* The newest status of a call that both transcribers ended is end-call.   *)
THEOREM NewestStatus == Spec => []NewestStatusIsEndCall
<1>1. Init => NewestStatusIsEndCall
  BY DEF Init, NewestStatusIsEndCall
<1>2. Init => TranscriptInv
  BY DEF Init, TranscriptInv, UploadInv
<1>3. QED
  BY <1>1, <1>2, StatusStep, TranscriptStep, TypeCorrect, PTL DEF Spec

-----------------------------------------------------------------------------
(* The session that the rest of the system observes.                       *)

(* What CallSession sees of the process: the expressions Session gives to  *)
(* its variables.                                                          *)
Phase ==
    CASE main = "start" -> "idle"
      [] main \in {"config", "monitor"} -> "recording"
      [] main = "joining" -> "stopping"
      [] main = "closing" -> "notified"
      [] main = "exited" -> "gone"

Stage ==
    [s \in Speakers |->
        CASE tr[s] \in {"unborn", "started"} -> "off"
          [] tr[s] \in {"loop", "chunk"} -> "live"
          [] tr[s] \in {"rest", "upload"} -> "hungup"
          [] tr[s] = "done" -> "done"]

Transcript == [s \in Speakers |-> blob[s] # <<>>]

(* The stop event is set by stop() alone.                                  *)
StopEventInv == stopEvent => main \in {"joining", "closing", "exited"}

(* StopEventInv is inductive. *)
LEMMA StopEventStep == StopEventInv /\ [Next]_vars => StopEventInv'
  BY ZenonT(60) DEF StopEventInv, Next, Main, StartRecording, FetchConfig, Stop, JoinThread,
         NotifyLeverance, Exit, LeveranceAnswers, RemoveFlag, Recorder, Callback,
         Transcriber, Announce, OpenStream, FlushBuffer, AnnounceEnd, CloseStream,
         EnterCallback, WriteFrame, PutFullBuffer, ClearBuffer, StartTranscriber,
         TakeItem, Transcribe, LeaveLoop, Upload, vars, mainVars

(* A step of a transcriber changes the stage of its own speaker only.      *)
LEMMA StageStep ==
    ASSUME TypeOK, NEW s \in Speakers, NEW t \in {"loop", "chunk", "rest", "upload", "done"},
           tr' = [tr EXCEPT ![s] = t]
    PROVE  Stage' = [Stage EXCEPT ![s] =
               CASE t \in {"loop", "chunk"} -> "live"
                 [] t \in {"rest", "upload"} -> "hungup"
                 [] t = "done" -> "done"]
  BY DEF Stage, TypeOK, TranscriberTypes

(* What does not touch the phase, the stages, the blobs or the status      *)
(* queue is not observed.                                                  *)
LEMMA Unobserved ==
    UNCHANGED <<Phase, Stage, blob, statusQueue>> => UNCHANGED Session!vars
  BY DEF Phase, Stage, Session!vars

(* Every step of the main thread advances the process or is not observed.  *)
LEMMA MainStepObserved ==
    ASSUME TypeOK, TranscriptInv, Main \/ LeveranceAnswers \/ RemoveFlag
    PROVE  [Session!Next]_Session!vars
<1>1. ASSUME UNCHANGED trVars,
             NEW from, NEW to, Phase = from, Phase' = to,
             <<from, to>> \in {<<"idle", "recording">>, <<"recording", "stopping">>,
                               <<"stopping", "notified">>, <<"notified", "gone">>}
      PROVE  Session!Next
  <2>1. UNCHANGED <<Stage, Transcript, statusQueue>>
    BY <1>1 DEF trVars, Stage, Transcript
  <2>2. Session!Advance(from, to)
    BY <1>1, <2>1 DEF Session!Advance, Phase, Stage, Transcript
  <2>3. QED
    BY <1>1, <2>2 DEF Session!Next
<1>2. CASE StartRecording
  BY <1>1, <1>2 DEF StartRecording, Phase
<1>3. CASE Stop
  BY <1>1, <1>3 DEF Stop, Phase
<1>4. CASE NotifyLeverance
  BY <1>1, <1>4 DEF NotifyLeverance, Phase
<1>5. CASE Exit
  BY <1>1, <1>5 DEF Exit, Phase
<1>6. CASE FetchConfig
  BY <1>6, Unobserved DEF FetchConfig, Phase, Stage, TranscriptInv
<1>7. CASE JoinThread \/ LeveranceAnswers \/ RemoveFlag
  <2>1. UNCHANGED <<main, tr, blob, statusQueue>>
    BY <1>7 DEF JoinThread, LeveranceAnswers, RemoveFlag, trVars
  <2>2. QED
    BY <2>1, Unobserved DEF Phase, Stage
<1>8. QED
  BY <1>2, <1>3, <1>4, <1>5, <1>6, <1>7 DEF Main

(* Every step of a transcriber is one of the session, or is not observed.  *)
LEMMA TranscriberStepObserved ==
    ASSUME TypeOK, TranscriptInv, StopEventInv, NEW s \in Speakers, Transcriber(s)
    PROVE  [Session!Next]_Session!vars
<1>1. Stage[s] = CASE tr[s] \in {"unborn", "started"} -> "off"
                   [] tr[s] \in {"loop", "chunk"} -> "live"
                   [] tr[s] \in {"rest", "upload"} -> "hungup"
                   [] tr[s] = "done" -> "done"
  BY DEF Stage
<1>2. Phase # "gone" /\ UNCHANGED Phase
  BY DEF Transcriber, StartTranscriber, TakeItem, Transcribe, LeaveLoop, Upload,
         mainVars, Running, Phase, TypeOK, MainTypes
<1>3. CASE StartTranscriber(s)
  <2>1. Phase \notin {"idle", "gone"} /\ Stage[s] = "off" /\ UNCHANGED blob
    BY <1>1, <1>2, <1>3 DEF StartTranscriber, TranscriptInv, Phase, TypeOK, MainTypes
  <2>2. \/ /\ Stage' = [Stage EXCEPT ![s] = "live"]
           /\ Session!Send("start-call")
        \/ Stage' = [Stage EXCEPT ![s] = "done"] /\ UNCHANGED statusQueue
    BY <1>3, StageStep DEF StartTranscriber, SendStatus, Session!Send
  <2>3. Session!GoLive(s)
    BY <1>2, <2>1, <2>2 DEF Session!GoLive, Phase, Stage
  <2>4. QED
    BY <2>3 DEF Session!Next
<1>4. CASE TakeItem(s)
  BY <1>2, <1>4, Unobserved DEF TakeItem, Stage, TypeOK, TranscriberTypes
<1>5. CASE Transcribe(s) /\ tr'[s] # "done"
  BY <1>2, <1>5, Unobserved DEF Transcribe, Stage, TypeOK, TranscriberTypes
<1>6. CASE Transcribe(s) /\ tr'[s] = "done"
  <2>1. Stage[s] = "hungup" /\ UNCHANGED <<blob, statusQueue>>
    BY <1>1, <1>6 DEF Transcribe, TypeOK, TranscriberTypes
  <2>2. Stage' = [Stage EXCEPT ![s] = "done"]
    BY <1>6, StageStep DEF Transcribe, TypeOK, TranscriberTypes
  <2>3. Session!Deliver(s)
    BY <1>2, <2>1, <2>2 DEF Session!Deliver, Phase, Stage
  <2>4. QED
    BY <2>3 DEF Session!Next
<1>7. CASE LeaveLoop(s)
  <2>1. Phase \in {"stopping", "notified"} /\ Stage[s] = "live" /\ UNCHANGED blob
    BY <1>1, <1>2, <1>7 DEF LeaveLoop, StopEventInv, Phase
  <2>2. /\ Stage' \in {[Stage EXCEPT ![s] = "hungup"], [Stage EXCEPT ![s] = "done"]}
        /\ Session!Send("end-call")
    BY <1>7, StageStep DEF LeaveLoop, FinalStage, SendStatus, Session!Send
  <2>3. Session!HangUp(s)
    BY <1>2, <2>1, <2>2 DEF Session!HangUp, Phase, Stage
  <2>4. QED
    BY <2>3 DEF Session!Next
<1>8. CASE Upload(s)
  <2>1. Stage[s] = "hungup" /\ UNCHANGED statusQueue /\ blob[s] = <<>>
    BY <1>1, <1>8 DEF Upload, TranscriptInv, UploadInv
  <2>2. Stage' = [Stage EXCEPT ![s] = "done"]
    BY <1>8, StageStep DEF Upload
  <2>3. Transcript' \in {[Transcript EXCEPT ![s] = TRUE], Transcript}
    BY <1>8, <2>1 DEF Upload, Transcript, TypeOK, TranscriberTypes
  <2>4. Session!Deliver(s)
    BY <1>2, <2>1, <2>2, <2>3 DEF Session!Deliver, Phase, Stage, Transcript
  <2>5. QED
    BY <2>4 DEF Session!Next
<1>9. QED
  BY <1>3, <1>4, <1>5, <1>6, <1>7, <1>8 DEF Transcriber

(* The seven threads implement the session: whatever they do, the status   *)
(* messages, the blobs and the request come in an order CallSession allows.*)
THEOREM SessionImplemented == Spec => ImplementsSession
<1>1. Init => Session!Init
  BY DEF Init, Session!Init
<1>2. TypeOK /\ TranscriptInv /\ StopEventInv /\ [Next]_vars
          => [Session!Next]_Session!vars
  <2> SUFFICES ASSUME TypeOK, TranscriptInv, StopEventInv, [Next]_vars
               PROVE  [Session!Next]_Session!vars
    OBVIOUS
  <2>1. CASE Main \/ LeveranceAnswers \/ RemoveFlag
    BY <2>1, MainStepObserved
  <2>2. ASSUME NEW s \in Speakers, Transcriber(s) PROVE [Session!Next]_Session!vars
    BY <2>2, TranscriberStepObserved
  <2>3. ASSUME NEW s \in Speakers, Recorder(s) \/ Callback(s)
        PROVE  [Session!Next]_Session!vars
    <3>1. UNCHANGED <<main, trVars>>
      BY <2>3 DEF Recorder, Callback, Announce, OpenStream, FlushBuffer, AnnounceEnd,
           CloseStream, EnterCallback, WriteFrame, PutFullBuffer, ClearBuffer, mainVars
    <3>2. QED
      BY <3>1, Unobserved DEF Phase, Stage, trVars
  <2>4. CASE UNCHANGED vars
    BY <2>4, Unobserved DEF Phase, Stage, vars, mainVars, trVars
  <2>5. QED
    BY <2>1, <2>2, <2>3, <2>4 DEF Next
<1>3. Init => TranscriptInv /\ StopEventInv
  BY DEF Init, TranscriptInv, UploadInv, StopEventInv
<1>4. QED
  BY <1>1, <1>2, <1>3, TypeCorrect, TranscriptStep, StopEventStep, PTL
     DEF Spec, ImplementsSession, Session!Spec

-----------------------------------------------------------------------------
(* No frame vanishes between the callback and the transcript.              *)

Waiting(q) == UNION {ToSet(q[i].frames) : i \in DOMAIN q}

(* Where a frame of a speaker can be.                                      *)
Kept(s) ==
    ToSet(buffer[s]) \cup QueuedFrames(s) \cup ToSet(chunk[s]) \cup ToSet(results[s])

Ends(s) == rec[s] \in {"unborn", "started", "done"} /\ callback[s] = "idle"

(* The start item precedes all audio: until the transcriber has taken it,  *)
(* it is the first of the queue, or the recorder has put nothing at all.   *)
(* A buffer that was put and not yet cleared is kept behind the queue too, *)
(* and without a client fault a transcriber that runs has its client.      *)
FrameInv(s) ==
    /\ 1 .. captured[s] \subseteq Kept(s)
    /\ callback[s] = "put" =>
           ToSet(buffer[s]) \subseteq
               QueuedFrames(s) \cup ToSet(chunk[s]) \cup ToSet(results[s])
    /\ ~metadata[s] =>
           IF dataQueue[s] = <<>> THEN Ends(s) ELSE Head(dataQueue[s]) = StartItem
    /\ tr[s] \in {"loop", "chunk", "rest", "upload"} => clientReady[s]

(* The frames of a sequence that grew or was joined.                       *)
LEMMA ToSetOf ==
    /\ ToSet(<<>>) = {}
    /\ \A e, f \in Frames : ToSet(e \o f) = ToSet(e) \cup ToSet(f)
    /\ \A f \in Frames, n \in Nat : ToSet(Append(f, n)) = ToSet(f) \cup {n}
<1>1. ToSet(<<>>) = {}
  BY DEF ToSet
<1>2. ASSUME NEW e \in Frames, NEW f \in Frames
      PROVE  ToSet(e \o f) = ToSet(e) \cup ToSet(f)
  <2>1. \A i \in DOMAIN (e \o f) :
            (e \o f)[i] = IF i <= Len(e) THEN e[i] ELSE f[i - Len(e)]
    BY DEF Frames
  <2>2. ToSet(e \o f) \subseteq ToSet(e) \cup ToSet(f)
    BY <2>1 DEF ToSet, Frames
  <2>3. ToSet(e) \subseteq ToSet(e \o f)
    BY <2>1 DEF ToSet, Frames
  <2>4. ASSUME NEW i \in DOMAIN f PROVE f[i] \in ToSet(e \o f)
    <3>1. Len(e) + i \in DOMAIN (e \o f) /\ (e \o f)[Len(e) + i] = f[i]
      BY DEF Frames
    <3>2. QED
      BY <3>1 DEF ToSet
  <2>5. QED
    BY <2>2, <2>3, <2>4 DEF ToSet
<1>3. ASSUME NEW f \in Frames, NEW n \in Nat
      PROVE  ToSet(Append(f, n)) = ToSet(f) \cup {n}
  <2>1. /\ DOMAIN Append(f, n) = 1 .. Len(f) + 1 /\ DOMAIN f = 1 .. Len(f)
        /\ \A i \in 1 .. Len(f) : Append(f, n)[i] = f[i]
        /\ Append(f, n)[Len(f) + 1] = n
    BY DEF Frames
  <2>2. QED
    BY <2>1 DEF ToSet, Frames
<1>4. QED
  BY <1>1, <1>2, <1>3

(* Putting and taking an item moves its frames to and from the queue.      *)
LEMMA WaitingOf ==
    /\ Waiting(<<>>) = {}
    /\ \A q \in Seq(Items), item \in Items :
           Waiting(Append(q, item)) = Waiting(q) \cup ToSet(item.frames)
    /\ \A q \in Seq(Items) : q # <<>> =>
           Waiting(q) = ToSet(Head(q).frames) \cup Waiting(Tail(q))
<1>1. Waiting(<<>>) = {}
  BY DEF Waiting
<1>2. ASSUME NEW q \in Seq(Items), NEW item \in Items
      PROVE  Waiting(Append(q, item)) = Waiting(q) \cup ToSet(item.frames)
  <2>1. /\ DOMAIN Append(q, item) = 1 .. Len(q) + 1 /\ DOMAIN q = 1 .. Len(q)
        /\ \A i \in 1 .. Len(q) : Append(q, item)[i] = q[i]
        /\ Append(q, item)[Len(q) + 1] = item
    OBVIOUS
  <2>2. QED
    BY <2>1 DEF Waiting
<1>3. ASSUME NEW q \in Seq(Items), q # <<>>
      PROVE  Waiting(q) = ToSet(Head(q).frames) \cup Waiting(Tail(q))
  <2>1. /\ Head(q) = q[1] /\ DOMAIN q = 1 .. Len(q) /\ Len(q) \in Nat \ {0}
        /\ DOMAIN Tail(q) = 1 .. Len(q) - 1
        /\ \A i \in 1 .. Len(q) - 1 : Tail(q)[i] = q[i + 1]
    BY <1>3
  <2>2. \A i \in DOMAIN q : i = 1 \/ (i - 1 \in DOMAIN Tail(q) /\ Tail(q)[i - 1] = q[i])
    BY <2>1
  <2>3. Waiting(q) \subseteq ToSet(Head(q).frames) \cup Waiting(Tail(q))
    BY <2>1, <2>2 DEF Waiting
  <2>4. 1 \in DOMAIN q /\ \A i \in DOMAIN Tail(q) : i + 1 \in DOMAIN q /\ Tail(q)[i] = q[i + 1]
    BY <2>1
  <2>5. ToSet(Head(q).frames) \cup Waiting(Tail(q)) \subseteq Waiting(q)
    BY <2>1, <2>4 DEF Waiting
  <2>6. QED
    BY <2>3, <2>5
<1>4. QED
  BY <1>1, <1>2, <1>3

(* An item that is put joins the end of the queue.                         *)
LEMMA PutBehind ==
    ASSUME dataQueue \in [Speakers -> Seq(Items)], NEW s \in Speakers,
           NEW item \in Items, Put(s, item)
    PROVE  /\ QueuedFrames(s)' = QueuedFrames(s) \cup ToSet(item.frames)
           /\ dataQueue'[s] # <<>>
           /\ Head(dataQueue'[s]) = IF dataQueue[s] = <<>> THEN item
                                                           ELSE Head(dataQueue[s])
<1> DEFINE q == dataQueue[s]
<1>1. dataQueue'[s] = Append(q, item) /\ q \in Seq(Items)
  BY DEF Put
<1>2. QueuedFrames(s) = Waiting(q) /\ QueuedFrames(s)' = Waiting(dataQueue'[s])
  BY DEF QueuedFrames, Waiting
<1> HIDE DEF q
<1>3. Append(q, item) # <<>> /\ Head(Append(q, item)) = IF q = <<>> THEN item ELSE Head(q)
  <2>1. /\ Append(q, item) \in Seq(Items) /\ Len(Append(q, item)) = Len(q) + 1
        /\ Len(q) \in Nat /\ Append(q, item)[Len(q) + 1] = item
    BY <1>1
  <2>2. Append(q, item) # <<>> /\ Head(Append(q, item)) = Append(q, item)[1]
    BY <2>1
  <2>3. q = <<>> => Len(q) = 0
    OBVIOUS
  <2>4. q # <<>> => Append(q, item)[1] = q[1] /\ Head(q) = q[1]
    BY <1>1
  <2>5. QED
    BY <2>1, <2>2, <2>3, <2>4
<1>4. Waiting(Append(q, item)) = Waiting(q) \cup ToSet(item.frames)
  BY <1>1, WaitingOf
<1>5. QED
  BY <1>1, <1>2, <1>3, <1>4 DEF q

(* What a recorder's own steps keep of FrameInv.                           *)
LEMMA RecorderKeeps ==
    ASSUME TypeOK, NEW s \in Speakers, FrameInv(s), Recorder(s) \/ Callback(s)
    PROVE  FrameInv(s)'
<1> USE DEF FrameInv, Kept, Ends
<1>0. /\ dataQueue \in [Speakers -> Seq(Items)] /\ dataQueue[s] \in Seq(Items)
      /\ buffer[s] \in Frames /\ buffer \in [Speakers -> Frames] /\ captured[s] \in Nat
      /\ captured \in [Speakers -> Nat]
      /\ rec \in [Speakers -> {"unborn", "started", "announced", "recording",
                               "flushed", "ended", "done"}]
      /\ callback \in [Speakers -> {"idle", "entered", "full", "put"}]
  BY DEF TypeOK, RecorderTypes
<1>1. UNCHANGED <<tr, clientReady, metadata, chunk, results>>
  BY DEF Recorder, Callback, Announce, OpenStream, FlushBuffer, AnnounceEnd,
         CloseStream, EnterCallback, WriteFrame, PutFullBuffer, ClearBuffer, trVars
<1>2. ASSUME NEW item \in Items, Put(s, item),
             ~metadata[s] => (dataQueue[s] # <<>> \/ item = StartItem)
      PROVE  /\ QueuedFrames(s)' = QueuedFrames(s) \cup ToSet(item.frames)
             /\ ~metadata[s] => dataQueue'[s] # <<>> /\ Head(dataQueue'[s]) = StartItem
  <2>1. /\ QueuedFrames(s)' = QueuedFrames(s) \cup ToSet(item.frames)
        /\ dataQueue'[s] # <<>>
        /\ Head(dataQueue'[s]) = IF dataQueue[s] = <<>> THEN item ELSE Head(dataQueue[s])
    BY <1>0, <1>2, PutBehind
  <2>2. QED
    BY <1>2, <2>1
<1>3. UNCHANGED dataQueue => QueuedFrames(s)' = QueuedFrames(s)
  BY DEF QueuedFrames
<1>4. CASE Announce(s)
  <2>1. CASE Put(s, StartItem)
    <3>1. StartItem \in Items
      BY ItemTypes
    <3>2. /\ QueuedFrames(s) \subseteq QueuedFrames(s)'
          /\ ~metadata[s] => dataQueue'[s] # <<>> /\ Head(dataQueue'[s]) = StartItem
      BY <1>2, <2>1, <3>1
    <3>3. QED
      BY <1>0, <1>1, <1>4, <3>2 DEF Announce
  <2>2. CASE rec' = [rec EXCEPT ![s] = "done"] /\ UNCHANGED dataQueue
    BY <1>0, <1>1, <1>3, <1>4, <2>2 DEF Announce
  <2>3. QED
    BY <1>4, <2>1, <2>2 DEF Announce
<1>5. CASE OpenStream(s) \/ CloseStream(s) \/ EnterCallback(s)
  <2>1. /\ UNCHANGED <<captured, buffer, dataQueue>>
        /\ callback'[s] = "put" => callback[s] = "put"
        /\ Ends(s) => Ends(s)'
    BY <1>0, <1>5 DEF OpenStream, CloseStream, EnterCallback
  <2>2. QED
    BY <1>1, <1>3, <2>1
<1>6. CASE FlushBuffer(s)
  <2>1. /\ UNCHANGED <<captured, buffer, callback>>
        /\ ~metadata[s] => dataQueue[s] # <<>> /\ Head(dataQueue[s]) = StartItem
    BY <1>6 DEF FlushBuffer
  <2>2. CASE UNCHANGED dataQueue
    BY <1>1, <1>3, <2>1, <2>2
  <2>3. CASE Put(s, AudioItem(buffer[s]))
    <3>1. AudioItem(buffer[s]) \in Items
      BY <1>0, ItemTypes
    <3>2. /\ QueuedFrames(s) \subseteq QueuedFrames(s)'
          /\ ~metadata[s] => dataQueue'[s] # <<>> /\ Head(dataQueue'[s]) = StartItem
      BY <1>2, <2>1, <2>3, <3>1
    <3>3. QED
      BY <1>1, <2>1, <3>2
  <2>4. QED
    BY <1>6, <2>2, <2>3 DEF FlushBuffer
<1>7. CASE AnnounceEnd(s)
  <2>1. /\ UNCHANGED <<captured, buffer, callback>> /\ Put(s, EndItem) /\ EndItem \in Items
        /\ ~metadata[s] => dataQueue[s] # <<>> /\ Head(dataQueue[s]) = StartItem
    BY <1>7, ItemTypes DEF AnnounceEnd
  <2>2. /\ QueuedFrames(s) \subseteq QueuedFrames(s)'
        /\ ~metadata[s] => dataQueue'[s] # <<>> /\ Head(dataQueue'[s]) = StartItem
    BY <1>2, <2>1
  <2>3. QED
    BY <1>1, <2>1, <2>2
<1>8. CASE WriteFrame(s)
  <2>1. /\ captured'[s] = captured[s] + 1
        /\ buffer'[s] = Append(buffer[s], captured[s] + 1)
        /\ callback'[s] # "put" /\ callback[s] # "idle" /\ UNCHANGED dataQueue
    BY <1>0, <1>8 DEF WriteFrame
  <2>2. ToSet(buffer'[s]) = ToSet(buffer[s]) \cup {captured[s] + 1}
    BY <1>0, <2>1, ToSetOf
  <2>3. 1 .. captured'[s] = 1 .. captured[s] \cup {captured[s] + 1}
    BY <1>0, <2>1
  <2>4. QED
    BY <1>1, <1>3, <2>1, <2>2, <2>3
<1>9. CASE PutFullBuffer(s)
  <2>1. /\ UNCHANGED <<captured, buffer>>
        /\ ~metadata[s] => dataQueue[s] # <<>> /\ Head(dataQueue[s]) = StartItem
    BY <1>9 DEF PutFullBuffer
  <2>2. CASE callback' = [callback EXCEPT ![s] = "idle"] /\ UNCHANGED dataQueue
    BY <1>0, <1>1, <1>3, <2>1, <2>2
  <2>3. CASE Put(s, AudioItem(buffer[s]))
    <3>1. AudioItem(buffer[s]) \in Items /\ AudioItem(buffer[s]).frames = buffer[s]
      BY <1>0, ItemTypes DEF AudioItem
    <3>2. /\ QueuedFrames(s)' = QueuedFrames(s) \cup ToSet(buffer[s])
          /\ ~metadata[s] => dataQueue'[s] # <<>> /\ Head(dataQueue'[s]) = StartItem
      BY <1>2, <2>1, <2>3, <3>1
    <3>3. QED
      BY <1>1, <2>1, <3>2
  <2>4. QED
    BY <1>9, <2>2, <2>3 DEF PutFullBuffer
<1>10. CASE ClearBuffer(s)
  <2>1. /\ buffer'[s] = <<>> /\ callback[s] = "put" /\ callback'[s] = "idle"
        /\ UNCHANGED <<captured, rec, dataQueue>>
    BY <1>0, <1>10 DEF ClearBuffer
  <2>2. QED
    BY <1>1, <1>3, <2>1, ToSetOf
<1>11. QED
  BY <1>4, <1>5, <1>6, <1>7, <1>8, <1>9, <1>10 DEF Recorder, Callback

(* What a transcriber's own steps keep of FrameInv.  It discards audio     *)
(* only without its client or when a request fails.                        *)
LEMMA TranscriberKeeps ==
    ASSUME TypeOK, Faults \cap {"client", "api"} = {},
           NEW s \in Speakers, FrameInv(s), Transcriber(s)
    PROVE  FrameInv(s)'
<1> USE DEF FrameInv, Kept, Ends
<1>0. /\ dataQueue \in [Speakers -> Seq(Items)] /\ dataQueue[s] \in Seq(Items)
      /\ chunk \in [Speakers -> Frames] /\ chunk[s] \in Frames
      /\ results \in [Speakers -> Frames] /\ results[s] \in Frames
      /\ metadata \in [Speakers -> BOOLEAN] /\ clientReady \in [Speakers -> BOOLEAN]
      /\ tr \in [Speakers -> {"unborn", "started", "loop", "chunk", "rest",
                              "upload", "done"}]
  BY DEF TypeOK, TranscriberTypes
<1>1. UNCHANGED <<rec, callback, captured, buffer>>
  BY DEF Transcriber, StartTranscriber, TakeItem, Transcribe, LeaveLoop, Upload, recVars
<1>2. UNCHANGED dataQueue => QueuedFrames(s)' = QueuedFrames(s)
  BY DEF QueuedFrames
<1>3. CASE StartTranscriber(s) \/ LeaveLoop(s) \/ Upload(s)
  <2>1. UNCHANGED <<dataQueue, metadata, chunk, results>>
    BY <1>3 DEF StartTranscriber, LeaveLoop, Upload
  <2>2. (tr[s] \in {"loop", "chunk", "rest", "upload"} => clientReady[s])'
    BY <1>0, <1>3 DEF StartTranscriber, CreateClient, LeaveLoop, Upload, FinalStage
  <2>3. QED
    BY <1>1, <1>2, <2>1, <2>2
<1>4. CASE TakeItem(s)
  <2> DEFINE item == Head(dataQueue[s])
  <2>1. item \in Items /\ item.frames \in Frames /\ dataQueue[s] # <<>>
    BY <1>0, <1>4, ItemTypes DEF TakeItem
  <2>2. /\ metadata'[s] = (metadata[s] \/ item.kind = "start")
        /\ chunk'[s] = IF metadata[s] THEN chunk[s] \o item.frames ELSE chunk[s]
        /\ tr'[s] \in {"loop", "chunk"} /\ tr[s] = "loop"
        /\ dataQueue'[s] = Tail(dataQueue[s])
        /\ UNCHANGED <<clientReady, results>>
    BY <1>0, <1>4 DEF TakeItem
  <2>3. QueuedFrames(s) = ToSet(item.frames) \cup QueuedFrames(s)'
    <3>1. Waiting(dataQueue[s]) = ToSet(item.frames) \cup Waiting(Tail(dataQueue[s]))
      BY <1>0, <2>1, WaitingOf
    <3>2. /\ QueuedFrames(s) = Waiting(dataQueue[s])
          /\ QueuedFrames(s)' = Waiting(dataQueue'[s])
      BY DEF QueuedFrames, Waiting
    <3>3. QED
      BY <2>2, <3>1, <3>2
  <2>4. ~metadata[s] => item = StartItem
    BY <2>1
  <2> HIDE DEF item
  <2>5. metadata'[s]
    <3>1. StartItem.kind = "start"
      BY DEF StartItem
    <3>2. QED
      BY <2>2, <2>4, <3>1, Zenon
  <2>6. ToSet(chunk'[s]) = ToSet(chunk[s]) \cup ToSet(item.frames)
    <3>1. CASE metadata[s]
      BY <1>0, <2>1, <2>2, <3>1, ToSetOf
    <3>2. CASE ~metadata[s]
      BY <1>0, <2>2, <2>4, <3>2, ToSetOf DEF StartItem
    <3>3. QED
      BY <3>1, <3>2
  <2>7. QED
    BY <1>1, <2>2, <2>3, <2>5, <2>6
<1>5. CASE Transcribe(s)
  <2>1. UNCHANGED <<dataQueue, metadata, clientReady>>
    BY <1>5 DEF Transcribe
  <2>2. ToSet(chunk'[s]) \cup ToSet(results'[s]) = ToSet(chunk[s]) \cup ToSet(results[s])
    <3>1. CASE UNCHANGED <<chunk, results>>
      BY <3>1
    <3>2. CASE chunk' = [chunk EXCEPT ![s] = <<>>]
               /\ results' = [results EXCEPT ![s] = @ \o chunk[s]]
      <4>1. chunk'[s] = <<>> /\ results'[s] = results[s] \o chunk[s]
        BY <1>0, <3>2
      <4>2. QED
        BY <1>0, <4>1, ToSetOf
    <3>3. clientReady[s] /\ "api" \notin Faults
      BY <1>5 DEF Transcribe
    <3>4. QED
      BY <1>5, <3>1, <3>2, <3>3 DEF Transcribe
  <2>3. (tr[s] \in {"loop", "chunk", "rest", "upload"} => clientReady[s])'
    BY <1>0, <1>5, <2>1 DEF Transcribe
  <2>4. QED
    BY <1>1, <1>2, <2>1, <2>2, <2>3
<1>6. QED
  BY <1>3, <1>4, <1>5 DEF Transcriber

(* FrameInv is inductive.                                                  *)
LEMMA FrameStep ==
    ASSUME TypeOK, Faults \cap {"client", "api"} = {},
           \A s \in Speakers : FrameInv(s), [Next]_vars
    PROVE  \A s \in Speakers : FrameInv(s)'
<1>1. ASSUME NEW s \in Speakers,
             UNCHANGED <<callback[s], captured[s], buffer[s], dataQueue[s], clientReady[s],
                         metadata[s], chunk[s], results[s]>>,
             rec[s] = rec'[s] \/ rec'[s] = "started",
             tr[s] = tr'[s] \/ tr'[s] = "started"
      PROVE  FrameInv(s)'
  BY <1>1 DEF FrameInv, Kept, Ends, QueuedFrames
<1>2. CASE StartRecording
  BY <1>1, <1>2 DEF StartRecording, trVars
<1>3. CASE FetchConfig
  BY <1>1, <1>3 DEF FetchConfig, recVars
<1>4. CASE \/ Stop \/ JoinThread \/ NotifyLeverance \/ Exit \/ LeveranceAnswers
           \/ RemoveFlag \/ UNCHANGED vars
  <2>1. UNCHANGED <<recVars, dataQueue, trVars>>
    BY <1>4 DEF Stop, JoinThread, NotifyLeverance, Exit, LeveranceAnswers, RemoveFlag, vars
  <2>2. QED
    BY <1>1, <2>1 DEF recVars, trVars
<1>5. ASSUME NEW s \in Speakers, Recorder(s) \/ Callback(s) \/ Transcriber(s),
             NEW o \in Speakers
      PROVE  FrameInv(o)'
  <2>1. CASE o = s
    BY <1>5, <2>1, RecorderKeeps, TranscriberKeeps
  <2>2. CASE o # s
    <3> USE DEF TypeOK, RecorderTypes, TranscriberTypes
    <3>1. CASE Recorder(s) \/ Callback(s)
      <4>1. UNCHANGED <<rec[o], callback[o], captured[o], buffer[o], dataQueue[o]>>
        BY <2>2, <3>1 DEF Recorder, Callback, Put, Announce, OpenStream, FlushBuffer,
             AnnounceEnd, CloseStream, EnterCallback, WriteFrame, PutFullBuffer, ClearBuffer
      <4>2. UNCHANGED trVars
        BY <3>1 DEF Recorder, Callback, Announce, OpenStream, FlushBuffer, AnnounceEnd,
             CloseStream, EnterCallback, WriteFrame, PutFullBuffer, ClearBuffer
      <4>3. QED
        BY <1>1, <4>1, <4>2 DEF trVars
    <3>2. CASE Transcriber(s)
      <4>1. UNCHANGED <<tr[o], clientReady[o], metadata[o], chunk[o], results[o], dataQueue[o]>>
        BY <2>2, <3>2 DEF Transcriber, StartTranscriber, CreateClient, TakeItem, Transcribe, LeaveLoop,
             Upload
      <4>2. UNCHANGED recVars
        BY <3>2 DEF Transcriber, StartTranscriber, TakeItem, Transcribe, LeaveLoop, Upload
      <4>3. QED
        BY <1>1, <4>1, <4>2 DEF recVars
    <3>3. QED
      BY <1>5, <3>1, <3>2
  <2>3. QED
    BY <2>1, <2>2
<1>6. QED
  BY <1>2, <1>3, <1>4, <1>5 DEF Next, Main

(* Whatever the order in which the callback, the recorder, the transcriber *)
(* and stop() run, every frame that was written is in the recorder's       *)
(* buffer, the data queue, the transcriber's buffer or the results, unless *)
(* the client is missing or a request fails.  The strengthening is that    *)
(* nothing precedes the start item, before which the transcriber discards. *)
THEOREM NoFrameLost == Spec => []NoFrameVanishes
<1> DEFINE Inv == Faults \cap {"client", "api"} = {} => \A s \in Speakers : FrameInv(s)
<1>1. Init => Inv
  <2> SUFFICES ASSUME Init, NEW s \in Speakers PROVE FrameInv(s)
    OBVIOUS
  <2>1. /\ captured[s] = 0 /\ callback[s] = "idle" /\ rec[s] = "unborn"
        /\ tr[s] = "unborn" /\ dataQueue[s] = <<>>
    BY DEF Init
  <2>2. QED
    BY <2>1 DEF FrameInv, Ends
<1>2. TypeOK /\ Inv /\ [Next]_vars => Inv'
  BY FrameStep
<1>3. Inv => NoFrameVanishes
  BY DEF FrameInv, Kept, NoFrameVanishes
<1>4. QED
  BY <1>1, <1>2, <1>3, TypeCorrect, PTL DEF Spec

-----------------------------------------------------------------------------
(* Places in a sequence of pieces.                                         *)

(* The frames at all places.                                               *)
Sounds(p) == {p[a[1]][a[2]] : a \in Places(p)}

(* All repetitions span one place.                                         *)
StartsOverOnce(p) == \A x, y \in Repeats(p) : Before(x[1], y[2])

(* q has the order of p, and nothing else.                                 *)
KeepsOrder(p, q) ==
    /\ Repeats(p) = {} => Repeats(q) = {}
    /\ StartsOverOnce(p) => StartsOverOnce(q)
    /\ Sounds(q) \subseteq Sounds(p)

Increasing(f) == \A i, j \in DOMAIN f : i < j => f[i] < f[j]

(* A place is a piece and a position in it.                                *)
LEMMA PlaceOf ==
    ASSUME NEW p \in Seq(Frames)
    PROVE  /\ \A a : a \in Places(p) <=>
                  \E i \in 1 .. Len(p) : \E j \in 1 .. Len(p[i]) : a = <<i, j>>
           /\ \A a \in Places(p) :
                  /\ a[1] \in 1 .. Len(p) /\ a[2] \in 1 .. Len(p[a[1]])
                  /\ a = <<a[1], a[2]>> /\ a[1] \in Nat /\ a[2] \in Nat
                  /\ p[a[1]] \in Frames /\ p[a[1]][a[2]] \in Nat
<1>1. \A i \in 1 .. Len(p) : p[i] \in Frames /\ DOMAIN p[i] = 1 .. Len(p[i]) /\ Len(p[i]) \in Nat
  BY DEF Frames
<1>2. \A a : a \in Places(p) <=>
          \E i \in 1 .. Len(p) : \E j \in 1 .. Len(p[i]) : a = <<i, j>>
  BY <1>1 DEF Places
<1>3. ASSUME NEW a \in Places(p)
      PROVE  /\ a[1] \in 1 .. Len(p) /\ a[2] \in 1 .. Len(p[a[1]])
             /\ a = <<a[1], a[2]>> /\ a[1] \in Nat /\ a[2] \in Nat
             /\ p[a[1]] \in Frames /\ p[a[1]][a[2]] \in Nat
  <2>1. PICK i \in 1 .. Len(p) : \E j \in 1 .. Len(p[i]) : a = <<i, j>>
    BY <1>2
  <2>2. PICK j \in 1 .. Len(p[i]) : a = <<i, j>>
    BY <2>1
  <2>3. a[1] = i /\ a[2] = j /\ i \in Nat /\ j \in Nat /\ p[i] \in Frames
    BY <1>1, <2>2
  <2>4. p[i][j] \in Nat
    BY <2>2, <2>3 DEF Frames
  <2>5. QED
    BY <2>2, <2>3, <2>4
<1>4. QED
  BY <1>2, <1>3

(* Places are totally ordered.                                             *)
LEMMA PlacesOrdered ==
    ASSUME NEW p \in Seq(Frames), NEW a \in Places(p), NEW b \in Places(p)
    PROVE  /\ a = b \/ Before(a, b) \/ Before(b, a)
           /\ ~(Before(a, b) /\ Before(b, a)) /\ ~Before(a, a)
<1>1. /\ a = <<a[1], a[2]>> /\ a[1] \in Nat /\ a[2] \in Nat
      /\ b = <<b[1], b[2]>> /\ b[1] \in Nat /\ b[2] \in Nat
  BY PlaceOf
<1>2. a[1] = b[1] /\ a[2] = b[2] => a = b
  BY <1>1
<1>3. QED
  BY <1>1, <1>2 DEF Before

(* Where each place of q has one of p with the same frame, in the same     *)
(* order, q keeps the order of p.                                          *)
LEMMA Embedded ==
    ASSUME NEW p \in Seq(Frames), NEW q \in Seq(Frames),
           NEW g \in [Places(q) -> Places(p)],
           \A a \in Places(q) : q[a[1]][a[2]] = p[g[a][1]][g[a][2]],
           \A a, b \in Places(q) : Before(a, b) => Before(g[a], g[b])
    PROVE  KeepsOrder(p, q)
<1>1. ASSUME NEW x \in Repeats(q)
      PROVE  /\ x[1] \in Places(q) /\ x[2] \in Places(q)
             /\ <<g[x[1]], g[x[2]]>> \in Repeats(p)
  BY <1>1 DEF Repeats
<1>2. Repeats(p) = {} => Repeats(q) = {}
  BY <1>1
<1>3. ASSUME StartsOverOnce(p), NEW x \in Repeats(q), NEW y \in Repeats(q)
      PROVE  Before(x[1], y[2])
  <2>1. /\ x[1] \in Places(q) /\ y[2] \in Places(q)
        /\ g[x[1]] \in Places(p) /\ g[y[2]] \in Places(p)
    BY <1>1
  <2>2. Before(g[x[1]], g[y[2]])
    <3>1. <<g[x[1]], g[x[2]]>> \in Repeats(p) /\ <<g[y[1]], g[y[2]]>> \in Repeats(p)
      BY <1>1
    <3>2. Before(<<g[x[1]], g[x[2]]>>[1], <<g[y[1]], g[y[2]]>>[2])
      BY <1>3, <3>1 DEF StartsOverOnce
    <3>3. QED
      BY <3>2
  <2>3. x[1] # y[2]
    BY <2>1, <2>2, PlacesOrdered
  <2>4. ~Before(y[2], x[1])
    BY <2>1, <2>2, PlacesOrdered
  <2>5. QED
    BY <2>1, <2>3, <2>4, PlacesOrdered
<1>4. Sounds(q) \subseteq Sounds(p)
  BY DEF Sounds
<1>5. QED
  BY <1>2, <1>3, <1>4 DEF KeepsOrder, StartsOverOnce

(* A piece put behind the others.                                          *)
LEMMA PieceBehind ==
    ASSUME NEW p \in Seq(Frames), NEW q \in Seq(Frames), NEW f \in Frames,
           Len(q) = Len(p) + 1, q[Len(q)] = f,
           \A i \in 1 .. Len(p) : q[i] = p[i],
           Increasing(f), Repeats(p) = {}
    PROVE  /\ StartsOverOnce(q)
           /\ (\A e \in Sounds(p), i \in DOMAIN f : e < f[i]) => Repeats(q) = {}
<1>0. Len(p) \in Nat /\ Len(q) \in Nat /\ f \in Seq(Nat)
  BY DEF Frames
<1>1. ASSUME NEW a \in Places(q)
      PROVE  \/ a \in Places(p) /\ q[a[1]][a[2]] = p[a[1]][a[2]] /\ a[1] < Len(q)
             \/ a[1] = Len(q) /\ a[2] \in DOMAIN f /\ q[a[1]][a[2]] = f[a[2]]
  <2>1. a[1] \in 1 .. Len(q) /\ a[2] \in 1 .. Len(q[a[1]]) /\ a = <<a[1], a[2]>>
    BY PlaceOf
  <2>2. CASE a[1] = Len(q)
    BY <1>0, <2>1, <2>2
  <2>3. CASE a[1] # Len(q)
    <3>1. a[1] \in 1 .. Len(p) /\ q[a[1]] = p[a[1]] /\ a[1] < Len(q)
      BY <1>0, <2>1, <2>3
    <3>2. a \in Places(p)
      BY <2>1, <3>1, PlaceOf
    <3>3. QED
      BY <3>1, <3>2
  <2>4. QED
    BY <2>2, <2>3
<1>2. ASSUME NEW x \in Repeats(q)
      PROVE  /\ x[1] \in Places(p) /\ x[1][1] < Len(q) /\ x[1][1] \in Nat
             /\ q[x[1][1]][x[1][2]] = p[x[1][1]][x[1][2]]
             /\ x[2][1] = Len(q) /\ x[2][2] \in DOMAIN f
             /\ q[x[2][1]][x[2][2]] = f[x[2][2]]
             /\ q[x[1][1]][x[1][2]] >= q[x[2][1]][x[2][2]]
  <2>1. /\ x[1] \in Places(q) /\ x[2] \in Places(q) /\ Before(x[1], x[2])
        /\ q[x[1][1]][x[1][2]] >= q[x[2][1]][x[2][2]]
    BY DEF Repeats
  <2>2. /\ x[1][1] \in Nat /\ x[1][2] \in Nat /\ x[2][1] \in Nat /\ x[2][2] \in Nat
        /\ q[x[1][1]][x[1][2]] \in Nat /\ q[x[2][1]][x[2][2]] \in Nat
    BY <2>1, PlaceOf
  <2>3. ~(x[1] \in Places(p) /\ x[2] \in Places(p)
          /\ p[x[1][1]][x[1][2]] >= p[x[2][1]][x[2][2]])
    <3>1. x \in Repeats(p) \/ ~(x[1] \in Places(p) /\ x[2] \in Places(p)
              /\ p[x[1][1]][x[1][2]] >= p[x[2][1]][x[2][2]])
      BY <2>1 DEF Repeats
    <3>2. QED
      BY <3>1
  <2>4. CASE x[1] \in Places(p) /\ q[x[1][1]][x[1][2]] = p[x[1][1]][x[1][2]] /\ x[1][1] < Len(q)
    <3>1. ~(x[2] \in Places(p) /\ q[x[2][1]][x[2][2]] = p[x[2][1]][x[2][2]])
      BY <2>1, <2>3, <2>4
    <3>2. x[2][1] = Len(q) /\ x[2][2] \in DOMAIN f /\ q[x[2][1]][x[2][2]] = f[x[2][2]]
      BY <1>1, <2>1, <3>1
    <3>3. QED
      BY <2>1, <2>2, <2>4, <3>2
  <2>5. CASE x[1][1] = Len(q) /\ x[1][2] \in DOMAIN f /\ q[x[1][1]][x[1][2]] = f[x[1][2]]
    <3>1. x[2][1] = Len(q) /\ x[1][2] < x[2][2]
      <4>1. x[2][1] \in 1 .. Len(q)
        BY <2>1, PlaceOf
      <4>2. QED
        BY <1>0, <2>1, <2>2, <2>5, <4>1 DEF Before
    <3>2. x[2][2] \in DOMAIN f /\ q[x[2][1]][x[2][2]] = f[x[2][2]]
      BY <1>0, <1>1, <2>1, <3>1
    <3>3. f[x[1][2]] < f[x[2][2]]
      BY <2>5, <3>1, <3>2 DEF Increasing
    <3>4. QED
      BY <2>1, <2>2, <2>5, <3>2, <3>3
  <2>6. QED
    BY <1>1, <2>1, <2>4, <2>5
<1>3. StartsOverOnce(q)
  BY <1>0, <1>2 DEF StartsOverOnce, Before
<1>4. ASSUME \A e \in Sounds(p), i \in DOMAIN f : e < f[i], NEW x \in Repeats(q)
      PROVE  FALSE
  <2>1. p[x[1][1]][x[1][2]] \in Sounds(p)
    BY <1>2 DEF Sounds
  <2>2. p[x[1][1]][x[1][2]] < f[x[2][2]]
    BY <1>2, <1>4, <2>1
  <2>3. p[x[1][1]][x[1][2]] \in Nat /\ f[x[2][2]] \in Nat
    BY <1>0, <1>2, PlaceOf
  <2>4. p[x[1][1]][x[1][2]] >= f[x[2][2]]
    BY <1>2
  <2>5. QED
    BY <2>2, <2>3, <2>4
<1>5. QED
  BY <1>3, <1>4

(* It adds its frames.                                                     *)
LEMMA SoundsBehind ==
    ASSUME NEW p \in Seq(Frames), NEW q \in Seq(Frames), NEW f \in Frames,
           Len(q) = Len(p) + 1, q[Len(q)] = f,
           \A i \in 1 .. Len(p) : q[i] = p[i],
           NEW e \in Sounds(q)
    PROVE  e \in Sounds(p) \/ \E i \in DOMAIN f : e = f[i]
<1>1. PICK a \in Places(q) : e = q[a[1]][a[2]]
  BY DEF Sounds
<1>2. a[1] \in 1 .. Len(q) /\ a[2] \in 1 .. Len(q[a[1]]) /\ a = <<a[1], a[2]>>
  BY PlaceOf
<1>3. CASE a[1] = Len(q)
  <2>1. a[2] \in DOMAIN f
    BY <1>2, <1>3 DEF Frames
  <2>2. QED
    BY <1>1, <1>3, <2>1
<1>4. CASE a[1] # Len(q)
  <2>1. a[1] \in 1 .. Len(p) /\ q[a[1]] = p[a[1]]
    BY <1>2, <1>4
  <2>2. a \in Places(p)
    BY <1>2, <2>1, PlaceOf
  <2>3. QED
    BY <1>1, <2>1, <2>2 DEF Sounds
<1>5. QED
  BY <1>3, <1>4

(* A piece without frames changes nothing.                                 *)
LEMMA SilenceBehind ==
    ASSUME NEW p \in Seq(Frames), NEW q \in Seq(Frames),
           Len(q) = Len(p) + 1, q[Len(q)] = <<>>,
           \A i \in 1 .. Len(p) : q[i] = p[i]
    PROVE  KeepsOrder(p, q)
<1> DEFINE g == [a \in Places(q) |-> a]
<1>1. ASSUME NEW a \in Places(q)
      PROVE  a \in Places(p) /\ q[a[1]] = p[a[1]]
  <2>1. a[1] \in 1 .. Len(q) /\ a[2] \in 1 .. Len(q[a[1]]) /\ a = <<a[1], a[2]>>
    BY PlaceOf
  <2>2. a[1] # Len(q)
    <3>1. Len(<<>>) = 0
      OBVIOUS
    <3>2. QED
      BY <2>1, <3>1
  <2>3. a[1] \in 1 .. Len(p) /\ q[a[1]] = p[a[1]]
    BY <2>1, <2>2
  <2>4. QED
    BY <2>1, <2>3, PlaceOf
<1>2. g \in [Places(q) -> Places(p)]
  BY <1>1
<1>3. \A a \in Places(q) : q[a[1]][a[2]] = p[g[a][1]][g[a][2]]
  BY <1>1
<1>4. \A a, b \in Places(q) : Before(a, b) => Before(g[a], g[b])
  OBVIOUS
<1> HIDE DEF g
<1>5. QED
  BY <1>2, <1>3, <1>4, Embedded

(* The first item is discarded, as it carries no audio or comes before the *)
(* start metadata.                                                         *)
LEMMA ItemDropped ==
    ASSUME NEW p \in Seq(Frames), NEW q \in Seq(Frames),
           Len(p) >= 3, Len(q) = Len(p) - 1, q[1] = p[1], q[2] = p[2],
           \A i \in 3 .. Len(q) : q[i] = p[i + 1]
    PROVE  KeepsOrder(p, q)
<1> DEFINE at(a) == IF a[1] < 3 THEN a ELSE <<a[1] + 1, a[2]>>
           g == [a \in Places(q) |-> at(a)]
<1>1. ASSUME NEW a \in Places(q)
      PROVE  /\ at(a) \in Places(p) /\ q[a[1]] = p[at(a)[1]] /\ at(a)[2] = a[2]
  <2>1. /\ a[1] \in 1 .. Len(q) /\ a[2] \in 1 .. Len(q[a[1]]) /\ a = <<a[1], a[2]>>
        /\ a[1] \in Nat
    BY PlaceOf
  <2>2. CASE a[1] < 3
    <3>1. a[1] \in 1 .. Len(p) /\ q[a[1]] = p[a[1]]
      BY <2>1, <2>2
    <3>2. QED
      BY <2>1, <2>2, <3>1, PlaceOf
  <2>3. CASE ~(a[1] < 3)
    <3>1. a[1] + 1 \in 1 .. Len(p) /\ q[a[1]] = p[a[1] + 1]
      BY <2>1, <2>3, SMTT(40)
    <3>2. <<a[1] + 1, a[2]>> \in Places(p)
      BY <2>1, <3>1, PlaceOf
    <3>3. QED
      BY <2>3, <3>1, <3>2
  <2>4. QED
    BY <2>2, <2>3
<1>2. g \in [Places(q) -> Places(p)]
  BY <1>1
<1>3. \A a \in Places(q) : q[a[1]][a[2]] = p[g[a][1]][g[a][2]]
  BY <1>1
<1>4. ASSUME NEW a \in Places(q), NEW b \in Places(q), Before(a, b)
      PROVE  Before(g[a], g[b])
  <2>1. /\ a[1] \in Nat /\ a[2] \in Nat /\ b[1] \in Nat /\ b[2] \in Nat
    BY PlaceOf
  <2>2. QED
    BY <1>4, <2>1 DEF Before
<1> HIDE DEF g
<1>5. QED
  BY <1>2, <1>3, <1>4, Embedded

(* A position in two joined pieces.                                        *)
LEMMA JoinedAt ==
    ASSUME NEW e \in Frames, NEW f \in Frames, NEW j \in 1 .. Len(e \o f)
    PROVE  \/ j <= Len(e) /\ j \in 1 .. Len(e) /\ (e \o f)[j] = e[j]
           \/ j > Len(e) /\ j - Len(e) \in 1 .. Len(f) /\ (e \o f)[j] = f[j - Len(e)]
<1>1. /\ e \in Seq(Nat) /\ f \in Seq(Nat) /\ Len(e) \in Nat /\ Len(f) \in Nat
      /\ Len(e \o f) = Len(e) + Len(f)
  BY DEF Frames
<1>2. \A i \in 1 .. Len(e) + Len(f) :
          (e \o f)[i] = IF i <= Len(e) THEN e[i] ELSE f[i - Len(e)]
  BY <1>1
<1>3. QED
  BY <1>1, <1>2

(* The first item joins the transcriber's buffer.                          *)
LEMMA ItemTaken ==
    ASSUME NEW p \in Seq(Frames), NEW q \in Seq(Frames),
           Len(p) >= 3, Len(q) = Len(p) - 1, q[1] = p[1], q[2] = p[2] \o p[3],
           \A i \in 3 .. Len(q) : q[i] = p[i + 1]
    PROVE  KeepsOrder(p, q)
<1> DEFINE n == Len(p[2])
           at(a) == IF a[1] = 1 \/ (a[1] = 2 /\ a[2] <= n) THEN a
                    ELSE IF a[1] = 2 THEN <<3, a[2] - n>> ELSE <<a[1] + 1, a[2]>>
           g == [a \in Places(q) |-> at(a)]
<1>0. p[2] \in Frames /\ p[3] \in Frames /\ n \in Nat
  <2>1. p[2] \in Frames /\ p[3] \in Frames
    OBVIOUS
  <2>2. QED
    BY <2>1 DEF Frames
<1>1. ASSUME NEW a \in Places(q)
      PROVE  at(a) \in Places(p) /\ q[a[1]][a[2]] = p[at(a)[1]][at(a)[2]]
  <2>1. /\ a[1] \in 1 .. Len(q) /\ a[2] \in 1 .. Len(q[a[1]]) /\ a = <<a[1], a[2]>>
        /\ a[1] \in Nat /\ a[2] \in Nat
    BY PlaceOf
  <2>2. CASE a[1] = 1
    <3>1. a[1] \in 1 .. Len(p) /\ q[a[1]] = p[a[1]]
      BY <2>1, <2>2
    <3>2. QED
      BY <2>1, <2>2, <3>1, PlaceOf
  <2>3. CASE a[1] = 2
    <3>1. a[2] \in 1 .. Len(p[2] \o p[3]) /\ q[a[1]] = p[2] \o p[3]
      BY <2>1, <2>3
    <3>2. CASE a[2] <= n /\ a[2] \in 1 .. Len(p[2]) /\ (p[2] \o p[3])[a[2]] = p[2][a[2]]
      <4>1. a \in Places(p)
        BY <2>1, <2>3, <3>2, PlaceOf
      <4>2. at(a) = a
        BY <2>3, <3>2
      <4>3. QED
        BY <2>3, <3>1, <3>2, <4>1, <4>2
    <3>3. CASE /\ a[2] > n /\ a[2] - n \in 1 .. Len(p[3])
               /\ (p[2] \o p[3])[a[2]] = p[3][a[2] - n]
      <4>1. 3 \in 1 .. Len(p)
        OBVIOUS
      <4>2. <<3, a[2] - n>> \in Places(p)
        BY <3>3, <4>1, PlaceOf
      <4>3. at(a) = <<3, a[2] - n>>
        BY <1>0, <2>1, <2>3, <3>3
      <4>4. at(a)[1] = 3 /\ at(a)[2] = a[2] - n
        BY <4>3
      <4>5. q[a[1]][a[2]] = p[3][a[2] - n]
        BY <3>1, <3>3
      <4>6. QED
        BY <4>2, <4>3, <4>4, <4>5
    <3>4. QED
      BY <1>0, <3>1, <3>2, <3>3, JoinedAt DEF n
  <2>4. CASE a[1] # 1 /\ a[1] # 2
    <3>1. a[1] + 1 \in 1 .. Len(p) /\ q[a[1]] = p[a[1] + 1]
      BY <2>1, <2>4
    <3>2. <<a[1] + 1, a[2]>> \in Places(p)
      BY <2>1, <3>1, PlaceOf
    <3>3. QED
      BY <2>4, <3>1, <3>2
  <2>5. QED
    BY <2>2, <2>3, <2>4
<1>2. g \in [Places(q) -> Places(p)]
  BY <1>1
<1>3. \A a \in Places(q) : q[a[1]][a[2]] = p[g[a][1]][g[a][2]]
  BY <1>1
<1>4. ASSUME NEW a \in Places(q), NEW b \in Places(q), Before(a, b)
      PROVE  Before(g[a], g[b])
  <2>1. /\ a[1] \in Nat /\ a[2] \in Nat /\ b[1] \in Nat /\ b[2] \in Nat
        /\ a[1] >= 1 /\ b[1] >= 1
    BY PlaceOf
  <2>2. \A c \in Places(q) :
            \/ (c[1] = 1 \/ (c[1] = 2 /\ c[2] <= n)) /\ at(c)[1] = c[1] /\ at(c)[2] = c[2]
            \/ c[1] = 2 /\ c[2] > n /\ at(c)[1] = 3 /\ at(c)[2] = c[2] - n
            \/ c[1] >= 3 /\ at(c)[1] = c[1] + 1 /\ at(c)[2] = c[2]
    <3>1. \A c \in Places(q) : c[1] \in Nat /\ c[2] \in Nat /\ c[1] >= 1
      BY PlaceOf
    <3>2. QED
      BY <1>0, <3>1, SMTT(40)
  <2>3. g[a] = at(a) /\ g[b] = at(b)
    OBVIOUS
  <2> HIDE DEF g, at
  <2>4. a[1] < b[1] \/ (a[1] = b[1] /\ a[2] < b[2])
    BY <1>4 DEF Before
  <2>5. at(a)[1] < at(b)[1] \/ (at(a)[1] = at(b)[1] /\ at(a)[2] < at(b)[2])
    <3>1. CASE a[1] = 2 /\ a[2] > n /\ at(a)[1] = 3 /\ at(a)[2] = a[2] - n
      BY <1>0, <2>1, <2>2, <2>4, <3>1
    <3>2. CASE a[1] >= 3 /\ at(a)[1] = a[1] + 1 /\ at(a)[2] = a[2]
      BY <1>0, <2>1, <2>2, <2>4, <3>2, SMTT(40)
    <3>3. CASE (a[1] = 1 \/ (a[1] = 2 /\ a[2] <= n)) /\ at(a)[1] = a[1] /\ at(a)[2] = a[2]
      BY <1>0, <2>1, <2>2, <2>4, <3>3
    <3>4. QED
      BY <2>2, <3>1, <3>2, <3>3
  <2>6. Before(at(a), at(b))
    BY <2>5 DEF Before
  <2>7. QED
    BY <2>3, <2>6
<1> HIDE DEF g
<1>5. QED
  BY <1>2, <1>3, <1>4, Embedded

(* The transcriber's buffer is transcribed.                                *)
LEMMA ChunkJoined ==
    ASSUME NEW p \in Seq(Frames), NEW q \in Seq(Frames),
           Len(p) >= 2, Len(q) = Len(p), q[1] = p[1] \o p[2], q[2] = <<>>,
           \A i \in 3 .. Len(q) : q[i] = p[i]
    PROVE  KeepsOrder(p, q)
<1> DEFINE n == Len(p[1])
           at(a) == IF a[1] = 1 /\ a[2] > n THEN <<2, a[2] - n>> ELSE a
           g == [a \in Places(q) |-> at(a)]
<1>0. p[1] \in Frames /\ p[2] \in Frames /\ n \in Nat
  <2>1. p[1] \in Frames /\ p[2] \in Frames
    OBVIOUS
  <2>2. QED
    BY <2>1 DEF Frames
<1>1. ASSUME NEW a \in Places(q)
      PROVE  /\ at(a) \in Places(p) /\ q[a[1]][a[2]] = p[at(a)[1]][at(a)[2]]
             /\ a[1] # 2
  <2>1. /\ a[1] \in 1 .. Len(q) /\ a[2] \in 1 .. Len(q[a[1]]) /\ a = <<a[1], a[2]>>
        /\ a[1] \in Nat /\ a[2] \in Nat
    BY PlaceOf
  <2>0. a[1] # 2
    <3>1. Len(<<>>) = 0
      OBVIOUS
    <3>2. QED
      BY <2>1, <3>1
  <2>2. CASE a[1] = 1
    <3>1. a[2] \in 1 .. Len(p[1] \o p[2]) /\ q[a[1]] = p[1] \o p[2]
      BY <2>1, <2>2
    <3>2. CASE a[2] <= n /\ a[2] \in 1 .. Len(p[1]) /\ (p[1] \o p[2])[a[2]] = p[1][a[2]]
      <4>1. a \in Places(p)
        BY <2>1, <2>2, <3>2, PlaceOf
      <4>2. at(a) = a
        BY <1>0, <2>1, <3>2
      <4>3. QED
        BY <2>2, <3>1, <3>2, <4>1, <4>2
    <3>3. CASE /\ a[2] > n /\ a[2] - n \in 1 .. Len(p[2])
               /\ (p[1] \o p[2])[a[2]] = p[2][a[2] - n]
      <4>1. <<2, a[2] - n>> \in Places(p)
        BY <3>3, PlaceOf
      <4>2. at(a) = <<2, a[2] - n>>
        BY <2>2, <3>3
      <4>3. QED
        BY <2>2, <3>1, <3>3, <4>1, <4>2
    <3>4. QED
      BY <1>0, <3>1, <3>2, <3>3, JoinedAt DEF n
  <2>3. CASE a[1] # 1
    <3>1. a[1] \in 1 .. Len(p) /\ q[a[1]] = p[a[1]]
      BY <2>0, <2>1, <2>3
    <3>2. a \in Places(p)
      BY <2>1, <3>1, PlaceOf
    <3>3. QED
      BY <2>0, <2>3, <3>1, <3>2
  <2>4. QED
    BY <2>0, <2>2, <2>3
<1>2. g \in [Places(q) -> Places(p)]
  BY <1>1
<1>3. \A a \in Places(q) : q[a[1]][a[2]] = p[g[a][1]][g[a][2]]
  BY <1>1
<1>4. ASSUME NEW a \in Places(q), NEW b \in Places(q), Before(a, b)
      PROVE  Before(g[a], g[b])
  <2>1. /\ a[1] \in Nat /\ a[2] \in Nat /\ b[1] \in Nat /\ b[2] \in Nat
        /\ a[1] >= 1 /\ b[1] >= 1 /\ a[1] # 2 /\ b[1] # 2
    BY <1>1, PlaceOf
  <2>2. \A c \in Places(q) :
            \/ c[1] = 1 /\ c[2] <= n /\ at(c)[1] = 1 /\ at(c)[2] = c[2]
            \/ c[1] = 1 /\ c[2] > n /\ at(c)[1] = 2 /\ at(c)[2] = c[2] - n
            \/ c[1] >= 3 /\ at(c)[1] = c[1] /\ at(c)[2] = c[2]
    <3>1. \A c \in Places(q) : c[1] \in Nat /\ c[2] \in Nat /\ c[1] >= 1 /\ c[1] # 2
      BY <1>1, PlaceOf
    <3>2. QED
      BY <1>0, <3>1
  <2>3. g[a] = at(a) /\ g[b] = at(b)
    OBVIOUS
  <2> HIDE DEF g, at
  <2>4. Before(at(a), at(b))
    BY <1>0, <1>4, <2>1, <2>2 DEF Before
  <2>5. QED
    BY <2>3, <2>4
<1> HIDE DEF g
<1>5. QED
  BY <1>2, <1>3, <1>4, Embedded

(* The transcriber's buffer is discarded.                                  *)
LEMMA ChunkDropped ==
    ASSUME NEW p \in Seq(Frames), NEW q \in Seq(Frames),
           Len(p) >= 2, Len(q) = Len(p), q[1] = p[1], q[2] = <<>>,
           \A i \in 3 .. Len(q) : q[i] = p[i]
    PROVE  KeepsOrder(p, q)
<1> DEFINE g == [a \in Places(q) |-> a]
<1>1. ASSUME NEW a \in Places(q)
      PROVE  a \in Places(p) /\ q[a[1]] = p[a[1]]
  <2>1. a[1] \in 1 .. Len(q) /\ a[2] \in 1 .. Len(q[a[1]]) /\ a = <<a[1], a[2]>>
    BY PlaceOf
  <2>2. a[1] # 2
    <3>1. Len(<<>>) = 0
      OBVIOUS
    <3>2. QED
      BY <2>1, <3>1
  <2>3. a[1] \in 1 .. Len(p) /\ q[a[1]] = p[a[1]]
    BY <2>1, <2>2
  <2>4. QED
    BY <2>1, <2>3, PlaceOf
<1>2. g \in [Places(q) -> Places(p)]
  BY <1>1
<1>3. \A a \in Places(q) : q[a[1]][a[2]] = p[g[a][1]][g[a][2]]
  BY <1>1
<1>4. \A a, b \in Places(q) : Before(a, b) => Before(g[a], g[b])
  OBVIOUS
<1> HIDE DEF g
<1>5. QED
  BY <1>2, <1>3, <1>4, Embedded

-----------------------------------------------------------------------------
(* The order of the audio.                                                 *)

(* The pieces of a transcript, a transcriber's buffer and a queue.         *)
InPieces(r, c, d) == <<r, c>> \o [i \in DOMAIN d |-> d[i].frames]

(* What they are, one by one.                                              *)
LEMMA PiecesAre ==
    ASSUME NEW r \in Frames, NEW c \in Frames, NEW d \in Seq(Items)
    PROVE  /\ InPieces(r, c, d) \in Seq(Frames) /\ Len(d) \in Nat
           /\ Len(InPieces(r, c, d)) = Len(d) + 2
           /\ InPieces(r, c, d)[1] = r /\ InPieces(r, c, d)[2] = c
           /\ \A i \in 1 .. Len(d) : InPieces(r, c, d)[i + 2] = d[i].frames
<1> DEFINE w == [i \in DOMAIN d |-> d[i].frames]
<1>1. /\ Len(d) \in Nat /\ DOMAIN d = 1 .. Len(d)
      /\ \A i \in 1 .. Len(d) : d[i].frames \in Frames
  BY ItemTypes
<1>2. w \in Seq(Frames) /\ Len(w) = Len(d) /\ \A i \in 1 .. Len(d) : w[i] = d[i].frames
  BY <1>1
<1>3. <<r, c>> \in Seq(Frames) /\ Len(<<r, c>>) = 2 /\ <<r, c>>[1] = r /\ <<r, c>>[2] = c
  OBVIOUS
<1> HIDE DEF w
<1>4. /\ <<r, c>> \o w \in Seq(Frames) /\ Len(<<r, c>> \o w) = Len(w) + 2
      /\ (<<r, c>> \o w)[1] = r /\ (<<r, c>> \o w)[2] = c
      /\ \A i \in 1 .. Len(w) : (<<r, c>> \o w)[i + 2] = w[i]
  BY <1>1, <1>2, <1>3
<1>5. QED
  BY <1>1, <1>2, <1>4 DEF InPieces, w

(* Items put and taken, as pieces.                                         *)
LEMMA PiecesPut ==
    ASSUME NEW r \in Frames, NEW c \in Frames, NEW d \in Seq(Items), NEW item \in Items
    PROVE  LET p == InPieces(r, c, d)
               q == InPieces(r, c, Append(d, item))
           IN  /\ p \in Seq(Frames) /\ q \in Seq(Frames)
               /\ Len(q) = Len(p) + 1 /\ q[Len(q)] = item.frames
               /\ \A i \in 1 .. Len(p) : q[i] = p[i]
<1> DEFINE e == Append(d, item)
           p == InPieces(r, c, d)
           q == InPieces(r, c, e)
<1>1. /\ e \in Seq(Items) /\ Len(e) = Len(d) + 1 /\ Len(d) \in Nat
      /\ \A i \in 1 .. Len(d) : e[i] = d[i]
      /\ e[Len(d) + 1] = item
  OBVIOUS
<1>0. e \in Seq(Items)
  BY <1>1
<1> HIDE DEF e
<1>2. /\ p \in Seq(Frames) /\ Len(p) = Len(d) + 2 /\ p[1] = r /\ p[2] = c
      /\ \A i \in 1 .. Len(d) : p[i + 2] = d[i].frames
  BY PiecesAre
<1>3. /\ q \in Seq(Frames) /\ Len(q) = Len(e) + 2 /\ q[1] = r /\ q[2] = c
      /\ \A i \in 1 .. Len(e) : q[i + 2] = e[i].frames
  BY <1>0, PiecesAre
<1> HIDE DEF p, q
<1>4. Len(q) = Len(p) + 1 /\ q[Len(q)] = item.frames
  <2>1. Len(q) = (Len(d) + 1) + 2 /\ Len(d) + 1 \in 1 .. Len(e)
    BY <1>1, <1>3
  <2>2. q[(Len(d) + 1) + 2] = e[Len(d) + 1].frames
    BY <1>3, <2>1
  <2>3. QED
    BY <1>1, <1>2, <2>1, <2>2
<1>5. ASSUME NEW i \in 1 .. Len(p)
      PROVE  q[i] = p[i]
  <2>1. CASE i \in {1, 2}
    BY <1>2, <1>3, <2>1
  <2>2. CASE i \notin {1, 2}
    <3>1. i - 2 \in 1 .. Len(d) /\ i - 2 \in 1 .. Len(e) /\ i = (i - 2) + 2
      BY <1>1, <1>2, <2>2
    <3>2. p[i] = d[i - 2].frames /\ q[i] = e[i - 2].frames
      BY <1>2, <1>3, <3>1
    <3>3. QED
      BY <1>1, <3>1, <3>2
  <2>3. QED
    BY <2>1, <2>2
<1>6. QED
  BY <1>2, <1>3, <1>4, <1>5 DEF p, q, e

(* The first item of the queue is taken, and the buffer becomes k.         *)
TakenFrom(p, q, c, f, k) ==
    /\ p \in Seq(Frames) /\ q \in Seq(Frames)
    /\ Len(p) >= 3 /\ Len(q) = Len(p) - 1 /\ q[1] = p[1] /\ q[2] = k
    /\ p[2] = c /\ p[3] = f
    /\ \A i \in 3 .. Len(q) : q[i] = p[i + 1]

(* That is what happens to the pieces when the queue loses its head.       *)
LEMMA PiecesTaken ==
    ASSUME NEW r \in Frames, NEW c \in Frames, NEW d \in Seq(Items), d # <<>>,
           NEW k \in Frames
    PROVE  TakenFrom(InPieces(r, c, d), InPieces(r, k, Tail(d)), c, Head(d).frames, k)
<1> DEFINE e == Tail(d)
           p == InPieces(r, c, d)
           q == InPieces(r, k, e)
<1>1. /\ e \in Seq(Items) /\ Len(e) = Len(d) - 1 /\ Len(d) \in Nat \ {0}
      /\ \A i \in 1 .. Len(e) : e[i] = d[i + 1]
      /\ Head(d) = d[1]
  OBVIOUS
<1>0. e \in Seq(Items)
  BY <1>1
<1> HIDE DEF e
<1>2. /\ p \in Seq(Frames) /\ Len(p) = Len(d) + 2 /\ p[1] = r /\ p[2] = c
      /\ \A i \in 1 .. Len(d) : p[i + 2] = d[i].frames
  BY PiecesAre
<1>3. /\ q \in Seq(Frames) /\ Len(q) = Len(e) + 2 /\ q[1] = r /\ q[2] = k
      /\ \A i \in 1 .. Len(e) : q[i + 2] = e[i].frames
  BY <1>0, PiecesAre
<1> HIDE DEF p, q
<1>4. p[3] = Head(d).frames
  <2>1. 1 \in 1 .. Len(d) /\ 1 + 2 = 3
    BY <1>1
  <2>2. QED
    BY <1>1, <1>2, <2>1
<1>5. ASSUME NEW i \in 3 .. Len(q)
      PROVE  q[i] = p[i + 1]
  <2>1. /\ i - 2 \in 1 .. Len(e) /\ i = (i - 2) + 2
        /\ i - 1 \in 1 .. Len(d) /\ i + 1 = (i - 1) + 2 /\ (i - 2) + 1 = i - 1
    BY <1>1, <1>3
  <2>2. q[i] = e[i - 2].frames /\ p[i + 1] = d[i - 1].frames
    BY <1>2, <1>3, <2>1
  <2>3. QED
    BY <1>1, <2>1, <2>2
<1>6. QED
  BY <1>1, <1>2, <1>3, <1>4, <1>5 DEF p, q, e, TakenFrom

(* The buffer is emptied, and the transcript becomes t.                    *)
TranscribedFrom(p, q, r, c, t) ==
    /\ p \in Seq(Frames) /\ q \in Seq(Frames)
    /\ Len(p) >= 2 /\ Len(q) = Len(p) /\ q[1] = t /\ q[2] = <<>>
    /\ p[1] = r /\ p[2] = c
    /\ \A i \in 3 .. Len(q) : q[i] = p[i]

(* That is what happens to the pieces when the buffer is transcribed.      *)
LEMMA PiecesTranscribed ==
    ASSUME NEW r \in Frames, NEW c \in Frames, NEW d \in Seq(Items), NEW t \in Frames
    PROVE  TranscribedFrom(InPieces(r, c, d), InPieces(t, <<>>, d), r, c, t)
<1> DEFINE p == InPieces(r, c, d)
           q == InPieces(t, <<>>, d)
<1>1. /\ p \in Seq(Frames) /\ Len(p) = Len(d) + 2 /\ p[1] = r /\ p[2] = c
      /\ \A i \in 1 .. Len(d) : p[i + 2] = d[i].frames
      /\ Len(d) \in Nat
  BY PiecesAre
<1>2. /\ q \in Seq(Frames) /\ Len(q) = Len(d) + 2 /\ q[1] = t /\ q[2] = <<>>
      /\ \A i \in 1 .. Len(d) : q[i + 2] = d[i].frames
  BY PiecesAre, ItemTypes
<1> HIDE DEF p, q
<1>3. ASSUME NEW i \in 3 .. Len(q)
      PROVE  q[i] = p[i]
  <2>1. i - 2 \in 1 .. Len(d) /\ i = (i - 2) + 2
    BY <1>1, <1>2
  <2>2. QED
    BY <1>1, <1>2, <2>1
<1>4. QED
  BY <1>1, <1>2, <1>3 DEF p, q, TranscribedFrom

Unflushed == {"unborn", "started", "announced", "recording"}

(* Until the recorder flushes its buffer, and until a callback that then   *)
(* still runs puts it, nothing is repeated: a buffer is new when it is put *)
(* the first time.  So the second time, which needs the stop, is the only  *)
(* one at which the sound starts over.                                     *)
OnceOver(s) ==
    /\ StartsOverOnce(Pieces(s))
    /\ Repeats(Pieces(s)) # {} => stopEvent
    /\ rec[s] \in Unflushed \/ callback[s] \in {"entered", "full"} =>
           Repeats(Pieces(s)) = {}

NewBuffer(s) ==
    /\ rec[s] \in Unflushed /\ callback[s] # "put" =>
           \A e \in Sounds(Pieces(s)), i \in DOMAIN buffer[s] : e < buffer[s][i]
    /\ \A e \in Sounds(Pieces(s)) : e <= captured[s]

BufferOrder(s) ==
    /\ \A i \in DOMAIN buffer[s] : buffer[s][i] <= captured[s]
    /\ Increasing(buffer[s])

CallbackTime(s) ==
    callback[s] # "idle" =>
        /\ rec[s] \notin {"unborn", "started", "announced"}
        /\ rec[s] = "recording" \/ stopEvent

OrderInv(s) == OnceOver(s) /\ NewBuffer(s) /\ BufferOrder(s) /\ CallbackTime(s)

(* The pieces change with the queue and the transcriber's buffers.         *)
LEMMA PiecesOf ==
    ASSUME NEW s \in Speakers
    PROVE  /\ Pieces(s) = InPieces(results[s], chunk[s], dataQueue[s])
           /\ Pieces(s)' = InPieces(results'[s], chunk'[s], dataQueue'[s])
  BY DEF Pieces, InPieces

(* A transcriber keeps the order, whatever fails.                          *)
LEMMA TranscriberOrder ==
    ASSUME TypeOK, NEW s \in Speakers, Transcriber(s)
    PROVE  KeepsOrder(Pieces(s), Pieces(s)')
<1> DEFINE p == Pieces(s)
           q == Pieces(s)'
<1>0. /\ dataQueue \in [Speakers -> Seq(Items)] /\ dataQueue[s] \in Seq(Items)
      /\ chunk \in [Speakers -> Frames] /\ chunk[s] \in Frames
      /\ results \in [Speakers -> Frames] /\ results[s] \in Frames
  BY DEF TypeOK, TranscriberTypes
<1>1. CASE UNCHANGED <<dataQueue, chunk, results>>
  <2>1. q = p
    BY <1>1 DEF Pieces
  <2>2. QED
    BY <2>1 DEF KeepsOrder
<1>2. CASE TakeItem(s)
  <2>1. /\ dataQueue[s] # <<>> /\ dataQueue'[s] = Tail(dataQueue[s])
        /\ results'[s] = results[s]
        /\ \/ chunk'[s] = chunk[s]
           \/ chunk'[s] = chunk[s] \o Head(dataQueue[s]).frames
    BY <1>0, <1>2 DEF TakeItem
  <2>2. Head(dataQueue[s]).frames \in Frames
    BY <1>0, <2>1, ItemTypes
  <2>3. CASE chunk'[s] = chunk[s]
    <3>1. /\ p = InPieces(results[s], chunk[s], dataQueue[s])
          /\ q = InPieces(results[s], chunk[s], Tail(dataQueue[s]))
      BY <2>1, <2>3, PiecesOf
    <3> HIDE DEF p, q
    <3>2. TakenFrom(p, q, chunk[s], Head(dataQueue[s]).frames, chunk[s])
      BY <1>0, <2>1, <3>1, PiecesTaken
    <3>3. QED
      BY <3>2, ItemDropped DEF p, q, TakenFrom
  <2>4. CASE chunk'[s] = chunk[s] \o Head(dataQueue[s]).frames
    <3>1. chunk'[s] \in Frames
      BY <1>0, <2>2, <2>4, ItemTypes
    <3>2. /\ p = InPieces(results[s], chunk[s], dataQueue[s])
          /\ q = InPieces(results[s], chunk'[s], Tail(dataQueue[s]))
      BY <2>1, PiecesOf
    <3> HIDE DEF p, q
    <3>3. TakenFrom(p, q, chunk[s], Head(dataQueue[s]).frames, chunk'[s])
      BY <1>0, <2>1, <3>1, <3>2, PiecesTaken
    <3>4. q[2] = p[2] \o p[3]
      BY <2>4, <3>3 DEF TakenFrom
    <3>5. QED
      BY <3>3, <3>4, ItemTaken DEF p, q, TakenFrom
  <2>5. QED
    BY <2>1, <2>3, <2>4
<1>3. CASE Transcribe(s) /\ ~UNCHANGED <<chunk, results>>
  <2>1. /\ dataQueue'[s] = dataQueue[s] /\ chunk'[s] = <<>>
        /\ results'[s] = results[s] \/ results'[s] = results[s] \o chunk[s]
    BY <1>0, <1>3 DEF Transcribe
  <2>2. results'[s] \in Frames
    BY <1>0, <2>1, ItemTypes
  <2>0. /\ p = InPieces(results[s], chunk[s], dataQueue[s])
        /\ q = InPieces(results'[s], <<>>, dataQueue[s])
    BY <2>1, PiecesOf
  <2> HIDE DEF p, q
  <2>3. TranscribedFrom(p, q, results[s], chunk[s], results'[s])
    BY <1>0, <2>0, <2>2, PiecesTranscribed
  <2>4. CASE results'[s] = results[s]
    <3>1. q[1] = p[1]
      BY <2>3, <2>4 DEF TranscribedFrom
    <3>2. QED
      BY <2>3, <3>1, ChunkDropped DEF p, q, TranscribedFrom
  <2>5. CASE results'[s] = results[s] \o chunk[s]
    <3>1. q[1] = p[1] \o p[2]
      BY <2>3, <2>5 DEF TranscribedFrom
    <3>2. QED
      BY <2>3, <3>1, ChunkJoined DEF p, q, TranscribedFrom
  <2>6. QED
    BY <2>1, <2>4, <2>5
<1>4. QED
  BY <1>1, <1>2, <1>3
     DEF Transcriber, StartTranscriber, TakeItem, Transcribe, LeaveLoop, Upload

(* Putting a marker keeps the order; putting audio adds its frames.        *)
LEMMA PutOrder ==
    ASSUME TypeOK, NEW s \in Speakers, NEW item \in Items, Put(s, item),
           UNCHANGED <<chunk, results>>
    PROVE  /\ item.frames = <<>> => KeepsOrder(Pieces(s), Pieces(s)')
           /\ Increasing(item.frames) /\ Repeats(Pieces(s)) = {} =>
                  StartsOverOnce(Pieces(s)')
           /\ /\ Increasing(item.frames) /\ Repeats(Pieces(s)) = {}
              /\ \A e \in Sounds(Pieces(s)), i \in DOMAIN item.frames : e < item.frames[i]
              => Repeats(Pieces(s)') = {}
           /\ \A e \in Sounds(Pieces(s)') :
                  e \in Sounds(Pieces(s)) \/ \E i \in DOMAIN item.frames : e = item.frames[i]
<1> DEFINE p == Pieces(s)
           q == Pieces(s)'
           f == item.frames
<1>0. /\ dataQueue \in [Speakers -> Seq(Items)] /\ dataQueue[s] \in Seq(Items)
      /\ chunk[s] \in Frames /\ results[s] \in Frames /\ f \in Frames
  BY ItemTypes DEF TypeOK, TranscriberTypes
<1>1. dataQueue'[s] = Append(dataQueue[s], item)
  BY <1>0 DEF Put
<1>2. /\ p \in Seq(Frames) /\ q \in Seq(Frames)
      /\ Len(q) = Len(p) + 1 /\ q[Len(q)] = f
      /\ \A i \in 1 .. Len(p) : q[i] = p[i]
  <2>1. /\ p = InPieces(results[s], chunk[s], dataQueue[s])
        /\ q = InPieces(results[s], chunk[s], Append(dataQueue[s], item))
    BY <1>1, PiecesOf
  <2> DEFINE u == InPieces(results[s], chunk[s], dataQueue[s])
             v == InPieces(results[s], chunk[s], Append(dataQueue[s], item))
  <2>2. /\ u \in Seq(Frames) /\ v \in Seq(Frames)
        /\ Len(v) = Len(u) + 1 /\ v[Len(v)] = f
        /\ \A i \in 1 .. Len(u) : v[i] = u[i]
    BY <1>0, PiecesPut
  <2> HIDE DEF p, q
  <2>3. p = u /\ q = v
    BY <2>1
  <2> HIDE DEF u, v
  <2>4. QED
    BY <2>2, <2>3
<1>3. f = <<>> => KeepsOrder(p, q)
  <2> HIDE DEF p, q
  <2>1. QED
    BY <1>2, SilenceBehind
<1> HIDE DEF f
<1>4. /\ Increasing(f) /\ Repeats(p) = {} => StartsOverOnce(q)
      /\ Increasing(f) /\ Repeats(p) = {}
         /\ (\A e \in Sounds(p), i \in DOMAIN f : e < f[i]) => Repeats(q) = {}
  <2> HIDE DEF p, q
  <2>1. QED
    BY <1>0, <1>2, PieceBehind
<1>5. \A e \in Sounds(q) : e \in Sounds(p) \/ \E i \in DOMAIN f : e = f[i]
  <2> HIDE DEF p, q
  <2>1. QED
    BY <1>0, <1>2, SoundsBehind
<1>6. QED
  BY <1>3, <1>4, <1>5 DEF f

(* What is left of a recorder's steps is to say which buffer they put.     *)
LEMMA RecorderOrder ==
    ASSUME TypeOK, NEW s \in Speakers, OrderInv(s), Recorder(s) \/ Callback(s)
    PROVE  OrderInv(s)'
<1> DEFINE p == Pieces(s)
           q == Pieces(s)'
<1>0. /\ buffer \in [Speakers -> Frames] /\ buffer[s] \in Frames
      /\ captured \in [Speakers -> Nat] /\ captured[s] \in Nat
      /\ rec \in [Speakers -> {"unborn", "started", "announced", "recording",
                               "flushed", "ended", "done"}]
      /\ callback \in [Speakers -> {"idle", "entered", "full", "put"}]
  BY DEF TypeOK, RecorderTypes
<1>1. UNCHANGED <<stopEvent, chunk, results>>
  BY DEF Recorder, Callback, Announce, OpenStream, FlushBuffer, AnnounceEnd,
         CloseStream, EnterCallback, WriteFrame, PutFullBuffer, ClearBuffer, trVars, mainVars
<1>2. UNCHANGED dataQueue => KeepsOrder(p, q)
  <2>1. UNCHANGED dataQueue => q = p
    BY <1>1 DEF Pieces
  <2>2. QED
    BY <2>1 DEF KeepsOrder
<1>3. ASSUME Put(s, StartItem) \/ Put(s, EndItem)
      PROVE  KeepsOrder(p, q)
  <2>1. StartItem.frames = <<>> /\ EndItem.frames = <<>>
    BY DEF StartItem, EndItem
  <2>2. QED
    BY <1>1, <1>3, <2>1, ItemTypes, PutOrder
<1>4. CASE Announce(s) \/ OpenStream(s) \/ AnnounceEnd(s) \/ CloseStream(s)
  <2>1. KeepsOrder(p, q)
    BY <1>2, <1>3, <1>4 DEF Announce, OpenStream, AnnounceEnd, CloseStream
  <2>2. /\ UNCHANGED <<callback, captured, buffer>>
        /\ rec'[s] \in Unflushed => rec[s] \in Unflushed
        /\ callback[s] # "idle" =>
               /\ rec'[s] \notin {"unborn", "started", "announced"}
               /\ rec'[s] = "recording" \/ stopEvent
    <3>1. /\ UNCHANGED <<callback, captured, buffer>>
          /\ \/ rec[s] = "started" /\ rec'[s] \in {"announced", "done"}
             \/ rec[s] = "announced" /\ rec'[s] \in {"recording", "flushed"}
             \/ rec[s] = "flushed" /\ rec'[s] = "ended"
             \/ rec[s] = "ended" /\ rec'[s] = "done" /\ callback[s] = "idle"
      BY <1>0, <1>4 DEF Announce, OpenStream, AnnounceEnd, CloseStream
    <3>2. rec'[s] \in Unflushed => rec[s] \in Unflushed
      BY <3>1 DEF Unflushed
    <3>3. CallbackTime(s)
      BY DEF OrderInv
    <3>4. QED
      BY <3>1, <3>2, <3>3 DEF CallbackTime
  <2> HIDE DEF p, q
  <2>3. /\ StartsOverOnce(q)
        /\ Repeats(q) # {} => stopEvent
        /\ rec'[s] \in Unflushed \/ callback[s] \in {"entered", "full"} => Repeats(q) = {}
    BY <2>1, <2>2 DEF OrderInv, OnceOver, KeepsOrder, p
  <2>4. Sounds(q) \subseteq Sounds(p)
    BY <2>1 DEF KeepsOrder
  <2>5. /\ \A e \in Sounds(q) : e <= captured'[s]
        /\ rec'[s] \in Unflushed /\ callback'[s] # "put" =>
               \A e \in Sounds(q), i \in DOMAIN buffer'[s] : e < buffer'[s][i]
    BY <2>2, <2>4 DEF OrderInv, NewBuffer, p
  <2>6. /\ \A i \in DOMAIN buffer'[s] : buffer'[s][i] <= captured'[s]
        /\ Increasing(buffer'[s])
    BY <2>2 DEF OrderInv, BufferOrder
  <2>7. QED
    <3>1. OnceOver(s)'
      BY <1>1, <2>2, <2>3 DEF OnceOver, q
    <3>2. NewBuffer(s)'
      BY <2>5 DEF NewBuffer, q
    <3>3. BufferOrder(s)'
      BY <2>6 DEF BufferOrder
    <3>4. CallbackTime(s)'
      BY <1>1, <2>2 DEF CallbackTime
    <3>5. QED
      BY <3>1, <3>2, <3>3, <3>4 DEF OrderInv
<1>5. ASSUME Put(s, AudioItem(buffer[s])), Repeats(p) = {}, UNCHANGED <<buffer, captured>>
      PROVE  /\ StartsOverOnce(q)
             /\ (\A e \in Sounds(p), i \in DOMAIN buffer[s] : e < buffer[s][i])
                    => Repeats(q) = {}
             /\ \A e \in Sounds(q) : e <= captured[s]
  <2>1. AudioItem(buffer[s]) \in Items /\ AudioItem(buffer[s]).frames = buffer[s]
    BY <1>0, ItemTypes DEF AudioItem
  <2>2. Increasing(buffer[s])
    BY DEF OrderInv, BufferOrder
  <2>3. /\ StartsOverOnce(q)
        /\ (\A e \in Sounds(p), i \in DOMAIN buffer[s] : e < buffer[s][i]) => Repeats(q) = {}
        /\ \A e \in Sounds(q) :
               e \in Sounds(p) \/ \E i \in DOMAIN buffer[s] : e = buffer[s][i]
    <3> DEFINE item == AudioItem(buffer[s])
    <3>1. item \in Items /\ Put(s, item) /\ item.frames = buffer[s] /\ Increasing(item.frames)
      BY <1>5, <2>1, <2>2
    <3> HIDE DEF item
    <3>2. /\ StartsOverOnce(q)
          /\ (\A e \in Sounds(p), i \in DOMAIN item.frames : e < item.frames[i])
                 => Repeats(q) = {}
          /\ \A e \in Sounds(q) :
                 e \in Sounds(p) \/ \E i \in DOMAIN item.frames : e = item.frames[i]
      BY <1>1, <1>5, <3>1, PutOrder
    <3>3. QED
      BY <3>1, <3>2
  <2>4. /\ \A e \in Sounds(p) : e <= captured[s]
        /\ \A i \in DOMAIN buffer[s] : buffer[s][i] <= captured[s]
    BY DEF OrderInv, NewBuffer, BufferOrder
  <2> HIDE DEF p, q
  <2>5. QED
    BY <2>3, <2>4
<1>6. CASE FlushBuffer(s)
  <2>1. /\ UNCHANGED <<callback, captured, buffer>> /\ stopEvent
        /\ rec[s] = "recording" /\ rec'[s] = "flushed"
    BY <1>0, <1>6 DEF FlushBuffer
  <2>2. Repeats(p) = {}
    BY <2>1 DEF OrderInv, OnceOver, Unflushed
  <2>3. CASE UNCHANGED dataQueue
    <3>1. KeepsOrder(p, q)
      BY <1>2, <2>3
    <3> HIDE DEF p, q
    <3>2. Repeats(q) = {} /\ StartsOverOnce(q) /\ Sounds(q) \subseteq Sounds(p)
      BY <2>2, <3>1 DEF KeepsOrder, StartsOverOnce
    <3>3. QED
      BY <1>1, <2>1, <3>2
         DEF OrderInv, OnceOver, NewBuffer, BufferOrder, CallbackTime, Unflushed, p, q
  <2>4. CASE Put(s, AudioItem(buffer[s]))
    <3>1. /\ StartsOverOnce(q)
          /\ (\A e \in Sounds(p), i \in DOMAIN buffer[s] : e < buffer[s][i])
                 => Repeats(q) = {}
          /\ \A e \in Sounds(q) : e <= captured[s]
      BY <1>5, <2>1, <2>2, <2>4
    <3> HIDE DEF p, q
    <3>2. callback[s] # "put" => Repeats(q) = {}
      BY <2>1, <3>1 DEF OrderInv, NewBuffer, Unflushed, p
    <3>3. QED
      BY <1>1, <2>1, <3>1, <3>2
         DEF OrderInv, OnceOver, NewBuffer, BufferOrder, CallbackTime, Unflushed, q
  <2>5. QED
    BY <1>6, <2>3, <2>4 DEF FlushBuffer
<1>7. CASE EnterCallback(s)
  <2>1. /\ UNCHANGED <<rec, captured, buffer, dataQueue>>
        /\ rec[s] = "recording" /\ callback[s] = "idle" /\ callback'[s] = "entered"
    BY <1>0, <1>7 DEF EnterCallback
  <2>2. KeepsOrder(p, q)
    BY <1>2, <2>1
  <2> HIDE DEF p, q
  <2>3. Repeats(q) = {} /\ StartsOverOnce(q) /\ Sounds(q) \subseteq Sounds(p)
    BY <2>1, <2>2 DEF OrderInv, OnceOver, Unflushed, KeepsOrder, StartsOverOnce, p
  <2>4. QED
    BY <1>1, <2>1, <2>3
       DEF OrderInv, OnceOver, NewBuffer, BufferOrder, CallbackTime, Unflushed, p, q
<1>8. CASE WriteFrame(s)
  <2>1. /\ UNCHANGED <<rec, dataQueue>>
        /\ captured'[s] = captured[s] + 1 /\ buffer'[s] = Append(buffer[s], captured[s] + 1)
        /\ callback[s] = "entered" /\ callback'[s] \in {"full", "idle"}
    BY <1>0, <1>8 DEF WriteFrame
  <2>2. KeepsOrder(p, q)
    BY <1>2, <2>1
  <2>3. /\ DOMAIN buffer'[s] = 1 .. Len(buffer[s]) + 1 /\ Len(buffer[s]) \in Nat
        /\ DOMAIN buffer[s] = 1 .. Len(buffer[s])
        /\ \A i \in 1 .. Len(buffer[s]) :
               buffer'[s][i] = buffer[s][i] /\ buffer[s][i] \in Nat
        /\ buffer'[s][Len(buffer[s]) + 1] = captured[s] + 1
    BY <1>0, <2>1 DEF Frames
  <2> HIDE DEF p, q
  <2>4. /\ Repeats(q) = {} /\ StartsOverOnce(q) /\ Sounds(q) \subseteq Sounds(p)
        /\ Sounds(p) \subseteq Nat
    <3>1. Repeats(q) = {} /\ StartsOverOnce(q) /\ Sounds(q) \subseteq Sounds(p)
      BY <2>1, <2>2 DEF OrderInv, OnceOver, KeepsOrder, StartsOverOnce, p
    <3>2. p \in Seq(Frames)
      BY PiecesAre, PiecesOf DEF TypeOK, TranscriberTypes, p
    <3>3. QED
      BY <3>1, <3>2, PlaceOf DEF Sounds
  <2>5. /\ \A e \in Sounds(p) : e <= captured[s]
        /\ \A i \in DOMAIN buffer[s] : buffer[s][i] <= captured[s]
        /\ Increasing(buffer[s])
        /\ rec[s] \in Unflushed =>
               \A e \in Sounds(p), i \in DOMAIN buffer[s] : e < buffer[s][i]
        /\ rec[s] \notin {"unborn", "started", "announced"}
        /\ rec[s] = "recording" \/ stopEvent
    BY <2>1 DEF OrderInv, NewBuffer, BufferOrder, CallbackTime, p
  <2>6. /\ Increasing(buffer'[s])
        /\ \A i \in DOMAIN buffer'[s] : buffer'[s][i] <= captured'[s]
    <3>1. \A i \in DOMAIN buffer'[s] : buffer'[s][i] <= captured'[s]
      BY <1>0, <2>1, <2>3, <2>5
    <3>2. ASSUME NEW i \in DOMAIN buffer'[s], NEW j \in DOMAIN buffer'[s], i < j
          PROVE  buffer'[s][i] < buffer'[s][j]
      <4>1. i \in 1 .. Len(buffer[s]) /\ buffer'[s][i] = buffer[s][i]
            /\ buffer[s][i] <= captured[s] /\ buffer[s][i] \in Nat
        BY <2>3, <2>5, <3>2
      <4>2. CASE j = Len(buffer[s]) + 1
        BY <1>0, <2>3, <4>1, <4>2
      <4>3. CASE j # Len(buffer[s]) + 1
        <5>1. j \in 1 .. Len(buffer[s])
          BY <2>3, <4>3
        <5>2. QED
          BY <2>3, <2>5, <3>2, <4>1, <5>1 DEF Increasing
      <4>4. QED
        BY <4>2, <4>3
    <3>3. QED
      BY <3>1, <3>2 DEF Increasing
  <2>7. /\ \A e \in Sounds(q) : e <= captured'[s]
        /\ rec[s] \in Unflushed =>
               \A e \in Sounds(q), i \in DOMAIN buffer'[s] : e < buffer'[s][i]
    <3>1. ASSUME NEW e \in Sounds(q)
          PROVE  e \in Sounds(p) /\ e \in Nat /\ e <= captured[s] /\ e <= captured'[s]
      BY <1>0, <2>1, <2>4, <2>5
    <3>2. ASSUME rec[s] \in Unflushed, NEW e \in Sounds(q), NEW i \in DOMAIN buffer'[s]
          PROVE  e < buffer'[s][i]
      <4>1. CASE i = Len(buffer[s]) + 1
        BY <1>0, <2>3, <3>1, <4>1
      <4>2. CASE i # Len(buffer[s]) + 1
        BY <2>3, <2>5, <3>1, <3>2, <4>2
      <4>3. QED
        BY <4>1, <4>2
    <3>3. QED
      BY <3>1, <3>2
  <2>8. QED
    BY <1>1, <2>1, <2>4, <2>5, <2>6, <2>7
       DEF OrderInv, OnceOver, NewBuffer, BufferOrder, CallbackTime, q
<1>9. CASE PutFullBuffer(s)
  <2>1. UNCHANGED <<rec, captured, buffer>> /\ callback[s] = "full"
    BY <1>9 DEF PutFullBuffer
  <2>2. Repeats(p) = {} /\ (rec[s] = "recording" \/ stopEvent)
        /\ rec[s] \notin {"unborn", "started", "announced"}
    BY <2>1 DEF OrderInv, OnceOver, CallbackTime
  <2>3. CASE callback' = [callback EXCEPT ![s] = "idle"] /\ UNCHANGED dataQueue
    <3>1. KeepsOrder(p, q) /\ callback'[s] = "idle"
      BY <1>0, <1>2, <2>3
    <3> HIDE DEF p, q
    <3>2. Repeats(q) = {} /\ StartsOverOnce(q) /\ Sounds(q) \subseteq Sounds(p)
      BY <2>2, <3>1 DEF KeepsOrder, StartsOverOnce
    <3>3. QED
      BY <1>1, <2>1, <3>1, <3>2
         DEF OrderInv, OnceOver, NewBuffer, BufferOrder, CallbackTime, p, q
  <2>4. CASE callback' = [callback EXCEPT ![s] = "put"] /\ Put(s, AudioItem(buffer[s]))
    <3>1. /\ StartsOverOnce(q)
          /\ (\A e \in Sounds(p), i \in DOMAIN buffer[s] : e < buffer[s][i])
                 => Repeats(q) = {}
          /\ \A e \in Sounds(q) : e <= captured[s]
          /\ callback'[s] = "put"
      BY <1>0, <1>5, <2>1, <2>2, <2>4
    <3> HIDE DEF p, q
    <3>2. rec[s] \in Unflushed => Repeats(q) = {}
      BY <2>1, <3>1 DEF OrderInv, NewBuffer, p
    <3>3. rec[s] = "recording" => rec[s] \in Unflushed
      BY DEF Unflushed
    <3>4. QED
      BY <1>1, <2>1, <2>2, <3>1, <3>2, <3>3
         DEF OrderInv, OnceOver, NewBuffer, BufferOrder, CallbackTime, q
  <2>5. QED
    BY <1>9, <2>3, <2>4 DEF PutFullBuffer
<1>10. CASE ClearBuffer(s)
  <2>1. /\ UNCHANGED <<rec, captured, dataQueue>>
        /\ callback'[s] = "idle" /\ buffer'[s] = <<>>
    BY <1>0, <1>10 DEF ClearBuffer
  <2>2. KeepsOrder(p, q)
    BY <1>2, <2>1
  <2>3. DOMAIN buffer'[s] = {}
    BY <2>1
  <2> HIDE DEF p, q
  <2>4. /\ StartsOverOnce(q)
        /\ Repeats(q) # {} => stopEvent
        /\ rec[s] \in Unflushed => Repeats(q) = {}
        /\ Sounds(q) \subseteq Sounds(p)
    BY <2>2 DEF OrderInv, OnceOver, KeepsOrder, p
  <2>5. Increasing(buffer'[s])
    BY <2>3 DEF Increasing
  <2>6. \A e \in Sounds(q) : e <= captured'[s]
    BY <2>1, <2>4 DEF OrderInv, NewBuffer, p
  <2>7. callback'[s] \notin {"entered", "full", "put"}
    BY <2>1
  <2>8. QED
    <3>1. OnceOver(s)'
      BY <1>1, <2>1, <2>4, <2>7 DEF OnceOver, q
    <3>2. NewBuffer(s)'
      BY <2>3, <2>6 DEF NewBuffer, q
    <3>3. BufferOrder(s)'
      BY <2>3, <2>5 DEF BufferOrder
    <3>4. CallbackTime(s)'
      BY <2>1 DEF CallbackTime
    <3>5. QED
      BY <3>1, <3>2, <3>3, <3>4 DEF OrderInv
<1>11. QED
  BY <1>4, <1>6, <1>7, <1>8, <1>9, <1>10 DEF Recorder, Callback

(* Before the recording is started no recorder and no callback runs.       *)
StartInv == main = "start" =>
                \A s \in Speakers : rec[s] = "unborn" /\ callback[s] = "idle"

(* No other step starts one.                                               *)
LEMMA StartStep == StartInv /\ [Next]_vars => StartInv'
<1> SUFFICES ASSUME StartInv, [Next]_vars, main' = "start"
             PROVE  UNCHANGED <<main, rec, callback>>
  BY DEF StartInv
<1>1. main = "start"
  BY DEF Next, Main, StartRecording, FetchConfig, Stop, JoinThread, NotifyLeverance, Exit,
         LeveranceAnswers, RemoveFlag, vars, mainVars, Recorder, Callback, Announce, OpenStream,
         FlushBuffer, AnnounceEnd, CloseStream, EnterCallback, WriteFrame, PutFullBuffer,
         ClearBuffer, Transcriber, StartTranscriber, TakeItem, Transcribe, LeaveLoop, Upload
<1>2. \A s \in Speakers : ~Recorder(s) /\ ~Callback(s)
  BY <1>1 DEF StartInv, Recorder, Callback, Announce, OpenStream, FlushBuffer, AnnounceEnd,
              CloseStream, EnterCallback, WriteFrame, PutFullBuffer, ClearBuffer
<1>3. QED
  BY <1>1, <1>2
     DEF Next, Main, StartRecording, FetchConfig, Stop, JoinThread, NotifyLeverance, Exit,
         LeveranceAnswers, RemoveFlag, vars, mainVars, recVars, Transcriber, StartTranscriber,
         TakeItem, Transcribe, LeaveLoop, Upload

(* Every step keeps the order of both speakers' audio.                     *)
LEMMA OrderStep ==
    TypeOK /\ StartInv /\ (\A s \in Speakers : OrderInv(s)) /\ [Next]_vars
        => (\A s \in Speakers : OrderInv(s))'
<1> SUFFICES ASSUME TypeOK, StartInv, \A s \in Speakers : OrderInv(s), [Next]_vars,
                    NEW s \in Speakers
             PROVE  OrderInv(s)'
  OBVIOUS
<1>1. ASSUME UNCHANGED <<rec[s], callback[s], captured[s], buffer[s]>>,
             KeepsOrder(Pieces(s), Pieces(s)'), stopEvent => stopEvent'
      PROVE  OrderInv(s)'
  <2> DEFINE p == Pieces(s)
             q == Pieces(s)'
  <2>1. KeepsOrder(p, q)
    BY <1>1
  <2> HIDE DEF p, q
  <2>2. /\ StartsOverOnce(q)
        /\ Repeats(q) # {} => stopEvent'
        /\ rec[s] \in Unflushed \/ callback[s] \in {"entered", "full"} => Repeats(q) = {}
        /\ Sounds(q) \subseteq Sounds(p)
    BY <1>1, <2>1 DEF OrderInv, OnceOver, KeepsOrder, p
  <2>3. /\ \A e \in Sounds(q) : e <= captured'[s]
        /\ rec[s] \in Unflushed /\ callback[s] # "put" =>
               \A e \in Sounds(q), i \in DOMAIN buffer'[s] : e < buffer'[s][i]
    BY <1>1, <2>2 DEF OrderInv, NewBuffer, p
  <2>4. /\ \A i \in DOMAIN buffer'[s] : buffer'[s][i] <= captured'[s]
        /\ Increasing(buffer'[s])
        /\ callback[s] # "idle" =>
               /\ rec[s] \notin {"unborn", "started", "announced"}
               /\ rec[s] = "recording" \/ stopEvent'
    BY <1>1 DEF OrderInv, BufferOrder, CallbackTime
  <2>5. QED
    <3>1. OnceOver(s)'
      BY <1>1, <2>2 DEF OnceOver, q
    <3>2. NewBuffer(s)'
      BY <1>1, <2>3 DEF NewBuffer, q
    <3>3. BufferOrder(s)'
      BY <2>4 DEF BufferOrder
    <3>4. CallbackTime(s)'
      BY <1>1, <2>4 DEF CallbackTime
    <3>5. QED
      BY <3>1, <3>2, <3>3, <3>4 DEF OrderInv
<1>2. ASSUME UNCHANGED <<dataQueue[s], chunk[s], results[s]>>
      PROVE  Pieces(s)' = Pieces(s)
  BY <1>2, PiecesOf
<1>3. \A p : KeepsOrder(p, p)
  BY DEF KeepsOrder
<1>4. CASE StartRecording
  <2>1. /\ rec'[s] = "started" /\ UNCHANGED <<callback, captured, buffer, stopEvent>>
        /\ UNCHANGED <<dataQueue, chunk, results>>
    BY <1>4 DEF StartRecording, trVars
  <2>2. Pieces(s)' = Pieces(s)
    BY <1>2, <2>1
  <2>3. rec[s] = "unborn"
    BY <1>4 DEF StartInv, StartRecording
  <2>4. QED
    BY <2>1, <2>2, <2>3
       DEF OrderInv, OnceOver, NewBuffer, BufferOrder, CallbackTime, Unflushed
<1>5. CASE FetchConfig \/ Stop \/ JoinThread \/ NotifyLeverance \/ Exit
           \/ LeveranceAnswers \/ RemoveFlag \/ UNCHANGED vars
  <2>1. /\ UNCHANGED <<rec, callback, captured, buffer, dataQueue, chunk, results>>
        /\ stopEvent => stopEvent'
    BY <1>5 DEF FetchConfig, Stop, JoinThread, NotifyLeverance, Exit, LeveranceAnswers,
                RemoveFlag, vars, mainVars, recVars, trVars
  <2>2. QED
    BY <1>1, <1>2, <1>3, <2>1
<1>6. ASSUME NEW t \in Speakers, Recorder(t) \/ Callback(t)
      PROVE  OrderInv(s)'
  <2>1. CASE t = s
    BY <1>6, <2>1, RecorderOrder
  <2>2. CASE t # s
    <3>1. UNCHANGED <<rec[s], callback[s], captured[s], buffer[s], dataQueue[s]>>
      BY <1>6, <2>2 DEF TypeOK, RecorderTypes, Put, Recorder, Callback, Announce, OpenStream,
           FlushBuffer, AnnounceEnd, CloseStream, EnterCallback, WriteFrame, PutFullBuffer,
           ClearBuffer
    <3>2. UNCHANGED <<chunk, results, stopEvent>>
      BY <1>6 DEF Recorder, Callback, Announce, OpenStream, FlushBuffer, AnnounceEnd,
           CloseStream, EnterCallback, WriteFrame, PutFullBuffer, ClearBuffer, trVars, mainVars
    <3>3. QED
      BY <1>1, <1>2, <1>3, <3>1, <3>2
  <2>3. QED
    BY <2>1, <2>2
<1>7. ASSUME NEW t \in Speakers, Transcriber(t)
      PROVE  OrderInv(s)'
  <2>1. UNCHANGED <<rec, callback, captured, buffer, stopEvent>>
    BY <1>7 DEF Transcriber, StartTranscriber, TakeItem, Transcribe, LeaveLoop, Upload,
                recVars, mainVars
  <2>2. CASE t = s
    BY <1>1, <1>7, <2>1, <2>2, TranscriberOrder
  <2>3. CASE t # s
    <3>1. UNCHANGED <<dataQueue[s], chunk[s], results[s]>>
      BY <1>7, <2>3 DEF TypeOK, TranscriberTypes, Transcriber, StartTranscriber, TakeItem,
           Transcribe, LeaveLoop, Upload
    <3>2. QED
      BY <1>1, <1>2, <1>3, <2>1, <3>1
  <2>4. QED
    BY <2>2, <2>3
<1>8. QED
  BY <1>4, <1>5, <1>6, <1>7 DEF Next, Main

(* The transcript follows the order of the sound (AudioInOrder), for any   *)
(* number of frames, sizes of buffers and chunks, and every set of         *)
(* failures.                                                               *)
THEOREM AudioKeepsOrder == Spec => []AudioInOrder
<1>1. Init => \A s \in Speakers : OrderInv(s)
  <2> SUFFICES ASSUME Init, NEW s \in Speakers PROVE OrderInv(s)
    OBVIOUS
  <2>1. /\ buffer[s] = <<>> /\ callback[s] = "idle" /\ captured[s] = 0
        /\ Pieces(s) = InPieces(<<>>, <<>>, <<>>)
    BY PiecesOf DEF Init
  <2> DEFINE p == Pieces(s)
  <2>2. p \in Seq(Frames) /\ Len(p) = 2 /\ p[1] = <<>> /\ p[2] = <<>>
    <3> DEFINE d == <<>>
    <3>1. d \in Seq(Items) /\ Len(d) = 0 /\ <<>> \in Frames
      BY ItemTypes
    <3>2. p = InPieces(<<>>, <<>>, d)
      BY <2>1
    <3> HIDE DEF p, d
    <3>3. /\ InPieces(<<>>, <<>>, d) \in Seq(Frames) /\ Len(InPieces(<<>>, <<>>, d)) = Len(d) + 2
          /\ InPieces(<<>>, <<>>, d)[1] = <<>> /\ InPieces(<<>>, <<>>, d)[2] = <<>>
      BY <3>1, PiecesAre
    <3>4. QED
      BY <3>1, <3>2, <3>3
  <2> HIDE DEF p
  <2>3. Places(p) = {}
    <3>1. \A i \in 1 .. Len(p) : 1 .. Len(p[i]) = {}
      BY <2>2
    <3>2. QED
      BY <2>2, <3>1, PlaceOf
  <2>4. Repeats(p) = {} /\ Sounds(p) = {}
    BY <2>3 DEF Repeats, Sounds
  <2>5. DOMAIN buffer[s] = {}
    BY <2>1
  <2>6. QED
    BY <2>1, <2>4, <2>5
       DEF OrderInv, OnceOver, NewBuffer, BufferOrder, CallbackTime, StartsOverOnce, Increasing, p
<1>2. (\A s \in Speakers : OrderInv(s)) => AudioInOrder
  BY DEF OrderInv, OnceOver, StartsOverOnce, AudioInOrder
<1>3. Init => StartInv
  BY DEF Init, StartInv
<1>4. QED
  BY <1>1, <1>2, <1>3, OrderStep, StartStep, TypeCorrect, PTL DEF Spec
=============================================================================
