--------------------------- MODULE AzureAudioProofs ---------------------------
(* Proofs about AzureAudio: the flag file that its processes share, the    *)
(* agent's status messages, and the segments that are announced.           *)
EXTENDS AzureAudio, SequenceTheorems, TLAPS

FlagInv == FlagTypeOK /\ FlagMeansRecording

(***************************************************************************)
(* No file at first. *)
(***************************************************************************)
LEMMA FlagInitially == FlagInit => FlagInv
  BY FlagFileAssumption DEF FlagInit, FlagInv, FlagTypeOK, FlagMeansRecording, Calls, NoFlag

(***************************************************************************)
(* What Genesys does never moves a recording process that wrote the file.  *)
(***************************************************************************)
LEMMA GenesysKeepsFlag ==
  ASSUME NEW c \in Calls, FlagInv, Genesys(c)
  PROVE  FlagInv'
<1> USE FlagFileAssumption DEF FlagInv, FlagTypeOK, FlagMeansRecording, Calls, NoFlag
<1>1. CASE Start(c)
  BY <1>1 DEF Start
<1>2. CASE EndCall(c)
  BY <1>2 DEF EndCall
<1>3. CASE RemoveFlag(c)
  BY <1>3 DEF RemoveFlag, RemoveFlagFile
<1> QED
  BY <1>1, <1>2, <1>3 DEF Genesys

(***************************************************************************)
(* A recording process leaves the states in which the file may be its own  *)
(* only killed, with the file removed, or because its removal failed.      *)
(***************************************************************************)
LEMMA ProcessKeepsFlag ==
  ASSUME NEW c \in Calls, FlagInv,
         CreateFlag(c) \/ Monitor(c) \/ Stop(c) \/ Exit(c) \/ Kill(c)
  PROVE  FlagInv'
<1> USE FlagFileAssumption DEF FlagInv, FlagTypeOK, FlagMeansRecording, Calls, NoFlag
<1>1. CASE CreateFlag(c)
  BY <1>1 DEF CreateFlag
<1>2. CASE Monitor(c)
  BY <1>2 DEF Monitor
<1>3. CASE Stop(c)
  BY <1>3 DEF Stop, RemoveFlagFile
<1>4. CASE Exit(c)
  <2>1. proc[c] = "joining" /\ (flag = c => "remove" \in Mishaps[c])
    BY <1>4 DEF Exit
  <2> QED
    BY <1>4, <2>1 DEF Exit
<1>5. CASE Kill(c)
  BY <1>5 DEF Kill
<1> QED
  BY <1>1, <1>2, <1>3, <1>4, <1>5

(***************************************************************************)
(* The threads of the processes leave the file and the processes alone.    *)
(***************************************************************************)
LEMMA ThreadsKeepFlag ==
  ASSUME NEW t \in Streams, Recorder(t) \/ PutBuffer(t) \/ Storage(t)
  PROVE  UNCHANGED flagVars
<1>1. CASE Recorder(t) \/ PutBuffer(t)
  BY <1>1 DEF Recorder, PutBuffer, Open, Flush, AnnounceEnd, Record
<1>2. CASE Storage(t)
  BY <1>2 DEF Storage, Create, ClearStatus, SendStatus, TakeItem, LeaveLoop, EndDrain, Upload,
              Announce, AnnounceAs, FailToAnnounce, GoTo
<1> QED
  BY <1>1, <1>2

(***************************************************************************)
(* So the file and the processes go together in every state.               *)
(***************************************************************************)
LEMMA FlagAlways == Spec => []FlagInv
<1>1. Init => FlagInv
  BY FlagInitially DEF Init
<1>2. FlagInv /\ [Next]_vars => FlagInv'
  <2> SUFFICES ASSUME FlagInv, [Next]_vars PROVE FlagInv'
    OBVIOUS
  <2>1. CASE UNCHANGED flagVars
    BY <2>1 DEF flagVars, FlagInv, FlagTypeOK, FlagMeansRecording
  <2>2. ASSUME NEW c \in Calls, Genesys(c) PROVE FlagInv'
    BY <2>2, GenesysKeepsFlag
  <2>3. ASSUME NEW c \in Calls, Main(c) \/ JoinsExpire(c) \/ (Kill(c) /\ Gone(c)) PROVE FlagInv'
    BY <2>3, ProcessKeepsFlag DEF Main, JoinAll, JoinsExpire
  <2>4. ASSUME NEW t \in Streams, Recorder(t) \/ PutBuffer(t) \/ Storage(t) PROVE FlagInv'
    BY <2>1, <2>4, ThreadsKeepFlag
  <2> QED
    BY <2>1, <2>2, <2>3, <2>4 DEF Next, vars
<1> QED
  BY <1>1, <1>2, PTL DEF Spec

(***************************************************************************)
(* FlagMeansRecording holds for any number of calls and every mishap: the  *)
(* agent's flag file, while it is there, belongs to a process that has not *)
(* passed its stop, was killed, or may have failed to remove the file in   *)
(* its stop; no failure of another process matters (_create_flag_file,     *)
(* _remove_flag_file, start, stop and main of streamer.py).                *)
(***************************************************************************)
THEOREM FlagShowsRecording == Spec => []FlagMeansRecording
<1>1. FlagInv => FlagMeansRecording
  BY DEF FlagInv
<1> QED
  BY <1>1, FlagAlways, PTL

-----------------------------------------------------------------------------
(* The status messages of an agent *)

Statuses == Seq([call : Calls, status : {"start-call", "end-call"}])
Steps == {"create", "clearStart", "sendStart", "next", "upload", "announce",
          "clearEnd", "sendEnd", "done", "dead"}

(* A thread that is to send a status has cleared the queue of its call's,  *)
(* or has not sent one yet; only the caller's threads come to these steps. *)
NoneOf(t) == \A i \in DOMAIN statusQueue : statusQueue[i].call # Call(t)

StatusInv ==
    /\ statusQueue \in Statuses
    /\ store \in [Streams -> Steps]
    /\ \A t \in Streams :
        /\ store[t] \in {"clearStart", "sendStart", "clearEnd", "sendEnd"} => IsCaller(t)
        /\ IsCaller(t) /\ store[t] \in {"create", "clearStart", "sendStart", "sendEnd"} => NoneOf(t)
    /\ OneStatusPerCall

(***************************************************************************)
(* A call has one caller's thread.                                         *)
(***************************************************************************)
LEMMA OneCaller ==
  ASSUME NEW t \in Streams, NEW u \in Streams, IsCaller(t), IsCaller(u), Call(t) = Call(u)
  PROVE  t = u
  BY AzureAudioAssumption DEF IsCaller, Call

(***************************************************************************)
(* Where the thread is told to go, and that it alone moves.                *)
(***************************************************************************)
LEMMA GoToMoves ==
  ASSUME StatusInv, NEW t \in Streams, NEW from \in Steps, NEW to \in Steps, GoTo(t, from, to)
  PROVE  /\ store' \in [Streams -> Steps]
         /\ store[t] = from /\ store'[t] = to
         /\ \A u \in Streams \ {t} : store'[u] = store[u]
  BY DEF StatusInv, GoTo

(***************************************************************************)
(* A move that leaves the queue alone and does not come near a status.     *)
(***************************************************************************)
LEMMA QuietMove ==
  ASSUME StatusInv, NEW t \in Streams, NEW from \in Steps, NEW to \in Steps, GoTo(t, from, to),
         UNCHANGED statusQueue,
         \/ to \in {"next", "upload", "announce", "done", "dead"}
         \/ from = "next" /\ to = "clearEnd" /\ IsCaller(t)
         \/ from = "create" /\ to = "clearStart" /\ IsCaller(t)
  PROVE  StatusInv'
<1>1. /\ store' \in [Streams -> Steps]
      /\ store[t] = from /\ store'[t] = to
      /\ \A u \in Streams \ {t} : store'[u] = store[u]
  BY GoToMoves
<1>2. statusQueue' = statusQueue
  OBVIOUS
<1>3. ASSUME NEW u \in Streams
      PROVE  /\ store'[u] \in {"clearStart", "sendStart", "clearEnd", "sendEnd"} => IsCaller(u)
             /\ IsCaller(u) /\ store'[u] \in {"create", "clearStart", "sendStart", "sendEnd"}
                  => NoneOf(u)'
  <2>1. CASE u = t
    BY <1>1, <1>2, <2>1 DEF StatusInv, NoneOf
  <2>2. CASE u # t
    BY <1>1, <1>2, <2>2 DEF StatusInv, NoneOf
  <2> QED
    BY <2>1, <2>2
<1> QED
  BY <1>1, <1>2, <1>3 DEF StatusInv, OneStatusPerCall

(***************************************************************************)
(* Clearing the queue, and being about to send.                            *)
(***************************************************************************)
LEMMA ClearStatusInv ==
  ASSUME StatusInv, NEW t \in Streams, ClearStatus(t)
  PROVE  StatusInv'
<1>1. CASE /\ GoTo(t, "clearStart", "sendStart") \/ GoTo(t, "clearEnd", "sendEnd")
           /\ statusQueue' = <<>>
  <2>1. /\ store' \in [Streams -> Steps]
        /\ store[t] \in {"clearStart", "clearEnd"}
        /\ \A u \in Streams \ {t} : store'[u] = store[u]
    BY <1>1, GoToMoves DEF Steps
  <2>2. \A u \in Streams : NoneOf(u)'
    BY <1>1 DEF NoneOf
  <2>3. statusQueue' \in Statuses /\ OneStatusPerCall'
    BY <1>1 DEF Statuses, OneStatusPerCall
  <2> QED
    BY <2>1, <2>2, <2>3 DEF StatusInv
<1>2. CASE /\ GoTo(t, "clearStart", "next") \/ GoTo(t, "clearEnd", "done")
           /\ UNCHANGED statusQueue
  BY <1>2, QuietMove DEF Steps
<1> QED
  BY <1>1, <1>2 DEF ClearStatus

(***************************************************************************)
(* Sending: the new message is the only one of its call.                   *)
(***************************************************************************)
LEMMA SendStatusInv ==
  ASSUME StatusInv, NEW t \in Streams, SendStatus(t)
  PROVE  StatusInv'
<1>1. CASE UNCHANGED statusQueue
  BY <1>1, QuietMove DEF SendStatus, Steps
<1>2. CASE statusQueue' = Append(statusQueue, StatusBesked(t))
  <2> DEFINE n == Len(statusQueue)
  <2>1. /\ store' \in [Streams -> Steps]
        /\ store[t] \in {"sendStart", "sendEnd"} /\ store'[t] \in {"next", "done"}
        /\ \A u \in Streams \ {t} : store'[u] = store[u]
    BY GoToMoves DEF SendStatus, Steps
  <2>2. IsCaller(t) /\ NoneOf(t)
    BY <2>1 DEF StatusInv
  <2>3. StatusBesked(t) \in [call : Calls, status : {"start-call", "end-call"}]
        /\ StatusBesked(t).call = Call(t)
    BY AzureAudioAssumption DEF StatusBesked, Call
  <2>4. /\ statusQueue' \in Statuses /\ n \in Nat
        /\ DOMAIN statusQueue = 1 .. n /\ DOMAIN statusQueue' = 1 .. n + 1
        /\ \A i \in 1 .. n : statusQueue'[i] = statusQueue[i]
        /\ statusQueue'[n + 1].call = Call(t)
    BY <1>2, <2>3 DEF StatusInv, Statuses
  <2>5. OneStatusPerCall'
    BY <2>2, <2>4 DEF OneStatusPerCall, NoneOf, StatusInv
  <2>6. ASSUME NEW u \in Streams, IsCaller(u),
               store'[u] \in {"create", "clearStart", "sendStart", "sendEnd"}
        PROVE  NoneOf(u)'
    <3>1. u # t
      BY <2>1, <2>6
    <3>2. Call(u) # Call(t) /\ NoneOf(u)
      BY <2>1, <2>2, <2>6, <3>1, OneCaller DEF StatusInv
    <3> QED
      BY <2>4, <3>2 DEF NoneOf
  <2> QED
    BY <2>1, <2>4, <2>5, <2>6 DEF StatusInv
<1> QED
  BY <1>1, <1>2 DEF SendStatus

(***************************************************************************)
(* Everything else the storage threads do is a quiet move.                 *)
(***************************************************************************)
LEMMA StorageStatusInv ==
  ASSUME StatusInv, NEW t \in Streams, Storage(t)
  PROVE  StatusInv'
<1>1. CASE Create(t)
  BY <1>1, QuietMove DEF Create, Steps, azureVars
<1>2. CASE ClearStatus(t)
  BY <1>2, ClearStatusInv
<1>3. CASE SendStatus(t)
  BY <1>3, SendStatusInv
<1>4. CASE TakeItem(t)
  <2>1. /\ GoTo(t, "next", "upload") \/ GoTo(t, "next", "next")
        /\ UNCHANGED statusQueue
    BY <1>4 DEF TakeItem, azureVars
  <2> QED
    BY <2>1, QuietMove DEF Steps
<1>5. CASE LeaveLoop(t)
  BY <1>5, QuietMove DEF LeaveLoop, Steps, azureVars
<1>6. CASE EndDrain(t)
  BY <1>6, QuietMove DEF EndDrain, Steps, azureVars
<1>7. CASE Upload(t)
  <2>1. /\ GoTo(t, "upload", "announce") \/ GoTo(t, "upload", "next")
        /\ UNCHANGED statusQueue
    BY <1>7 DEF Upload
  <2> QED
    BY <2>1, QuietMove DEF Steps
<1>8. CASE Announce(t)
  <2>1. GoTo(t, "announce", "next") /\ UNCHANGED statusQueue
    BY <1>8 DEF Announce, AnnounceAs, FailToAnnounce
  <2> QED
    BY <2>1, QuietMove DEF Steps
<1> QED
  BY <1>1, <1>2, <1>3, <1>4, <1>5, <1>6, <1>7, <1>8 DEF Storage

(***************************************************************************)
(* A process that ends leaves its threads "done".                          *)
(***************************************************************************)
LEMMA GoneStatusInv ==
  ASSUME StatusInv, NEW c \in Calls, Gone(c)
  PROVE  StatusInv'
<1>1. /\ store' = [t \in Streams |-> IF t[1] = c THEN "done" ELSE store[t]]
      /\ statusQueue' = statusQueue
  BY DEF Gone
<1>2. store' \in [Streams -> Steps]
  BY <1>1 DEF StatusInv, Steps
<1>3. \A t \in Streams : store'[t] = store[t] \/ store'[t] = "done"
  BY <1>1
<1> QED
  BY <1>1, <1>2, <1>3 DEF StatusInv, NoneOf, OneStatusPerCall

(***************************************************************************)
(* So the messages and the threads' steps go together in every state.      *)
(***************************************************************************)
LEMMA StatusAlways == Spec => []StatusInv
<1>1. Init => StatusInv
  BY DEF Init, StatusInv, Statuses, Steps, NoneOf, OneStatusPerCall
<1>2. StatusInv /\ [Next]_vars => StatusInv'
  <2> SUFFICES ASSUME StatusInv, [Next]_vars PROVE StatusInv'
    OBVIOUS
  <2>1. CASE UNCHANGED <<store, statusQueue>>
    BY <2>1 DEF StatusInv, NoneOf, OneStatusPerCall
  <2>2. ASSUME NEW c \in Calls, Genesys(c) /\ UNCHANGED audioVars PROVE StatusInv'
    BY <2>1, <2>2 DEF audioVars, azureVars
  <2>3. ASSUME NEW c \in Calls, Main(c) \/ JoinsExpire(c) \/ (Kill(c) /\ Gone(c)) PROVE StatusInv'
    BY <2>1, <2>3, GoneStatusInv DEF Main, JoinAll, JoinsExpire, audioVars, azureVars
  <2>4. ASSUME NEW t \in Streams, Recorder(t) \/ PutBuffer(t) PROVE StatusInv'
    BY <2>1, <2>4 DEF Recorder, PutBuffer, Open, Flush, AnnounceEnd, Record, azureVars
  <2>5. ASSUME NEW t \in Streams, Storage(t) PROVE StatusInv'
    BY <2>5, StorageStatusInv
  <2>6. CASE UNCHANGED vars
    BY <2>1, <2>6 DEF vars, audioVars, azureVars
  <2> QED
    BY <2>2, <2>3, <2>4, <2>5, <2>6 DEF Next
<1> QED
  BY <1>1, <1>2, PTL DEF Spec

(***************************************************************************)
(* OneStatusPerCall holds for any number of calls and streams, every       *)
(* mishap and every failure: though a status is sent in two steps, between *)
(* which other processes send theirs, a call has at most one message in    *)
(* the agent's queue (_send_status_message of azure_storage.py).           *)
(***************************************************************************)
THEOREM OneStatus == Spec => []OneStatusPerCall
<1>1. StatusInv => OneStatusPerCall
  BY DEF StatusInv
<1> QED
  BY <1>1, StatusAlways, PTL

-----------------------------------------------------------------------------
(* The audio on its way to Azure *)

Segments == [segment : Nat, data : Items]

AudioTypeOK ==
    /\ rec \in [Streams -> {"off", "on", "flushed", "ended"}]
    /\ put \in [Streams -> Nat]
    /\ dataQueue \in [Streams -> Seq(Items)]
    /\ store \in [Streams -> Steps]
    /\ drains \in [Streams -> BOOLEAN]
    /\ item \in [Streams -> Items \cup {Nothing}]
    /\ segmentCount \in [Streams -> Nat]
    /\ blobs \in [Streams -> Seq(Items)]
    /\ failed \in [Streams -> SUBSET Items]
    /\ announced \in [Streams -> Seq(Segments)]

Stored(t, m) == m.segment < Len(blobs[t]) /\ blobs[t][m.segment + 1] = m.data

(* A thread that goes on storing writes to a number that is not announced  *)
(* yet.  A thread that was stopped forgets the number, but stores no more. *)
SegmentsOK(t) ==
    /\ store[t] \in {"upload", "announce"} => item[t] \in Items
    /\ store[t] \notin {"done", "dead"} =>
        /\ segmentCount[t] <= Len(blobs[t])
        /\ \A i \in DOMAIN announced[t] : announced[t][i].segment < segmentCount[t]
    /\ store[t] = "announce" => Stored(t, [segment |-> segmentCount[t], data |-> item[t]])
    /\ \A i \in DOMAIN announced[t] : Stored(t, announced[t][i])

AudioInv == AudioTypeOK /\ \A t \in Streams : SegmentsOK(t)

(***************************************************************************)
(* Nothing is recorded or stored at first.                                 *)
(***************************************************************************)
LEMMA AudioInitially == Init => AudioInv
<1> SUFFICES ASSUME Init PROVE AudioInv
  OBVIOUS
<1>1. /\ rec = [t \in Streams |-> "off"] /\ put = [t \in Streams |-> 0]
      /\ dataQueue = [t \in Streams |-> <<>>] /\ store = [t \in Streams |-> "create"]
      /\ item = [t \in Streams |-> Nothing] /\ segmentCount = [t \in Streams |-> 0]
      /\ blobs = [t \in Streams |-> <<>>] /\ failed = [t \in Streams |-> {}]
      /\ announced = [t \in Streams |-> <<>>]
  BY DEF Init
<1>2. drains \in [Streams -> BOOLEAN]
  BY DEF Init
<1>3. <<>> \in Seq(Items) /\ <<>> \in Seq(Segments)
  OBVIOUS
<1>4. AudioTypeOK
  BY <1>1, <1>2, <1>3 DEF AudioTypeOK, Steps
<1>5. \A t \in Streams : SegmentsOK(t)
  BY <1>1 DEF SegmentsOK
<1> QED
  BY <1>4, <1>5 DEF AudioInv

(***************************************************************************)
(* What is put into a queue goes to its end, and nowhere else.             *)
(***************************************************************************)
LEMMA PutItemKeeps ==
  ASSUME AudioTypeOK, NEW t \in Streams, NEW x \in Items, PutItem(t, x)
  PROVE  dataQueue' \in [Streams -> Seq(Items)]
<1>1. Append(dataQueue[t], x) \in Seq(Items)
  BY DEF AudioTypeOK
<1> QED
  BY <1>1 DEF AudioTypeOK, PutItem

(***************************************************************************)
(* The recorders touch no segment.                                         *)
(***************************************************************************)
LEMMA RecorderAudio ==
  ASSUME AudioInv, NEW t \in Streams, Recorder(t) \/ PutBuffer(t)
  PROVE  AudioInv'
<1>1. UNCHANGED <<store, drains, item, segmentCount, blobs, failed, announced>>
  BY DEF Recorder, PutBuffer, Open, Flush, AnnounceEnd, Record, azureVars
<1>2. rec' \in [Streams -> {"off", "on", "flushed", "ended"}]
  BY DEF AudioInv, AudioTypeOK, Recorder, PutBuffer, Open, Flush, AnnounceEnd, Record
<1>3. put' \in [Streams -> Nat]
  BY DEF AudioInv, AudioTypeOK, Recorder, PutBuffer, Open, Flush, AnnounceEnd
<1>4. dataQueue' \in [Streams -> Seq(Items)]
  <2>1. AudioTypeOK /\ put[t] + 1 \in Items /\ StartMetadata \in Items /\ EndMetadata \in Items
    BY DEF AudioInv, AudioTypeOK, Items
  <2>2. CASE UNCHANGED dataQueue
    BY <2>1, <2>2 DEF AudioTypeOK
  <2>3. CASE \E x \in Items : PutItem(t, x)
    BY <2>1, <2>3, PutItemKeeps
  <2> QED
    BY <2>1, <2>2, <2>3 DEF Recorder, PutBuffer, Open, Flush, AnnounceEnd
<1>5. AudioTypeOK'
  BY <1>1, <1>2, <1>3, <1>4 DEF AudioInv, AudioTypeOK
<1>6. \A u \in Streams : SegmentsOK(u)'
  BY <1>1 DEF AudioInv, SegmentsOK, Stored
<1> QED
  BY <1>5, <1>6 DEF AudioInv

(***************************************************************************)
(* A step of one thread that neither writes a blob nor announces one: the  *)
(* other streams keep theirs, and it may only go on to store an item.      *)
(***************************************************************************)
LEMMA QuietAudio ==
  ASSUME AudioInv, NEW t \in Streams, NEW from \in Steps, NEW to \in Steps, GoTo(t, from, to),
         UNCHANGED <<segmentCount, blobs, announced>>, AudioTypeOK',
         \A u \in Streams \ {t} : item'[u] = item[u],
         from \notin {"done", "dead"}, to # "announce",
         to = "upload" => item'[t] \in Items
  PROVE  AudioInv'
<1>1. /\ store[t] = from /\ store'[t] = to
      /\ \A u \in Streams \ {t} : store'[u] = store[u]
  BY DEF GoTo, AudioInv, AudioTypeOK
<1>2. ASSUME NEW u \in Streams PROVE SegmentsOK(u)'
  <2>1. CASE u = t
    BY <1>1, <2>1 DEF AudioInv, SegmentsOK, Stored
  <2>2. CASE u # t
    BY <1>1, <2>2 DEF AudioInv, SegmentsOK, Stored
  <2> QED
    BY <2>1, <2>2
<1> QED
  BY <1>2 DEF AudioInv

(***************************************************************************)
(* The steps of a thread that write nothing.                               *)
(***************************************************************************)
LEMMA StorageTypes ==
  ASSUME AudioInv, NEW t \in Streams,
         \/ Create(t) \/ ClearStatus(t) \/ SendStatus(t)
         \/ TakeItem(t) \/ LeaveLoop(t) \/ EndDrain(t)
  PROVE  AudioInv'
<1>1. AudioTypeOK
  BY DEF AudioInv
<1>2. \A x \in Steps : [store EXCEPT ![t] = x] \in [Streams -> Steps]
  BY <1>1 DEF AudioTypeOK
<1>3. CASE Create(t)
  <2>1. AudioTypeOK'
    BY <1>1, <1>2, <1>3 DEF AudioTypeOK, Create, GoTo, Steps, recVars, threadVars, azureVars
  <2> QED
    BY <1>3, <2>1, QuietAudio DEF Create, Steps, threadVars, azureVars
<1>4. CASE ClearStatus(t)
  <2>1. AudioTypeOK'
    BY <1>1, <1>2, <1>4 DEF AudioTypeOK, ClearStatus, GoTo, Steps, recVars, threadVars
  <2> QED
    BY <1>4, <2>1, QuietAudio DEF ClearStatus, Steps, threadVars
<1>5. CASE SendStatus(t)
  <2>1. AudioTypeOK'
    BY <1>1, <1>2, <1>5 DEF AudioTypeOK, SendStatus, GoTo, Steps, recVars, threadVars
  <2> QED
    BY <1>5, <2>1, QuietAudio DEF SendStatus, Steps, threadVars
<1>6. CASE TakeItem(t)
  <2> DEFINE x == Head(dataQueue[t])
             kept == IsAudio(x) \/ drains[t]
  <2>1. x \in Items /\ Tail(dataQueue[t]) \in Seq(Items)
    BY <1>1, <1>6 DEF AudioTypeOK, TakeItem
  <2>2. /\ GoTo(t, "next", IF kept THEN "upload" ELSE "next")
        /\ item' = [item EXCEPT ![t] = IF kept THEN x ELSE Nothing]
        /\ dataQueue' = [dataQueue EXCEPT ![t] = Tail(dataQueue[t])]
        /\ UNCHANGED <<drains, segmentCount, blobs, failed, announced>>
    BY <1>6 DEF TakeItem, azureVars
  <2> HIDE DEF x, kept
  <2>3. AudioTypeOK'
    BY <1>1, <1>2, <2>1, <2>2 DEF AudioTypeOK, GoTo, Steps, recVars
  <2>4. kept => item'[t] \in Items
    BY <1>1, <2>1, <2>2 DEF AudioTypeOK
  <2>5. \A u \in Streams \ {t} : item'[u] = item[u]
    BY <1>1, <2>2 DEF AudioTypeOK
  <2>6. CASE kept
    BY <2>2, <2>3, <2>4, <2>5, <2>6, QuietAudio DEF Steps
  <2>7. CASE ~kept
    BY <2>2, <2>3, <2>5, <2>7, QuietAudio DEF Steps
  <2> QED
    BY <2>6, <2>7
<1>7. CASE LeaveLoop(t)
  <2>1. AudioTypeOK'
    BY <1>1, <1>2, <1>7 DEF AudioTypeOK, LeaveLoop, GoTo, Steps, recVars, azureVars
  <2> QED
    BY <1>7, <2>1, QuietAudio DEF LeaveLoop, Steps, azureVars
<1>8. CASE EndDrain(t)
  <2>1. AudioTypeOK'
    BY <1>1, <1>2, <1>8 DEF AudioTypeOK, EndDrain, GoTo, Steps, recVars, threadVars, azureVars
  <2>2. CASE IsCaller(t)
    BY <1>8, <2>1, <2>2, QuietAudio DEF EndDrain, Steps, threadVars, azureVars
  <2>3. CASE ~IsCaller(t)
    BY <1>8, <2>1, <2>3, QuietAudio DEF EndDrain, Steps, threadVars, azureVars
  <2> QED
    BY <2>2, <2>3
<1> QED
  BY <1>3, <1>4, <1>5, <1>6, <1>7, <1>8

(***************************************************************************)
(* The messages of a stream have the type of messages.                     *)
(***************************************************************************)
LEMMA AnnouncedTyped ==
  ASSUME AudioTypeOK, NEW t \in Streams
  PROVE  \A i \in DOMAIN announced[t] : announced[t][i] \in Segments
<1>1. announced[t] \in Seq(Segments)
  BY DEF AudioTypeOK
<1> QED
  BY <1>1

(***************************************************************************)
(* An upload writes the blob with the current number, which no message     *)
(* names yet; a failed one writes nothing.                                 *)
(***************************************************************************)
LEMMA UploadAudio ==
  ASSUME AudioInv, NEW t \in Streams, Upload(t)
  PROVE  AudioInv'
<1> DEFINE n == segmentCount[t]
           b == blobs[t]
<1>1. /\ AudioTypeOK /\ store[t] = "upload" /\ item[t] \in Items
      /\ n \in Nat /\ b \in Seq(Items) /\ n <= Len(b)
  BY DEF AudioInv, AudioTypeOK, SegmentsOK, Upload, GoTo
<1>2. UNCHANGED <<rec, put, dataQueue, drains, segmentCount, announced>>
  BY DEF Upload, GoTo, recVars
<1>3. CASE /\ GoTo(t, "upload", "announce")
           /\ blobs' = [blobs EXCEPT ![t] =
                  IF n < Len(b) THEN ReplaceAt(b, n + 1, item[t]) ELSE Append(b, item[t])]
           /\ UNCHANGED <<item, failed>>
  <2>1. /\ blobs'[t] \in Seq(Items) /\ n < Len(blobs'[t]) /\ Len(b) <= Len(blobs'[t])
        /\ blobs'[t][n + 1] = item[t]
        /\ \A k \in 1 .. n : blobs'[t][k] = b[k]
        /\ blobs' = [blobs EXCEPT ![t] = blobs'[t]]
    <3>1. CASE n < Len(b)
      <4>1. blobs' = [blobs EXCEPT ![t] = [b EXCEPT ![n + 1] = item[t]]]
        BY <1>3, <3>1 DEF ReplaceAt
      <4>2. blobs'[t] = [b EXCEPT ![n + 1] = item[t]]
        BY <1>1, <4>1 DEF AudioTypeOK
      <4>3. n + 1 \in 1 .. Len(b)
        BY <1>1, <3>1
      <4>4. /\ [b EXCEPT ![n + 1] = item[t]] \in Seq(Items)
            /\ Len([b EXCEPT ![n + 1] = item[t]]) = Len(b)
            /\ [b EXCEPT ![n + 1] = item[t]][n + 1] = item[t]
            /\ \A k \in 1 .. n : [b EXCEPT ![n + 1] = item[t]][k] = b[k]
        BY <1>1, <4>3
      <4>5. Len(b) \in Nat
        BY <1>1
      <4>6. blobs' = [blobs EXCEPT ![t] = blobs'[t]]
        BY <4>1, <4>2
      <4>7. n < Len(blobs'[t]) /\ Len(b) <= Len(blobs'[t])
        BY <3>1, <4>2, <4>4, <4>5
      <4>8. blobs'[t] \in Seq(Items) /\ blobs'[t][n + 1] = item[t]
            /\ \A k \in 1 .. n : blobs'[t][k] = b[k]
        BY <4>2, <4>4
      <4> QED
        BY <4>6, <4>7, <4>8
    <3>2. CASE ~(n < Len(b))
      <4>1. blobs'[t] = Append(b, item[t]) /\ n = Len(b)
        BY <1>1, <1>3, <3>2 DEF AudioTypeOK
      <4> QED
        BY <1>1, <1>3, <3>2, <4>1 DEF AudioTypeOK
    <3> QED
      BY <3>1, <3>2
  <2>2. AudioTypeOK'
    <3>1. store' \in [Streams -> Steps] /\ blobs' \in [Streams -> Seq(Items)]
      BY <1>1, <1>3, <2>1 DEF AudioTypeOK, GoTo, Steps
    <3> QED
      BY <1>1, <1>2, <1>3, <3>1 DEF AudioTypeOK
  <2>3. SegmentsOK(t)'
    <3>1. store'[t] = "announce"
      BY <1>1, <1>3 DEF AudioTypeOK, GoTo
    <3>2. \A i \in DOMAIN announced[t] : announced[t][i] \in Segments
                 /\ announced[t][i].segment < n /\ Stored(t, announced[t][i])
      BY <1>1, AnnouncedTyped DEF AudioInv, SegmentsOK
    <3>3. \A i \in DOMAIN announced[t] : Stored(t, announced[t][i])'
      <4> SUFFICES ASSUME NEW i \in DOMAIN announced[t] PROVE Stored(t, announced[t][i])'
        BY <1>2
      <4> DEFINE k == announced[t][i].segment
      <4>1. k \in Nat /\ k < n
        BY <3>2 DEF Segments
      <4>2. k + 1 \in 1 .. n /\ Len(b) \in Nat /\ Len(blobs'[t]) \in Nat
        BY <1>1, <2>1, <4>1
      <4>3. blobs'[t][k + 1] = b[k + 1] /\ b[k + 1] = announced[t][i].data
        BY <2>1, <3>2, <4>2 DEF Stored
      <4>4. k < Len(blobs'[t])
        BY <1>1, <2>1, <4>1, <4>2
      <4> QED
        BY <1>2, <4>3, <4>4 DEF Stored
    <3>4. segmentCount'[t] = n /\ announced'[t] = announced[t] /\ item'[t] = item[t]
      BY <1>2, <1>3
    <3>5. n <= Len(blobs'[t])
      BY <1>1, <2>1
    <3> QED
      BY <1>1, <2>1, <3>1, <3>2, <3>3, <3>4, <3>5 DEF SegmentsOK, Stored
  <2>4. ASSUME NEW u \in Streams \ {t} PROVE SegmentsOK(u)'
    <3>1. store'[u] = store[u] /\ blobs'[u] = blobs[u] /\ item'[u] = item[u]
      BY <1>1, <1>3, <2>1 DEF AudioTypeOK, GoTo
    <3> QED
      BY <1>2, <3>1 DEF AudioInv, SegmentsOK, Stored
  <2> QED
    BY <2>2, <2>3, <2>4 DEF AudioInv
<1>4. CASE /\ GoTo(t, "upload", "next")
           /\ failed' = [failed EXCEPT ![t] = @ \cup {item[t]}]
           /\ item' = [item EXCEPT ![t] = Nothing]
           /\ UNCHANGED blobs
  <2>1. AudioTypeOK'
    <3>1. store' \in [Streams -> Steps] /\ failed' \in [Streams -> SUBSET Items]
          /\ item' \in [Streams -> Items \cup {Nothing}]
      BY <1>1, <1>4 DEF AudioTypeOK, GoTo, Steps
    <3> QED
      BY <1>1, <1>2, <1>4, <3>1 DEF AudioTypeOK
  <2>2. \A u \in Streams \ {t} : item'[u] = item[u]
    BY <1>1, <1>4 DEF AudioTypeOK
  <2> QED
    BY <1>2, <1>4, <2>1, <2>2, QuietAudio DEF Steps
<1> QED
  BY <1>3, <1>4 DEF Upload

(***************************************************************************)
(* An announcement names the blob just written; from then on the thread    *)
(* writes to the next number, whether or not the message was sent.         *)
(***************************************************************************)
LEMMA AnnounceAudio ==
  ASSUME AudioInv, NEW t \in Streams, Announce(t)
  PROVE  AudioInv'
<1> DEFINE n == segmentCount[t]
           m == [segment |-> n, data |-> item[t]]
<1>1. /\ AudioTypeOK /\ store[t] = "announce" /\ item[t] \in Items
      /\ n \in Nat /\ n < Len(blobs[t]) /\ Stored(t, m)
  BY DEF AudioInv, AudioTypeOK, SegmentsOK, Stored, Announce, AnnounceAs, FailToAnnounce, GoTo
<1>2. /\ GoTo(t, "announce", "next")
      /\ item' = [item EXCEPT ![t] = Nothing]
      /\ segmentCount' = [segmentCount EXCEPT ![t] = n + 1]
      /\ UNCHANGED <<rec, put, dataQueue, drains, blobs, failed>>
  BY DEF Announce, AnnounceAs, FailToAnnounce, Counted, GoTo, recVars
<1>3. m \in Segments
  BY <1>1 DEF Segments
<1>4. announced' = announced \/ announced' = [announced EXCEPT ![t] = Append(@, m)]
  BY DEF Announce, AnnounceAs, FailToAnnounce
<1> HIDE DEF m
<1>5. /\ announced' \in [Streams -> Seq(Segments)]
      /\ \A u \in Streams \ {t} : announced'[u] = announced[u]
      /\ \A i \in DOMAIN announced'[t] :
            announced'[t][i] = m \/ (i \in DOMAIN announced[t] /\ announced'[t][i] = announced[t][i])
  <2>1. announced \in [Streams -> Seq(Segments)] /\ announced[t] \in Seq(Segments)
    BY <1>1 DEF AudioTypeOK
  <2>2. CASE announced' = announced
    BY <2>1, <2>2
  <2>3. CASE announced' = [announced EXCEPT ![t] = Append(@, m)]
    <3>1. Append(announced[t], m) \in Seq(Segments)
      BY <1>3, <2>1
    <3>2. announced'[t] = Append(announced[t], m)
      BY <2>1, <2>3
    <3>3. \A i \in DOMAIN Append(announced[t], m) :
              \/ Append(announced[t], m)[i] = m
              \/ i \in DOMAIN announced[t] /\ Append(announced[t], m)[i] = announced[t][i]
      BY <1>3, <2>1
    <3> QED
      BY <2>1, <2>3, <3>1, <3>2, <3>3
  <2> QED
    BY <1>4, <2>2, <2>3
<1>6. /\ store' \in [Streams -> Steps] /\ item' \in [Streams -> Items \cup {Nothing}]
      /\ segmentCount' \in [Streams -> Nat]
  BY <1>1, <1>2 DEF AudioTypeOK, GoTo, Steps
<1>7. AudioTypeOK'
  BY <1>1, <1>2, <1>5, <1>6 DEF AudioTypeOK
<1>8. SegmentsOK(t)'
  <2>1. store'[t] = "next" /\ segmentCount'[t] = n + 1
    BY <1>1, <1>2 DEF AudioTypeOK, GoTo
  <2>2. m.segment = n
    BY DEF m
  <2>3. \A i \in DOMAIN announced[t] : announced[t][i].segment < n /\ Stored(t, announced[t][i])
                                       /\ announced[t][i].segment \in Nat
    BY <1>1, AnnouncedTyped DEF AudioInv, SegmentsOK, Segments
  <2>4. n + 1 <= Len(blobs[t])
    BY <1>1 DEF AudioTypeOK
  <2>5. \A i \in DOMAIN announced'[t] :
            announced'[t][i].segment < n + 1 /\ Stored(t, announced'[t][i])
    BY <1>1, <1>5, <2>2, <2>3
  <2> QED
    BY <1>2, <2>1, <2>4, <2>5 DEF SegmentsOK, Stored
<1>9. ASSUME NEW u \in Streams \ {t} PROVE SegmentsOK(u)'
  <2>1. /\ store'[u] = store[u] /\ item'[u] = item[u] /\ segmentCount'[u] = segmentCount[u]
        /\ announced'[u] = announced[u]
    BY <1>1, <1>2, <1>5 DEF AudioTypeOK, GoTo
  <2> QED
    BY <1>2, <2>1 DEF AudioInv, SegmentsOK, Stored
<1> QED
  BY <1>7, <1>8, <1>9 DEF AudioInv

(***************************************************************************)
(* A process that ends takes its threads along; the blobs and messages     *)
(* stay, and nothing is written any more.                                  *)
(***************************************************************************)
LEMMA GoneAudio ==
  ASSUME AudioInv, NEW c \in Calls, Gone(c)
  PROVE  AudioInv'
<1>1. AudioTypeOK
  BY DEF AudioInv
<1>2. /\ rec' = [t \in Streams |-> IF t[1] = c THEN "ended" ELSE rec[t]]
      /\ put' = [t \in Streams |-> IF t[1] = c THEN 0 ELSE put[t]]
      /\ store' = [t \in Streams |-> IF t[1] = c THEN "done" ELSE store[t]]
      /\ dataQueue' = [t \in Streams |-> IF t[1] = c THEN <<>> ELSE dataQueue[t]]
      /\ item' = [t \in Streams |-> IF t[1] = c THEN Nothing ELSE item[t]]
      /\ segmentCount' = [t \in Streams |-> IF t[1] = c THEN 0 ELSE segmentCount[t]]
      /\ failed' = [t \in Streams |-> IF t[1] = c THEN {} ELSE failed[t]]
      /\ UNCHANGED <<blobs, announced>>
  BY DEF Gone
<1>3. drains' = [t \in Streams |-> IF t[1] = c THEN TRUE ELSE drains[t]]
  BY DEF Gone
<1>4. drains' \in [Streams -> BOOLEAN]
  BY <1>1, <1>3 DEF AudioTypeOK
<1>5. AudioTypeOK'
  BY <1>1, <1>2, <1>4 DEF AudioTypeOK, Steps
<1>6. ASSUME NEW t \in Streams PROVE SegmentsOK(t)'
  <2>1. CASE t[1] = c
    BY <1>2, <2>1 DEF AudioInv, SegmentsOK, Stored
  <2>2. CASE t[1] # c
    BY <1>2, <2>2 DEF AudioInv, SegmentsOK, Stored
  <2> QED
    BY <2>1, <2>2
<1> QED
  BY <1>5, <1>6 DEF AudioInv

(***************************************************************************)
(* So blobs, numbers and messages go together in every state.              *)
(***************************************************************************)
LEMMA AudioAlways == Spec => []AudioInv
<1>1. AudioInv /\ [Next]_vars => AudioInv'
  <2> SUFFICES ASSUME AudioInv, [Next]_vars PROVE AudioInv'
    OBVIOUS
  <2>1. CASE UNCHANGED audioVars
    BY <2>1 DEF AudioInv, AudioTypeOK, SegmentsOK, Stored, audioVars, recVars, threadVars, azureVars
  <2>2. ASSUME NEW c \in Calls, Genesys(c) /\ UNCHANGED audioVars PROVE AudioInv'
    BY <2>1, <2>2
  <2>3. ASSUME NEW c \in Calls, Main(c) \/ JoinsExpire(c) \/ (Kill(c) /\ Gone(c)) PROVE AudioInv'
    BY <2>1, <2>3, GoneAudio DEF Main, JoinAll, JoinsExpire
  <2>4. ASSUME NEW t \in Streams, Recorder(t) \/ PutBuffer(t) PROVE AudioInv'
    BY <2>4, RecorderAudio
  <2>5. ASSUME NEW t \in Streams, Storage(t) PROVE AudioInv'
    BY <2>5, StorageTypes, UploadAudio, AnnounceAudio DEF Storage
  <2>6. CASE UNCHANGED vars
    BY <2>1, <2>6 DEF vars
  <2> QED
    BY <2>2, <2>3, <2>4, <2>5, <2>6 DEF Next
<1> QED
  BY AudioInitially, <1>1, PTL DEF Spec

(***************************************************************************)
(* AnnouncedIsStored holds for any number of streams, buffers and failures *)
(* of Azure, and whenever a process is killed or gives up waiting for its  *)
(* threads: every message names the blob that holds its data (store_audio  *)
(* and _upload_blob of azure_storage.py).                                  *)
(***************************************************************************)
THEOREM AnnouncedStored == Spec => []AnnouncedIsStored
<1>1. AudioInv => AnnouncedIsStored
  BY DEF AudioInv, SegmentsOK, Stored, AnnouncedIsStored
<1> QED
  BY <1>1, AudioAlways, PTL

(***************************************************************************)
(* TypeOK holds for any number of calls and streams.                       *)
(***************************************************************************)
THEOREM TypeCorrect == Spec => []TypeOK
<1>1. FlagInv /\ StatusInv /\ AudioInv => TypeOK
  BY DEF FlagInv, StatusInv, AudioInv, AudioTypeOK, TypeOK, Steps, Statuses, Segments
<1> QED
  BY <1>1, FlagAlways, StatusAlways, AudioAlways, PTL

-----------------------------------------------------------------------------
(* No buffer is lost or put in the wrong order *)

(* The audio of s is in order and is that of S. *)
Keeps(s, S) ==
    /\ \A i, j \in AudioAt(s) : i < j => s[i] < s[j]
    /\ {s[i] : i \in AudioAt(s)} = S

Alive(t) == proc[Call(t)] \notin {"exited", "killed"}

(* While its process lives, a thread knows the number of the next blob,    *)
(* and only a buffer it has taken in hand can be missing.                  *)
OrderOK(t) ==
    Alive(t) =>
        /\ store[t] \notin {"announce", "done", "dead"} => segmentCount[t] = Len(blobs[t])
        /\ store[t] = "announce" => segmentCount[t] + 1 = Len(blobs[t])
        /\ \A x \in failed[t] : x <= put[t]
        /\ Keeps(OnItsWay(t), (1 .. put[t]) \ failed[t])

OrderInv == FlagInv /\ AudioInv /\ \A t \in Streams : OrderOK(t)

(***************************************************************************)
(* The items are numbers.                                                  *)
(***************************************************************************)
LEMMA ItemsAreNumbers ==
  /\ Items \subseteq Int
  /\ StartMetadata \in Items /\ EndMetadata \in Items
  /\ ~IsAudio(StartMetadata) /\ ~IsAudio(EndMetadata)
  BY DEF Items, StartMetadata, EndMetadata, IsAudio

(***************************************************************************)
(* What an item put at the end adds.                                       *)
(***************************************************************************)
LEMMA AppendItem ==
  ASSUME NEW s \in Seq(Items), NEW S \in SUBSET Int, NEW x \in Items, Keeps(s, S)
  PROVE  /\ ~IsAudio(x) => Keeps(Append(s, x), S)
         /\ IsAudio(x) /\ (\A y \in S : y < x) => Keeps(Append(s, x), S \cup {x})
<1> DEFINE w == Append(s, x)
           n == Len(s)
<1>1. /\ n \in Nat /\ DOMAIN s = 1 .. n /\ DOMAIN w = 1 .. n + 1
      /\ w[n + 1] = x /\ \A i \in 1 .. n : w[i] = s[i]
  OBVIOUS
<1>2. (\A i, j \in AudioAt(s) : i < j => s[i] < s[j]) /\ {s[i] : i \in AudioAt(s)} = S
  BY DEF Keeps
<1> HIDE DEF w, n
<1>3. ASSUME ~IsAudio(x) PROVE Keeps(w, S)
  <2>1. AudioAt(w) = AudioAt(s) /\ \A i \in AudioAt(s) : w[i] = s[i]
    BY <1>1, <1>3 DEF AudioAt
  <2> QED
    BY <1>2, <2>1 DEF Keeps
<1>4. ASSUME IsAudio(x), \A y \in S : y < x PROVE Keeps(w, S \cup {x})
  <2>1. AudioAt(w) = AudioAt(s) \cup {n + 1} /\ \A i \in AudioAt(s) : w[i] = s[i] /\ i \in 1 .. n
    BY <1>1, <1>4 DEF AudioAt
  <2>2. \A i \in AudioAt(s) : s[i] \in S
    BY <1>2
  <2>3. \A i, j \in AudioAt(w) : i < j => w[i] < w[j]
    <3> SUFFICES ASSUME NEW i \in AudioAt(w), NEW j \in AudioAt(w), i < j PROVE w[i] < w[j]
      OBVIOUS
    <3>1. i \in AudioAt(s)
      BY <1>1, <2>1
    <3> QED
      BY <1>1, <1>2, <1>4, <2>1, <2>2, <3>1
  <2>4. {w[i] : i \in AudioAt(w)} = S \cup {x}
    BY <1>1, <1>2, <2>1
  <2> QED
    BY <2>3, <2>4 DEF Keeps
<1> QED
  BY <1>3, <1>4 DEF w

(***************************************************************************)
(* The items around one item.                                              *)
(***************************************************************************)
LEMMA MiddleItem ==
  ASSUME NEW a \in Seq(Items), NEW q \in Seq(Items), NEW x \in Items
  PROVE  /\ Len(a) \in Nat /\ Len(q) \in Nat
         /\ DOMAIN (a \o <<x>> \o q) = 1 .. Len(a) + 1 + Len(q)
         /\ DOMAIN (a \o <<>> \o q) = 1 .. Len(a) + Len(q)
         /\ Len(a) + 1 \in DOMAIN (a \o <<x>> \o q)
         /\ (a \o <<x>> \o q)[Len(a) + 1] = x
         /\ \A i \in 1 .. Len(a) : (a \o <<x>> \o q)[i] = a[i] /\ (a \o <<>> \o q)[i] = a[i]
         /\ \A i \in Len(a) + 1 .. Len(a) + Len(q) :
                (a \o <<>> \o q)[i] = q[i - Len(a)] /\ (a \o <<x>> \o q)[i + 1] = q[i - Len(a)]
<1>1. a \o <<>> = a /\ a \o <<x>> = Append(a, x)
  BY ConcatEmptySeq, AppendIsConcat
<1>2. Append(a, x) \in Seq(Items)
  OBVIOUS
<1>3. \A i \in Len(a) + 1 .. Len(a) + Len(q) :
          (Append(a, x) \o q)[i + 1] = q[i - Len(a)] /\ (a \o q)[i] = q[i - Len(a)]
  OBVIOUS
<1>4. /\ Len(a) \in Nat /\ Len(q) \in Nat
      /\ DOMAIN (Append(a, x) \o q) = 1 .. Len(a) + 1 + Len(q)
      /\ DOMAIN (a \o q) = 1 .. Len(a) + Len(q)
      /\ (Append(a, x) \o q)[Len(a) + 1] = x
      /\ \A i \in 1 .. Len(a) : (Append(a, x) \o q)[i] = a[i] /\ (a \o q)[i] = a[i]
  BY <1>2
<1>5. Len(a) + 1 \in DOMAIN (Append(a, x) \o q)
  BY <1>4
<1> QED
  BY <1>1, <1>3, <1>4, <1>5

(***************************************************************************)
(* What is left without an item, in its place.                             *)
(***************************************************************************)
LEMMA WithoutItem ==
  ASSUME NEW a \in Seq(Items), NEW q \in Seq(Items), NEW x \in Items, NEW S \in SUBSET Int,
         Keeps(a \o <<x>> \o q, S)
  PROVE  Keeps(a \o <<>> \o q, S \ {x})
<1> DEFINE z == a \o <<x>> \o q
           w == a \o <<>> \o q
           n == Len(a)
           m == Len(q)
<1>1. /\ n \in Nat /\ m \in Nat /\ DOMAIN z = 1 .. n + 1 + m /\ DOMAIN w = 1 .. n + m
      /\ z[n + 1] = x
      /\ \A i \in 1 .. n : z[i] = a[i] /\ w[i] = a[i]
      /\ \A i \in n + 1 .. n + m : w[i] = q[i - n]
      /\ \A i \in n + 1 .. n + m : z[i + 1] = q[i - n]
  BY MiddleItem
<1>2. (\A i, j \in AudioAt(z) : i < j => z[i] < z[j]) /\ {z[i] : i \in AudioAt(z)} = S
  BY DEF Keeps
<1>3. \A i \in DOMAIN z : z[i] \in Int
  <2>1. z \in Seq(Items)
    OBVIOUS
  <2> QED
    <3> HIDE DEF z
    <3>1. \A i \in DOMAIN z : z[i] \in Items
      BY <2>1
    <3> QED
      BY <3>1, ItemsAreNumbers
<1> HIDE DEF z, w, n, m
<1> DEFINE up(i) == IF i <= n THEN i ELSE i + 1
<1>4. \A i \in DOMAIN w : up(i) \in DOMAIN z /\ up(i) # n + 1 /\ w[i] = z[up(i)]
  <2> SUFFICES ASSUME NEW i \in DOMAIN w
               PROVE  up(i) \in DOMAIN z /\ up(i) # n + 1 /\ w[i] = z[up(i)]
    OBVIOUS
  <2>1. CASE i <= n
    BY <1>1, <2>1
  <2>2. CASE i > n
    <3>1. i \in n + 1 .. n + m
      BY <1>1, <2>2
    <3>2. w[i] = q[i - n] /\ z[i + 1] = q[i - n]
      BY <1>1, <3>1
    <3> QED
      BY <1>1, <2>2, <3>1, <3>2
  <2> QED
    BY <1>1, <2>1, <2>2
<1>5. \A k \in DOMAIN z : k # n + 1 => \E i \in DOMAIN w : up(i) = k
  <2> SUFFICES ASSUME NEW k \in DOMAIN z, k # n + 1 PROVE \E i \in DOMAIN w : up(i) = k
    OBVIOUS
  <2>1. CASE k <= n
    BY <1>1, <2>1
  <2>2. CASE k > n
    <3>1. k - 1 \in DOMAIN w /\ up(k - 1) = k
      BY <1>1, <2>2
    <3> QED
      BY <3>1
  <2> QED
    BY <1>1, <2>1, <2>2
<1>6. \A i, j \in DOMAIN w : i < j => up(i) < up(j)
  BY <1>1
<1> HIDE DEF up
<1>7. \A i \in AudioAt(w) : up(i) \in AudioAt(z) /\ w[i] = z[up(i)] /\ w[i] \in S
  BY <1>2, <1>4 DEF AudioAt
<1>8. \A i, j \in AudioAt(w) : i < j => w[i] < w[j]
  BY <1>2, <1>6, <1>7 DEF AudioAt
<1>9. \A i \in AudioAt(w) : w[i] # x
  <2> SUFFICES ASSUME NEW i \in AudioAt(w), w[i] = x PROVE FALSE
    OBVIOUS
  <2>1. n + 1 \in AudioAt(z) /\ up(i) \in AudioAt(z) /\ up(i) # n + 1 /\ up(i) \in Int
    BY <1>1, <1>4, <1>7 DEF AudioAt
  <2>2. up(i) < n + 1 \/ n + 1 < up(i)
    BY <1>1, <2>1
  <2>3. z[up(i)] \in Int /\ z[n + 1] \in Int /\ z[up(i)] = x /\ z[n + 1] = x
    BY <1>1, <1>3, <1>7, <2>1 DEF AudioAt
  <2>4. z[up(i)] < z[n + 1] \/ z[n + 1] < z[up(i)]
    BY <1>2, <2>1, <2>2
  <2> QED
    BY <2>3, <2>4
<1>10. \A y \in S \ {x} : \E i \in AudioAt(w) : w[i] = y
  <2> SUFFICES ASSUME NEW y \in S \ {x} PROVE \E i \in AudioAt(w) : w[i] = y
    OBVIOUS
  <2>1. PICK k \in AudioAt(z) : z[k] = y
    BY <1>2
  <2>2. k \in DOMAIN z /\ k # n + 1
    BY <1>1, <2>1 DEF AudioAt
  <2>3. PICK i \in DOMAIN w : up(i) = k
    BY <1>5, <2>2
  <2>4. w[i] = y /\ IsAudio(y)
    BY <1>4, <2>1, <2>3 DEF AudioAt
  <2> QED
    BY <2>3, <2>4 DEF AudioAt
<1>11. {w[i] : i \in AudioAt(w)} = S \ {x}
  BY <1>7, <1>9, <1>10
<1>12. Keeps(w, S \ {x})
  BY <1>8, <1>11 DEF Keeps
<1> QED
  BY <1>12 DEF w

(***************************************************************************)
(* An item that is passed on stays where it is among the others.           *)
(***************************************************************************)
LEMMA PassedOn ==
  ASSUME NEW a \in Seq(Items), NEW q \in Seq(Items), NEW x \in Items
  PROVE  /\ q # <<>> => a \o <<>> \o q = a \o <<Head(q)>> \o Tail(q)
         /\ Append(a, x) \o <<>> \o q = a \o <<x>> \o q
<1>1. a \o <<>> = a /\ a \o <<x>> = Append(a, x) /\ Append(a, x) \o <<>> = Append(a, x)
  BY ConcatEmptySeq, AppendIsConcat
<1>2. ASSUME q # <<>> PROVE a \o q = a \o <<Head(q)>> \o Tail(q)
  <2>1. Head(q) \in Items /\ Tail(q) \in Seq(Items) /\ <<Head(q)>> \in Seq(Items)
    BY <1>2
  <2>2. q = <<Head(q)>> \o Tail(q)
    BY <1>2
  <2> QED
    BY <2>1, <2>2, ConcatAssociative
<1> QED
  BY <1>1, <1>2

(***************************************************************************)
(* An item that is put goes behind everything on its way.                  *)
(***************************************************************************)
LEMMA PutBehind ==
  ASSUME NEW a \in Seq(Items), NEW h \in Seq(Items), NEW q \in Seq(Items), NEW x \in Items
  PROVE  a \o h \o Append(q, x) = Append(a \o h \o q, x)
<1> DEFINE g == a \o h
<1>1. g \in Seq(Items) /\ <<x>> \in Seq(Items)
  OBVIOUS
<1> HIDE DEF g
<1>2. Append(q, x) = q \o <<x>> /\ Append(g \o q, x) = (g \o q) \o <<x>>
  BY <1>1, AppendIsConcat
<1>3. g \o Append(q, x) = Append(g \o q, x)
  BY <1>1, <1>2, ConcatAssociative
<1> QED
  BY <1>3 DEF g

(***************************************************************************)
(* The types of what a stream has on its way.                              *)
(***************************************************************************)
LEMMA OnItsWayTyped ==
  ASSUME AudioInv, NEW t \in Streams
  PROVE  /\ blobs[t] \in Seq(Items) /\ dataQueue[t] \in Seq(Items) /\ Held(t) \in Seq(Items)
         /\ OnItsWay(t) \in Seq(Items)
         /\ put[t] \in Nat /\ segmentCount[t] \in Nat /\ failed[t] \subseteq Items
         /\ (1 .. put[t]) \ failed[t] \in SUBSET Int
<1>1. blobs[t] \in Seq(Items) /\ dataQueue[t] \in Seq(Items)
  BY DEF AudioInv, AudioTypeOK
<1>2. Held(t) \in Seq(Items)
  <2>1. CASE store[t] = "upload"
    <3>1. item[t] \in Items /\ Held(t) = <<item[t]>>
      BY <2>1 DEF AudioInv, SegmentsOK, Held
    <3> QED
      BY <3>1
  <2>2. CASE store[t] # "upload"
    BY <2>2 DEF Held
  <2> QED
    BY <2>1, <2>2
<1>3. OnItsWay(t) \in Seq(Items)
  BY <1>1, <1>2 DEF OnItsWay
<1>4. put[t] \in Nat /\ segmentCount[t] \in Nat /\ failed[t] \subseteq Items
  BY DEF AudioInv, AudioTypeOK
<1> QED
  BY <1>1, <1>2, <1>3, <1>4

(***************************************************************************)
(* What other streams do leaves a stream in order, ...                     *)
(***************************************************************************)
LEMMA OrderUnmoved ==
  ASSUME NEW u \in Streams, OrderOK(u), Alive(u)' => Alive(u),
         store'[u] = store[u], put'[u] = put[u], dataQueue'[u] = dataQueue[u],
         item'[u] = item[u], segmentCount'[u] = segmentCount[u], blobs'[u] = blobs[u],
         failed'[u] = failed[u]
  PROVE  OrderOK(u)'
<1>1. Held(u)' = Held(u)
  BY DEF Held
<1>2. OnItsWay(u)' = OnItsWay(u)
  BY <1>1 DEF OnItsWay
<1> QED
  BY <1>2 DEF OrderOK, Keeps, AudioAt

(***************************************************************************)
(* ... and so do its own steps that pass nothing on.                       *)
(***************************************************************************)
LEMMA OrderQuiet ==
  ASSUME NEW u \in Streams, OrderOK(u), Alive(u)' => Alive(u),
         store[u] \notin {"upload", "announce", "done", "dead"},
         store'[u] \notin {"upload", "announce"},
         put'[u] = put[u], dataQueue'[u] = dataQueue[u],
         segmentCount'[u] = segmentCount[u], blobs'[u] = blobs[u], failed'[u] = failed[u]
  PROVE  OrderOK(u)'
<1>1. Held(u)' = Held(u)
  BY DEF Held
<1>2. OnItsWay(u)' = OnItsWay(u)
  BY <1>1 DEF OnItsWay
<1> QED
  BY <1>2 DEF OrderOK, Keeps, AudioAt

(***************************************************************************)
(* Nothing is on its way at first.                                         *)
(***************************************************************************)
LEMMA OrderInitially == Init => \A t \in Streams : OrderOK(t)
<1> SUFFICES ASSUME Init, NEW t \in Streams PROVE OrderOK(t)
  OBVIOUS
<1>1. /\ store[t] = "create" /\ put[t] = 0 /\ dataQueue[t] = <<>>
      /\ segmentCount[t] = 0 /\ blobs[t] = <<>> /\ failed[t] = {}
  BY DEF Init
<1>2. OnItsWay(t) = <<>> \o <<>> \o <<>>
  BY <1>1 DEF OnItsWay, Held
<1>3. OnItsWay(t) = <<>>
  BY <1>2
<1>4. AudioAt(OnItsWay(t)) = {} /\ (1 .. put[t]) \ failed[t] = {}
  BY <1>1, <1>3 DEF AudioAt
<1>5. Len(blobs[t]) = 0
  BY <1>1
<1> QED
  BY <1>1, <1>4, <1>5 DEF OrderOK, Keeps

(***************************************************************************)
(* The recorder puts its buffers, and its metadata, at the end.            *)
(***************************************************************************)
LEMMA RecorderOrder ==
  ASSUME OrderInv, NEW t \in Streams, Recorder(t) \/ PutBuffer(t)
  PROVE  \A u \in Streams : OrderOK(u)'
<1>1. UNCHANGED <<flagVars, store, item, segmentCount, blobs, failed>>
  BY DEF Recorder, PutBuffer, Open, Flush, AnnounceEnd, Record, azureVars
<1>2. \/ UNCHANGED <<put, dataQueue>>
      \/ UNCHANGED put /\ \E x \in {StartMetadata, EndMetadata} : PutItem(t, x)
      \/ put' = [put EXCEPT ![t] = @ + 1] /\ PutItem(t, put[t] + 1)
  BY DEF Recorder, PutBuffer, Open, Flush, AnnounceEnd
<1>3. \A u \in Streams : Alive(u)' => Alive(u)
  BY <1>1 DEF Alive, flagVars
<1>4. AudioInv /\ OrderOK(t)
  BY DEF OrderInv
<1>5. /\ put \in [Streams -> Nat] /\ dataQueue \in [Streams -> Seq(Items)]
      /\ put[t] + 1 \in Items
  BY <1>4 DEF AudioInv, AudioTypeOK, Items
<1>6. ASSUME NEW u \in Streams \ {t} PROVE OrderOK(u)'
  <2>1. put'[u] = put[u] /\ dataQueue'[u] = dataQueue[u]
    BY <1>2, <1>5 DEF PutItem
  <2> QED
    BY <1>1, <1>3, <2>1, OrderUnmoved DEF OrderInv
<1>7. OrderOK(t)'
  <2>1. CASE UNCHANGED <<put, dataQueue>>
    BY <1>1, <1>3, <1>4, <2>1, OrderUnmoved
  <2>2. ASSUME NEW x \in Items, PutItem(t, x) PROVE OnItsWay(t)' = Append(OnItsWay(t), x)
    <3>1. dataQueue'[t] = Append(dataQueue[t], x) /\ Held(t)' = Held(t) /\ blobs'[t] = blobs[t]
      BY <1>1, <1>5, <2>2 DEF PutItem, Held
    <3>2. blobs[t] \in Seq(Items) /\ dataQueue[t] \in Seq(Items) /\ Held(t) \in Seq(Items)
      BY <1>4, OnItsWayTyped
    <3>3. blobs[t] \o Held(t) \o Append(dataQueue[t], x)
            = Append(blobs[t] \o Held(t) \o dataQueue[t], x)
      BY <2>2, <3>2, PutBehind
    <3> QED
      BY <3>1, <3>3 DEF OnItsWay
  <2>3. /\ Alive(t)' => Alive(t)
        /\ store'[t] = store[t] /\ segmentCount'[t] = segmentCount[t] /\ blobs'[t] = blobs[t]
        /\ failed'[t] = failed[t]
    BY <1>1, <1>3
  <2>4. CASE UNCHANGED put /\ \E x \in {StartMetadata, EndMetadata} : PutItem(t, x)
    <3>1. PICK x \in {StartMetadata, EndMetadata} : PutItem(t, x)
      BY <2>4
    <3>2. x \in Items /\ ~IsAudio(x)
      BY ItemsAreNumbers
    <3>3. Keeps(OnItsWay(t), (1 .. put[t]) \ failed[t])
            => Keeps(OnItsWay(t)', (1 .. put[t]) \ failed[t])
      BY <1>4, <2>2, <3>1, <3>2, AppendItem, OnItsWayTyped
    <3> QED
      BY <1>4, <2>3, <2>4, <3>3 DEF OrderOK, Keeps, AudioAt
  <2>5. CASE put' = [put EXCEPT ![t] = @ + 1] /\ PutItem(t, put[t] + 1)
    <3> SUFFICES ASSUME Alive(t) PROVE OrderOK(t)'
      BY <2>3 DEF OrderOK
    <3> DEFINE n == put[t]
               S == (1 .. n) \ failed[t]
    <3>1. n \in Nat /\ put'[t] = n + 1 /\ IsAudio(n + 1) /\ S \in SUBSET Int
          /\ failed[t] \subseteq Int /\ \A x \in failed[t] : x <= n
      <4>1. n \in Nat /\ put'[t] = n + 1 /\ IsAudio(n + 1) /\ S \in SUBSET Int
        BY <1>5, <2>5 DEF IsAudio
      <4>2. failed[t] \subseteq Int
        BY <1>4, ItemsAreNumbers, OnItsWayTyped
      <4>3. \A x \in failed[t] : x <= n
        BY <1>4 DEF OrderOK
      <4> QED
        BY <4>1, <4>2, <4>3
    <3>2. \A y \in S : y < n + 1
      BY <3>1
    <3>3. (1 .. n + 1) \ failed[t] = S \cup {n + 1}
      BY <3>1
    <3>4. Keeps(OnItsWay(t), S) /\ OnItsWay(t)' = Append(OnItsWay(t), n + 1)
      BY <1>4, <1>5, <2>2, <2>5 DEF OrderOK
    <3> HIDE DEF S, n
    <3>5. n + 1 \in Items
      BY <1>5 DEF n
    <3>6. Keeps(Append(OnItsWay(t), n + 1), S \cup {n + 1})
      BY <1>4, <3>1, <3>2, <3>4, <3>5, AppendItem, OnItsWayTyped
    <3>7. Keeps(OnItsWay(t)', (1 .. put'[t]) \ failed'[t])
      BY <2>3, <3>1, <3>3, <3>4, <3>6
    <3>8. \A x \in failed'[t] : x <= put'[t]
      BY <2>3, <3>1
    <3> QED
      BY <1>4, <2>3, <3>7, <3>8 DEF OrderOK, Keeps, AudioAt
  <2> QED
    BY <1>2, <2>1, <2>4, <2>5
<1> QED
  BY <1>6, <1>7

(***************************************************************************)
(* The thread takes an item in hand, or sets metadata aside.               *)
(***************************************************************************)
LEMMA TakeOrder ==
  ASSUME OrderInv, NEW t \in Streams, TakeItem(t)
  PROVE  OrderOK(t)'
<1> DEFINE x == Head(dataQueue[t])
           q == Tail(dataQueue[t])
           S == (1 .. put[t]) \ failed[t]
<1>1. AudioInv /\ OrderOK(t)
  BY DEF OrderInv
<1>2. /\ dataQueue[t] # <<>> /\ store[t] = "next"
      /\ GoTo(t, "next", IF IsAudio(x) \/ drains[t] THEN "upload" ELSE "next")
      /\ item' = [item EXCEPT ![t] = IF IsAudio(x) \/ drains[t] THEN x ELSE Nothing]
      /\ dataQueue' = [dataQueue EXCEPT ![t] = q]
      /\ UNCHANGED <<flagVars, put, segmentCount, blobs, failed>>
  BY DEF TakeItem, GoTo, recVars, azureVars
<1>3. /\ store \in [Streams -> Steps] /\ item \in [Streams -> Items \cup {Nothing}]
      /\ dataQueue \in [Streams -> Seq(Items)]
  BY <1>1 DEF AudioInv, AudioTypeOK
<1>4. blobs[t] \in Seq(Items) /\ dataQueue[t] \in Seq(Items) /\ S \in SUBSET Int /\ S \subseteq 1 .. put[t]
  BY <1>1, OnItsWayTyped
<1>5. x \in Items /\ q \in Seq(Items) /\ dataQueue'[t] = q
  BY <1>2, <1>3, <1>4
<1>6. OnItsWay(t) = blobs[t] \o <<x>> \o q
  <2>1. OnItsWay(t) = blobs[t] \o <<>> \o dataQueue[t]
    BY <1>2 DEF OnItsWay, Held
  <2> QED
    BY <1>2, <1>4, <1>5, <2>1, PassedOn
<1> HIDE DEF x, q
<1>7. CASE IsAudio(x) \/ drains[t]
  <2>1. store'[t] = "upload" /\ item'[t] = x
    BY <1>2, <1>3, <1>7 DEF GoTo
  <2>2. OnItsWay(t)' = OnItsWay(t)
    BY <1>2, <1>5, <1>6, <2>1 DEF OnItsWay, Held
  <2> QED
    BY <1>1, <1>2, <2>1, <2>2 DEF OrderOK, Keeps, AudioAt, Alive, flagVars
<1>8. CASE ~(IsAudio(x) \/ drains[t])
  <2>1. store'[t] = "next"
    BY <1>2, <1>3, <1>8 DEF GoTo
  <2>2. OnItsWay(t)' = blobs[t] \o <<>> \o q
    BY <1>2, <1>5, <2>1 DEF OnItsWay, Held
  <2> SUFFICES ASSUME Alive(t) PROVE OrderOK(t)'
    BY <1>2 DEF OrderOK, Alive, flagVars
  <2>3. Keeps(blobs[t] \o <<x>> \o q, S)
    BY <1>1, <1>6 DEF OrderOK
  <2> HIDE DEF S
  <2>4. Keeps(OnItsWay(t)', S \ {x})
    BY <1>4, <1>5, <2>2, <2>3, WithoutItem
  <2>5. S \ {x} = S
    <3>1. x \in Int /\ ~(x > 0)
      BY <1>5, <1>8, ItemsAreNumbers DEF IsAudio
    <3> QED
      BY <1>4, <3>1
  <2>6. Keeps(OnItsWay(t)', (1 .. put'[t]) \ failed'[t])
    BY <1>2, <2>4, <2>5 DEF S
  <2> QED
    BY <1>1, <1>2, <2>1, <2>6 DEF OrderOK, Keeps, AudioAt
<1> QED
  BY <1>7, <1>8

(***************************************************************************)
(* A blob that is written takes the place of the item in hand; an item     *)
(* that cannot be written is missing from then on.                         *)
(***************************************************************************)
LEMMA UploadOrder ==
  ASSUME OrderInv, NEW t \in Streams, Upload(t)
  PROVE  OrderOK(t)'
<1> DEFINE x == item[t]
           q == dataQueue[t]
           b == blobs[t]
           S == (1 .. put[t]) \ failed[t]
<1>1. AudioInv /\ OrderOK(t)
  BY DEF OrderInv
<1>2. /\ store[t] = "upload" /\ x \in Items
      /\ UNCHANGED <<flagVars, put, dataQueue, segmentCount>>
  BY <1>1 DEF Upload, GoTo, recVars, AudioInv, SegmentsOK
<1>3. /\ store \in [Streams -> Steps] /\ blobs \in [Streams -> Seq(Items)]
      /\ failed \in [Streams -> SUBSET Items]
  BY <1>1 DEF AudioInv, AudioTypeOK
<1>4. b \in Seq(Items) /\ q \in Seq(Items) /\ S \in SUBSET Int
      /\ put[t] \in Nat /\ segmentCount[t] \in Nat
  BY <1>1, OnItsWayTyped
<1>5. OnItsWay(t) = b \o <<x>> \o q
  BY <1>2 DEF OnItsWay, Held
<1> SUFFICES ASSUME Alive(t) PROVE OrderOK(t)'
  BY <1>2 DEF OrderOK, Alive, flagVars
<1>6. segmentCount[t] = Len(b) /\ Keeps(b \o <<x>> \o q, S) /\ \A y \in failed[t] : y <= put[t]
  BY <1>1, <1>2, <1>5 DEF OrderOK
<1>7. CASE /\ GoTo(t, "upload", "announce")
           /\ blobs' = [blobs EXCEPT ![t] =
                  IF segmentCount[t] < Len(@) THEN ReplaceAt(@, segmentCount[t] + 1, item[t])
                  ELSE Append(@, item[t])]
           /\ UNCHANGED <<item, failed>>
  <2>1. ~(segmentCount[t] < Len(b))
    BY <1>4, <1>6
  <2>2. blobs'[t] = Append(b, x) /\ store'[t] = "announce"
    BY <1>3, <1>7, <2>1 DEF GoTo
  <2>3. Len(Append(b, x)) = segmentCount[t] + 1
    BY <1>4, <1>6
  <2>4. OnItsWay(t)' = Append(b, x) \o <<>> \o q
    BY <1>2, <2>2 DEF OnItsWay, Held
  <2>5. OnItsWay(t)' = OnItsWay(t)
    BY <1>2, <1>4, <1>5, <2>4, PassedOn
  <2> QED
    BY <1>1, <1>2, <1>7, <2>2, <2>3, <2>5 DEF OrderOK, Keeps, AudioAt
<1>8. CASE /\ GoTo(t, "upload", "next")
           /\ failed' = [failed EXCEPT ![t] = @ \cup {item[t]}]
           /\ UNCHANGED blobs
  <2>1. store'[t] = "next" /\ failed'[t] = failed[t] \cup {x}
    BY <1>3, <1>8 DEF GoTo
  <2>2. OnItsWay(t)' = b \o <<>> \o q
    BY <1>2, <1>8, <2>1 DEF OnItsWay, Held
  <2>3. x <= put[t]
    <3>1. CASE ~IsAudio(x)
      <4>1. x \in Int /\ put[t] \in Nat
        BY <1>2, <1>4, ItemsAreNumbers
      <4> QED
        BY <3>1, <4>1 DEF IsAudio
    <3>2. CASE IsAudio(x)
      <4>1. Len(b) + 1 \in AudioAt(b \o <<x>> \o q) /\ (b \o <<x>> \o q)[Len(b) + 1] = x
        BY <1>2, <1>4, <3>2, MiddleItem DEF AudioAt
      <4>2. x \in S
        BY <1>6, <4>1 DEF Keeps
      <4> QED
        BY <1>4, <4>2
    <3> QED
      BY <3>1, <3>2
  <2>4. (1 .. put[t]) \ failed'[t] = S \ {x}
    BY <2>1
  <2> HIDE DEF S
  <2>5. Keeps(OnItsWay(t)', S \ {x})
    BY <1>2, <1>4, <1>6, <2>2, WithoutItem
  <2>6. Keeps(OnItsWay(t)', (1 .. put'[t]) \ failed'[t])
    BY <1>2, <2>4, <2>5
  <2>7. \A y \in failed'[t] : y <= put'[t]
    BY <1>2, <1>6, <2>1, <2>3
  <2> QED
    BY <1>2, <1>6, <1>8, <2>1, <2>6, <2>7 DEF OrderOK, Keeps, AudioAt
<1> QED
  BY <1>7, <1>8 DEF Upload

(***************************************************************************)
(* An announcement, sent or not, counts the blob that was written.         *)
(***************************************************************************)
LEMMA AnnounceOrder ==
  ASSUME OrderInv, NEW t \in Streams, Announce(t)
  PROVE  OrderOK(t)'
<1>1. /\ AudioInv /\ OrderOK(t)
      /\ store \in [Streams -> Steps] /\ segmentCount \in [Streams -> Nat]
  BY DEF OrderInv, AudioInv, AudioTypeOK
<1>2. /\ GoTo(t, "announce", "next")
      /\ segmentCount' = [segmentCount EXCEPT ![t] = @ + 1]
      /\ UNCHANGED <<flagVars, put, dataQueue, blobs, failed>>
  BY DEF Announce, AnnounceAs, FailToAnnounce, Counted, GoTo, recVars
<1>3. store[t] = "announce" /\ store'[t] = "next" /\ segmentCount'[t] = segmentCount[t] + 1
  BY <1>1, <1>2 DEF GoTo
<1>4. OnItsWay(t)' = OnItsWay(t)
  BY <1>2, <1>3 DEF OnItsWay, Held
<1> QED
  BY <1>1, <1>2, <1>3, <1>4 DEF OrderOK, Keeps, AudioAt, Alive, flagVars

(***************************************************************************)
(* A thread leaves the other streams as they are.                          *)
(***************************************************************************)
LEMMA OneStreamMoves ==
  ASSUME OrderInv, NEW t \in Streams, Storage(t), NEW u \in Streams \ {t}
  PROVE  OrderOK(u)'
<1>1. AudioInv /\ AudioTypeOK /\ OrderOK(u)
  BY DEF OrderInv, AudioInv
<1>2. UNCHANGED <<flagVars, put>> /\ store'[u] = store[u]
  BY <1>1 DEF Storage, Create, ClearStatus, SendStatus, TakeItem, LeaveLoop, EndDrain, Upload,
              Announce, AnnounceAs, FailToAnnounce, GoTo, recVars, AudioTypeOK
<1>3. dataQueue'[u] = dataQueue[u] /\ blobs'[u] = blobs[u] /\ failed'[u] = failed[u]
  BY <1>1 DEF Storage, Create, ClearStatus, SendStatus, TakeItem, LeaveLoop, EndDrain, Upload,
              Announce, AnnounceAs, FailToAnnounce, threadVars, azureVars, AudioTypeOK
<1>4. item'[u] = item[u] /\ segmentCount'[u] = segmentCount[u]
  BY <1>1 DEF Storage, Create, ClearStatus, SendStatus, TakeItem, LeaveLoop, EndDrain, Upload,
              Announce, AnnounceAs, FailToAnnounce, Counted, threadVars, azureVars, AudioTypeOK
<1>5. Alive(u)' => Alive(u)
  BY <1>2 DEF Alive, flagVars
<1> QED
  BY <1>1, <1>2, <1>3, <1>4, <1>5, OrderUnmoved

(***************************************************************************)
(* The storage threads keep the order.                                     *)
(***************************************************************************)
LEMMA StorageOrder ==
  ASSUME OrderInv, NEW t \in Streams, Storage(t)
  PROVE  \A u \in Streams : OrderOK(u)'
<1>1. CASE Create(t) \/ ClearStatus(t) \/ SendStatus(t) \/ LeaveLoop(t) \/ EndDrain(t)
  <2>1. store \in [Streams -> Steps] /\ OrderOK(t)
    BY DEF OrderInv, AudioInv, AudioTypeOK
  <2>2. /\ UNCHANGED flagVars /\ UNCHANGED put
        /\ store[t] \notin {"upload", "announce", "done", "dead"}
        /\ store'[t] \notin {"upload", "announce"}
    BY <1>1, <2>1 DEF Create, ClearStatus, SendStatus, LeaveLoop, EndDrain, GoTo, recVars
  <2>3. UNCHANGED <<dataQueue, segmentCount, blobs, failed>>
    BY <1>1 DEF Create, ClearStatus, SendStatus, LeaveLoop, EndDrain, threadVars, azureVars
  <2>4. Alive(t)' => Alive(t)
    BY <2>2 DEF Alive, flagVars
  <2>5. OrderOK(t)'
    BY <2>1, <2>2, <2>3, <2>4, OrderQuiet
  <2> QED
    BY <2>5, OneStreamMoves
<1>2. CASE TakeItem(t) \/ Upload(t) \/ Announce(t)
  BY <1>2, TakeOrder, UploadOrder, AnnounceOrder, OneStreamMoves
<1> QED
  BY <1>1, <1>2 DEF Storage

(***************************************************************************)
(* A process that has ended does not come back.                            *)
(***************************************************************************)
LEMMA ProcessesOrder ==
  ASSUME OrderInv, NEW c \in Calls,
         \/ (Genesys(c) \/ CreateFlag(c) \/ Monitor(c) \/ Stop(c)) /\ UNCHANGED audioVars
         \/ (Exit(c) \/ Kill(c)) /\ Gone(c)
  PROVE  \A u \in Streams : OrderOK(u)'
<1> SUFFICES ASSUME NEW u \in Streams PROVE OrderOK(u)'
  OBVIOUS
<1>1. OrderOK(u) /\ Call(u) \in Calls
      /\ proc \in [Calls -> {"none", "starting", "recording", "stopping", "joining", "exited", "killed"}]
  BY AzureAudioAssumption DEF OrderInv, FlagInv, FlagTypeOK, Call
<1>2. CASE (Genesys(c) \/ CreateFlag(c) \/ Monitor(c) \/ Stop(c)) /\ UNCHANGED audioVars
  <2>1. Alive(u)' => Alive(u)
    BY <1>1, <1>2 DEF Alive, Genesys, Start, EndCall, RemoveFlag, CreateFlag, Monitor, Stop
  <2> QED
    BY <1>1, <1>2, <2>1, OrderUnmoved DEF audioVars, recVars, threadVars, azureVars
<1>3. CASE (Exit(c) \/ Kill(c)) /\ Gone(c)
  <2>1. CASE Call(u) = c
    <3>1. ~Alive(u)'
      BY <1>1, <1>3, <2>1 DEF Alive, Exit, Kill
    <3> QED
      BY <3>1 DEF OrderOK
  <2>2. CASE Call(u) # c
    <3>1. Alive(u)' => Alive(u)
      BY <1>1, <1>3, <2>2 DEF Alive, Exit, Kill
    <3>2. /\ store'[u] = store[u] /\ put'[u] = put[u] /\ dataQueue'[u] = dataQueue[u]
          /\ item'[u] = item[u] /\ segmentCount'[u] = segmentCount[u]
          /\ blobs'[u] = blobs[u] /\ failed'[u] = failed[u]
      BY <1>3, <2>2 DEF Gone, Call
    <3> QED
      BY <1>1, <3>1, <3>2, OrderUnmoved
  <2> QED
    BY <2>1, <2>2
<1> QED
  BY <1>2, <1>3

(***************************************************************************)
(* BuffersInOrder holds for any number of streams, buffers, failures and   *)
(* mishaps: as long as its process records, no buffer of a stream is lost  *)
(* or passed by another, but those whose upload failed (run_storage_thread *)
(* of streamer.py, store_audio of azure_storage.py).                       *)
(***************************************************************************)
THEOREM BuffersKeepOrder == Spec => []BuffersInOrder
<1> DEFINE Ordered == \A t \in Streams : OrderOK(t)
<1>1. Init => Ordered
  BY OrderInitially
<1>2. FlagInv /\ AudioInv /\ Ordered /\ [Next]_vars => Ordered'
  <2> SUFFICES ASSUME FlagInv, AudioInv, Ordered, [Next]_vars
               PROVE  \A u \in Streams : OrderOK(u)'
    OBVIOUS
  <2>1. OrderInv
    BY DEF OrderInv
  <2>2. ASSUME NEW c \in Calls,
               \/ Genesys(c) /\ UNCHANGED audioVars
               \/ Main(c) \/ JoinsExpire(c) \/ (Kill(c) /\ Gone(c))
        PROVE  \A u \in Streams : OrderOK(u)'
    BY <2>1, <2>2, ProcessesOrder DEF Main, JoinAll, JoinsExpire
  <2>3. ASSUME NEW t \in Streams, Recorder(t) \/ PutBuffer(t) \/ Storage(t)
        PROVE  \A u \in Streams : OrderOK(u)'
    BY <2>1, <2>3, RecorderOrder, StorageOrder
  <2>4. CASE UNCHANGED vars
    <3> SUFFICES ASSUME NEW u \in Streams PROVE OrderOK(u)'
      OBVIOUS
    <3> QED
      BY <2>4, OrderUnmoved DEF vars, flagVars, audioVars, recVars, threadVars, azureVars, Alive
  <2> QED
    BY <2>2, <2>3, <2>4 DEF Next
<1>3. Ordered => BuffersInOrder
  BY DEF OrderOK, Keeps, BuffersInOrder, Running, Alive
<1> QED
  BY <1>1, <1>2, <1>3, FlagAlways, AudioAlways, PTL DEF Spec
=============================================================================
