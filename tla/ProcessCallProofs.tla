-------------------------- MODULE ProcessCallProofs --------------------------
(* Theorems about ProcessCall, for any number of calls and requests and    *)
(* every set of failures.                                                  *)
EXTENDS ProcessCall, TLAPS

(* The variables of the requests are typed. *)
RequestTypes ==
    /\ pc \in [Requests -> Steps]
    /\ callOf \in [Requests -> Calls \cup {NoCall}]
    /\ speaker \in [Requests -> Speakers]
    /\ offered \in [Requests -> SUBSET Speakers]
    /\ messages \in [Requests -> SUBSET Speakers]
    /\ journalnotat \in [Requests -> Texts \cup {"none"}]
    /\ answer \in [Requests -> {0, 200, 500}]

(* The container, the tables and the queue are typed. *)
StoreTypes ==
    /\ uploaded \in [Calls -> SUBSET Speakers]
    /\ blobs \in [Calls -> SUBSET Speakers]
    /\ notat \in Seq(Rows)
    /\ samtale \in [Calls -> SUBSET Speakers]
    /\ statusQueue \in Seq(Messages)

(* Who was sent for what: an idle request for no call yet, every other one *)
(* for a call; the note is not saved before it was predicted, and nothing  *)
(* follows the answer.                                                     *)
Sent ==
    \A r \in Requests :
        /\ pc[r] = "idle" <=> callOf[r] = NoCall
        /\ pc[r] = "save" => journalnotat[r] \in Texts
        /\ answer[r] # 0 => pc[r] = "answered"

TypeInv == RequestTypes /\ StoreTypes /\ Sent

(* The type invariant in its two parts. *)
LEMMA TypesSplit == TypeOK <=> RequestTypes /\ StoreTypes
  BY DEF TypeOK, RequestTypes, StoreTypes

(* What a request does to itself keeps the requests typed. *)
LEMMA RequestStep ==
    ASSUME TypeInv, NEW r \in Requests,
           (\E c \in Calls : Arrive(r, c)) \/ Process(r) \/ Crash(r)
    PROVE  RequestTypes' /\ Sent'
<1> USE DEF TypeInv, RequestTypes, Sent, Goto, Answer
<1>1. ASSUME NEW c \in Calls, Arrive(r, c) PROVE RequestTypes' /\ Sent'
  <2>1. blobs[c] \in SUBSET Speakers /\ c # NoCall
    BY ProcessCallAssumption DEF StoreTypes
  <2>2. pc'[r] \in {"download", "predict"}
    BY <1>1 DEF Arrive
  <2>3. RequestTypes'
    BY <1>1, <2>1 DEF Arrive, Steps
  <2>4. Sent'
    BY <1>1, <2>1, <2>2 DEF Arrive
  <2>5. QED
    BY <2>3, <2>4
<1>2. CASE Download(r)
  BY <1>2 DEF Download, NextSpeaker, Steps, Speakers
<1>3. CASE Delete(r)
  BY <1>3 DEF Delete, NextSpeaker, Steps, Speakers
<1>4. CASE Predict(r)
  BY <1>4 DEF Predict, Steps, Texts
<1>5. CASE SaveNotat(r) \/ ClearQueue(r) \/ SendSummary(r)
  BY <1>5 DEF SaveNotat, ClearQueue, SendSummary, Steps
<1>6. CASE SaveSamtale(r)
  BY <1>6 DEF SaveSamtale, Steps
<1>7. CASE Crash(r)
  BY <1>7 DEF Crash, Steps
<1>8. QED
  BY <1>1, <1>2, <1>3, <1>4, <1>5, <1>6, <1>7 DEF Process

(* A row is written for the call of a request. *)
LEMMA RowTyped ==
    ASSUME TypeInv, NEW r \in Requests, pc[r] = "save"
    PROVE  [call |-> callOf[r], kr |-> messages[r] # {}, text |-> journalnotat[r],
            speakers |-> messages[r]] \in Rows
  BY DEF TypeInv, RequestTypes, Sent, Rows

(* What a request does to the stores keeps them typed. *)
LEMMA StoreStep ==
    ASSUME TypeInv, NEW r \in Requests,
           (\E c \in Calls : Arrive(r, c)) \/ Process(r) \/ Crash(r)
    PROVE  StoreTypes'
<1> USE DEF TypeInv, StoreTypes
<1>1. CASE UNCHANGED <<uploaded, storeVars>>
  BY <1>1 DEF storeVars
<1>2. ASSUME pc[r] # "idle" PROVE callOf[r] \in Calls
  BY <1>2 DEF RequestTypes, Sent
<1>3. CASE Delete(r)
  BY <1>3, <1>2 DEF Delete
<1>4. CASE SaveNotat(r)
  <2>1. [call |-> callOf[r], kr |-> messages[r] # {}, text |-> journalnotat[r],
         speakers |-> messages[r]] \in Rows
    BY <1>4, RowTyped DEF SaveNotat
  <2>2. notat' \in Seq(Rows)
    BY <1>4, <2>1, SMTT(40) DEF SaveNotat
  <2>3. QED
    BY <1>4, <2>2 DEF SaveNotat
<1>5. CASE ClearQueue(r)
  <2>1. <<>> \in Seq(Messages)
    OBVIOUS
  <2>2. QED
    BY <1>5, <2>1 DEF ClearQueue
<1>6. CASE SendSummary(r)
  <2>1. Summary(callOf[r]) \in Messages
    BY <1>6, <1>2 DEF SendSummary, Summary, Messages
  <2>2. statusQueue' \in Seq(Messages)
    BY <1>6, <2>1, SMTT(40) DEF SendSummary
  <2>3. QED
    BY <1>6, <2>2 DEF SendSummary
<1>7. CASE SaveSamtale(r)
  BY <1>7, <1>2, SMTT(40) DEF SaveSamtale, RequestTypes
<1>8. CASE (\E c \in Calls : Arrive(r, c)) \/ Download(r) \/ Predict(r) \/ Crash(r)
  BY <1>8, <1>1 DEF Arrive, Download, Predict, Crash
<1>9. QED
  BY <1>3, <1>4, <1>5, <1>6, <1>7, <1>8 DEF Process

(* The type invariant, with Sent: without it a row could be written for no *)
(* call.                                                                   *)
LEMMA TypeStep == TypeInv /\ [Next]_vars => TypeInv'
<1> SUFFICES ASSUME TypeInv, [Next]_vars PROVE TypeInv'
  OBVIOUS
<1>1. CASE UNCHANGED vars
  BY <1>1 DEF TypeInv, RequestTypes, StoreTypes, Sent, vars, requestVars, storeVars
<1>2. ASSUME NEW c \in Calls, NEW s \in Speakers, Upload(c, s) PROVE TypeInv'
  BY <1>2 DEF Upload, TypeInv, RequestTypes, StoreTypes, Sent, requestVars
<1>3. QED
  BY <1>1, <1>2, RequestStep, StoreStep DEF Next, TypeInv

(* The initial state is typed. *)
LEMMA TypeInit == Init => TypeInv
<1> SUFFICES ASSUME Init PROVE TypeInv
  OBVIOUS
<1>1. notat \in Seq(Rows) /\ statusQueue \in Seq(Messages)
  BY DEF Init
<1>2. StoreTypes
  BY <1>1 DEF Init, StoreTypes
<1>3. RequestTypes /\ Sent
  BY DEF Init, RequestTypes, Sent, Steps, Speakers
<1>4. QED
  BY <1>2, <1>3 DEF TypeInv

(* The variables of the endpoint keep their types, for any number of calls *)
(* and requests and every set of failures.                                 *)
THEOREM TypeCorrect == Spec => []TypeOK
<1>1. Spec => []TypeInv
  BY TypeInit, TypeStep, PTL DEF Spec
<1>2. TypeInv => TypeOK
  BY TypesSplit DEF TypeInv
<1>3. QED
  BY <1>1, <1>2, PTL

-----------------------------------------------------------------------------
(* Rows are only ever added. *)
LEMMA NotesStay ==
    ASSUME TypeInv, [Next]_vars, NEW c, HasNote(c)
    PROVE  HasNote(c)'
<1>1. UNCHANGED notat \/ \E row \in Rows : notat' = Append(notat, row)
  <2>1. ASSUME NEW r \in Requests, SaveNotat(r)
        PROVE  UNCHANGED notat \/ \E row \in Rows : notat' = Append(notat, row)
    BY <2>1, RowTyped DEF SaveNotat
  <2>2. ASSUME NEW r \in Requests,
               \/ (\E d \in Calls : Arrive(r, d)) \/ Crash(r) \/ Download(r)
               \/ Delete(r) \/ Predict(r) \/ ClearQueue(r) \/ SendSummary(r)
               \/ SaveSamtale(r)
        PROVE  UNCHANGED notat
    BY <2>2 DEF Arrive, Crash, Download, Delete, Predict, ClearQueue,
                SendSummary, SaveSamtale, storeVars
  <2>3. QED
    BY <2>1, <2>2 DEF Next, Process, Upload, vars, storeVars
<1>2. PICK i \in DOMAIN notat : notat[i].call = c
  BY DEF HasNote
<1>3. i \in DOMAIN notat' /\ notat'[i] = notat[i]
  <2>1. notat \in Seq(Rows)
    BY DEF TypeInv, StoreTypes
  <2>2. ASSUME NEW row \in Rows, notat' = Append(notat, row)
        PROVE  i \in DOMAIN notat' /\ notat'[i] = notat[i]
    BY <1>2, <2>1, <2>2
  <2>3. QED
    BY <1>1, <1>2, <2>2
<1>4. QED
  BY <1>2, <1>3 DEF HasNote

(* A request that is about to announce its call finds a note in the table, *)
(* its own or the one that rejected its own.                               *)
NoteSaved ==
    "db" \notin Faults =>
        \A r \in Requests :
            pc[r] \in {"notify", "send"} => HasNote(callOf[r])

SummaryInv == TypeInv /\ NoteSaved /\ SummaryHasNote

(* A working database has a note of the call after the insert. *)
LEMMA SaveNotatSaves ==
    ASSUME TypeInv, "db" \notin Faults, NEW r \in Requests, SaveNotat(r)
    PROVE  HasNote(callOf[r])' /\ callOf' = callOf
<1>1. callOf' = callOf
  BY DEF SaveNotat
<1>2. CASE HasNote(callOf[r])
  <2>1. [Next]_vars
    BY DEF Next, Process
  <2>2. QED
    BY <1>1, <1>2, <2>1, NotesStay DEF HasNote
<1>3. CASE ~HasNote(callOf[r])
  <2>1. PICK row \in Rows : notat' = Append(notat, row) /\ row.call = callOf[r]
    BY <1>3, RowTyped DEF SaveNotat, Fault
  <2>2. Len(notat) + 1 \in DOMAIN notat' /\ notat'[Len(notat) + 1] = row
    BY <2>1 DEF TypeInv, StoreTypes
  <2>3. QED
    BY <1>1, <2>1, <2>2 DEF HasNote
<1>4. QED
  BY <1>2, <1>3

(* Only the insert leads to the announcement. *)
LEMMA NoteSavedStep == SummaryInv /\ [Next]_vars => NoteSaved'
<1> SUFFICES ASSUME SummaryInv, [Next]_vars, "db" \notin Faults,
                    NEW r \in Requests, pc'[r] \in {"notify", "send"}
             PROVE  HasNote(callOf[r])'
  BY DEF NoteSaved
<1>1. CASE pc[r] \in {"notify", "send"} /\ callOf'[r] = callOf[r]
  <2>1. HasNote(callOf[r])
    BY <1>1 DEF SummaryInv, NoteSaved
  <2>2. HasNote(callOf[r])' <=> \E i \in DOMAIN notat' : notat'[i].call = callOf[r]
    BY <1>1 DEF HasNote
  <2>3. \E i \in DOMAIN notat' : notat'[i].call = callOf[r]
    BY <2>1, NotesStay DEF SummaryInv, HasNote
  <2>4. QED
    BY <2>2, <2>3
<1>2. CASE SaveNotat(r)
  BY <1>2, SaveNotatSaves DEF SummaryInv
<1>3. SaveNotat(r) \/ (pc[r] \in {"notify", "send"} /\ callOf'[r] = callOf[r])
  <2> USE DEF SummaryInv, TypeInv, RequestTypes, Goto, Answer
  <2>1. ASSUME NEW q \in Requests, NEW c \in Calls, Arrive(q, c)
        PROVE  pc[r] \in {"notify", "send"} /\ callOf'[r] = callOf[r]
    BY <2>1 DEF Arrive
  <2>2. ASSUME NEW q \in Requests,
               \/ Download(q) \/ Delete(q) \/ Predict(q) \/ ClearQueue(q)
               \/ SendSummary(q) \/ SaveSamtale(q) \/ Crash(q)
        PROVE  pc[r] \in {"notify", "send"} /\ callOf'[r] = callOf[r]
    BY <2>2 DEF Download, Delete, NextSpeaker, Predict, ClearQueue, SendSummary,
                SaveSamtale, Crash
  <2>3. ASSUME NEW q \in Requests, SaveNotat(q)
        PROVE  SaveNotat(r) \/ (pc[r] \in {"notify", "send"} /\ callOf'[r] = callOf[r])
    <3>1. CASE q = r
      BY <2>3, <3>1
    <3>2. CASE q # r
      BY <2>3, <3>2 DEF SaveNotat
    <3>3. QED
      BY <3>1, <3>2
  <2>4. QED
    BY <2>1, <2>2, <2>3 DEF Next, Process, Upload, vars, requestVars
<1>4. QED
  BY <1>1, <1>2, <1>3

(* A message is sent by a request that found a note, and notes stay. *)
LEMMA SummaryStep == SummaryInv /\ [Next]_vars => SummaryHasNote'
<1> SUFFICES ASSUME SummaryInv, [Next]_vars, "db" \notin Faults,
                    NEW i \in DOMAIN statusQueue'
             PROVE  HasNote(statusQueue[i].call)'
  BY DEF SummaryHasNote
<1>1. \/ i \in DOMAIN statusQueue /\ statusQueue'[i] = statusQueue[i]
      \/ \E r \in Requests :
             /\ pc[r] = "send" /\ UNCHANGED notat
             /\ statusQueue'[i].call = callOf[r]
  <2>1. ASSUME NEW r \in Requests, SendSummary(r)
        PROVE  \/ i \in DOMAIN statusQueue /\ statusQueue'[i] = statusQueue[i]
               \/ /\ pc[r] = "send" /\ UNCHANGED notat
                  /\ statusQueue'[i].call = callOf[r]
    BY <2>1, SMTT(40) DEF SendSummary, Summary, SummaryInv, TypeInv, StoreTypes
  <2>2. ASSUME NEW r \in Requests, ClearQueue(r)
        PROVE  i \in DOMAIN statusQueue /\ statusQueue'[i] = statusQueue[i]
    BY <2>2 DEF ClearQueue
  <2>3. ASSUME NEW r \in Requests,
               \/ (\E d \in Calls : Arrive(r, d)) \/ Crash(r) \/ Download(r)
               \/ Delete(r) \/ Predict(r) \/ SaveNotat(r) \/ SaveSamtale(r)
        PROVE  UNCHANGED statusQueue
    BY <2>3 DEF Arrive, Crash, Download, Delete, Predict, SaveNotat,
                SaveSamtale, storeVars
  <2>4. QED
    BY <2>1, <2>2, <2>3 DEF Next, Process, Upload, vars, storeVars
<1>2. CASE i \in DOMAIN statusQueue /\ statusQueue'[i] = statusQueue[i]
  <2>1. HasNote(statusQueue[i].call)
    BY <1>2 DEF SummaryInv, SummaryHasNote
  <2>2. \E j \in DOMAIN notat' : notat'[j].call = statusQueue[i].call
    BY <2>1, NotesStay DEF SummaryInv, HasNote
  <2>3. QED
    BY <1>2, <2>2 DEF HasNote
<1>3. ASSUME NEW r \in Requests, pc[r] = "send", UNCHANGED notat,
             statusQueue'[i].call = callOf[r]
      PROVE  HasNote(statusQueue[i].call)'
  BY <1>3 DEF SummaryInv, NoteSaved, HasNote
<1>4. QED
  BY <1>1, <1>2, <1>3

(* Unless the database fails, an end-summary in the agent's queue means    *)
(* that jn.notat has a note of that call: for any number of calls and of   *)
(* requests for the same call, however they interleave and otherwise fail. *)
THEOREM SummaryNote == Spec => []SummaryHasNote
<1>1. Init => SummaryInv
  BY TypeInit DEF Init, SummaryInv, NoteSaved, SummaryHasNote
<1>2. SummaryInv /\ [Next]_vars => SummaryInv'
  BY TypeStep, NoteSavedStep, SummaryStep DEF SummaryInv
<1>3. SummaryInv => SummaryHasNote
  BY DEF SummaryInv
<1>4. QED
  BY <1>1, <1>2, <1>3, PTL DEF Spec

-----------------------------------------------------------------------------
(* The request holds what it is about to delete. *)
DeleteHeld == \A r \in Requests : pc[r] = "delete" => speaker[r] \in messages[r]

(* Words are in jn.samtale only by a request that was answered. *)
SavedByAnswered ==
    \A c \in Calls :
        samtale[c] # {} => \E r \in Requests : callOf[r] = c /\ pc[r] = "answered"

TranscriptInv == TypeInv /\ DeleteHeld /\ SavedByAnswered /\ TranscriptKept

(* Only a download leads to a delete. *)
LEMMA DeleteHeldStep == TypeInv /\ DeleteHeld /\ [Next]_vars => DeleteHeld'
<1> SUFFICES ASSUME TypeInv, DeleteHeld, [Next]_vars,
                    NEW r \in Requests, pc'[r] = "delete"
             PROVE  speaker'[r] \in messages'[r]
  BY DEF DeleteHeld
<1> USE DEF TypeInv, RequestTypes, DeleteHeld, Goto, Answer
<1>1. ASSUME NEW q \in Requests, Download(q) PROVE speaker'[r] \in messages'[r]
  BY <1>1 DEF Download, NextSpeaker
<1>2. ASSUME NEW q \in Requests, Delete(q) PROVE speaker'[r] \in messages'[r]
  BY <1>2 DEF Delete, NextSpeaker
<1>3. ASSUME NEW q \in Requests,
             \/ (\E d \in Calls : Arrive(q, d)) \/ Crash(q) \/ Predict(q)
             \/ SaveNotat(q) \/ ClearQueue(q) \/ SendSummary(q) \/ SaveSamtale(q)
      PROVE  speaker'[r] \in messages'[r]
  BY <1>3 DEF Arrive, Crash, Predict, SaveNotat, ClearQueue, SendSummary,
              SaveSamtale
<1>4. QED
  BY <1>1, <1>2, <1>3 DEF Next, Process, Upload, vars, requestVars

(* The insert into jn.samtale and the answer are one step. *)
LEMMA SavedByAnsweredStep ==
    TypeInv /\ SavedByAnswered /\ [Next]_vars => SavedByAnswered'
<1> SUFFICES ASSUME TypeInv, SavedByAnswered, [Next]_vars,
                    NEW c \in Calls, samtale'[c] # {}
             PROVE  \E r \in Requests : callOf'[r] = c /\ pc'[r] = "answered"
  BY DEF SavedByAnswered
<1> USE DEF TypeInv, RequestTypes, Sent, Goto, Answer
<1>1. ASSUME NEW r \in Requests, callOf[r] = c, pc[r] = "answered"
      PROVE  callOf'[r] = c /\ pc'[r] = "answered"
  <2>1. ASSUME NEW q \in Requests,
               (\E d \in Calls : Arrive(q, d)) \/ Process(q) \/ Crash(q)
        PROVE  callOf'[r] = c /\ pc'[r] = "answered"
    BY <1>1, <2>1 DEF Arrive, Process, Crash, Download, Delete, NextSpeaker,
         Predict, SaveNotat, ClearQueue, SendSummary, SaveSamtale
  <2>2. QED
    BY <1>1, <2>1 DEF Next, Upload, vars, requestVars
<1>2. CASE samtale[c] # {}
  BY <1>1, <1>2 DEF SavedByAnswered
<1>3. ASSUME NEW q \in Requests, SaveSamtale(q), samtale[c] = {}
      PROVE  callOf'[q] = c /\ pc'[q] = "answered"
  BY <1>3 DEF SaveSamtale, StoreTypes
<1>4. CASE UNCHANGED samtale
  BY <1>2, <1>4
<1>5. UNCHANGED samtale \/ \E q \in Requests : SaveSamtale(q)
  BY DEF Next, Process, Upload, Arrive, Crash, Download, Delete, Predict,
         SaveNotat, ClearQueue, SendSummary, vars, storeVars
<1>6. QED
  BY <1>2, <1>3, <1>4, <1>5

(* A step of a request either leaves a transcript it holds in its hands,   *)
(* or saves it, or breaks the request.                                     *)
LEMMA HeldStays ==
    ASSUME TypeInv, SavedByAnswered, "db" \notin Faults,
           NEW c \in Calls, AskedOnce(c), NEW s,
           NEW q \in Requests,
           (\E d \in Calls : Arrive(q, d)) \/ Process(q) \/ Crash(q),
           InProcess(c, s)
    PROVE  InProcess(c, s)' \/ s \in samtale'[c] \/ Broken(c)'
<1> USE DEF TypeInv, RequestTypes, Sent, Goto, Answer
<1>1. PICK r \in Requests : /\ callOf[r] = c
                           /\ s \in messages[r]
                           /\ pc[r] \notin {"answered", "dead"}
  BY DEF InProcess
<1>2. CASE Download(q) \/ Delete(q)
  <2>1. callOf'[r] = c /\ s \in messages'[r] /\ pc'[r] \notin {"answered", "dead"}
    BY <1>1, <1>2 DEF Download, Delete, NextSpeaker
  <2>2. QED
    BY <2>1 DEF InProcess
<1>3. CASE Predict(q)
  <2>1. /\ callOf'[r] = c /\ s \in messages'[r]
        /\ pc'[r] \notin {"answered", "dead"} \/ answer'[r] = 500
    BY <1>1, <1>3 DEF Predict
  <2>2. QED
    BY <2>1 DEF InProcess, Broken
<1>4. CASE SaveNotat(q) \/ ClearQueue(q) \/ SendSummary(q)
  <2>1. callOf'[r] = c /\ s \in messages'[r] /\ pc'[r] \notin {"answered", "dead"}
    BY <1>1, <1>4 DEF SaveNotat, ClearQueue, SendSummary
  <2>2. QED
    BY <2>1 DEF InProcess
<1>5. CASE SaveSamtale(q)
  <2>1. CASE q # r
    <3>1. callOf'[r] = c /\ s \in messages'[r] /\ pc'[r] \notin {"answered", "dead"}
      BY <1>1, <1>5, <2>1 DEF SaveSamtale
    <3>2. QED
      BY <3>1 DEF InProcess
  <2>2. CASE q = r
    <3>1. samtale[c] = {}
      BY <1>1, <1>5, <2>2 DEF SavedByAnswered, AskedOnce, SaveSamtale
    <3>2. samtale' = [samtale EXCEPT ![c] = messages[r]]
      BY <1>1, <1>5, <2>2, <3>1 DEF SaveSamtale, Fault
    <3>3. QED
      BY <1>1, <3>2 DEF StoreTypes
  <2>3. QED
    BY <2>1, <2>2
<1>6. CASE (\E d \in Calls : Arrive(q, d)) \/ Crash(q)
  <2>1. /\ callOf'[r] = c /\ s \in messages'[r]
        /\ pc'[r] # "answered"
    BY <1>1, <1>6, ProcessCallAssumption DEF Arrive, Crash
  <2>2. QED
    BY <2>1 DEF InProcess, Broken
<1>7. QED
  BY <1>2, <1>3, <1>4, <1>5, <1>6 DEF Process

(* A call asked for once, by an unbroken request, was so before the step. *)
LEMMA OnceStays ==
    ASSUME TypeInv, [Next]_vars, NEW c \in Calls
    PROVE  /\ AskedOnce(c)' => AskedOnce(c)
           /\ Broken(c) => Broken(c)'
<1> USE DEF TypeInv, RequestTypes, Sent, Goto, Answer
<1>1. ASSUME NEW r \in Requests, callOf[r] = c
      PROVE  /\ callOf'[r] = c
             /\ pc[r] = "dead" => pc'[r] = "dead"
             /\ answer[r] = 500 => answer'[r] = 500
  <2>1. ASSUME NEW q \in Requests,
               (\E d \in Calls : Arrive(q, d)) \/ Process(q) \/ Crash(q)
        PROVE  /\ callOf'[r] = c
               /\ pc[r] = "dead" => pc'[r] = "dead"
               /\ answer[r] = 500 => answer'[r] = 500
    BY <1>1, <2>1, ProcessCallAssumption
       DEF Arrive, Process, Crash, Download, Delete, NextSpeaker, Predict,
           SaveNotat, ClearQueue, SendSummary, SaveSamtale
  <2>2. QED
    BY <1>1, <2>1 DEF Next, Upload, vars, requestVars
<1>2. QED
  BY <1>1 DEF AskedOnce, Broken

(* No step loses a transcript. *)
LEMMA TranscriptStep == TranscriptInv /\ [Next]_vars => TranscriptKept'
<1> SUFFICES ASSUME TranscriptInv, [Next]_vars, "db" \notin Faults,
                    NEW c \in Calls, AskedOnce(c)', ~Broken(c)',
                    NEW s \in uploaded'[c]
             PROVE  s \in blobs'[c] \/ InProcess(c, s)' \/ s \in samtale'[c]
  BY DEF TranscriptKept
<1>1. AskedOnce(c) /\ ~Broken(c)
  BY OnceStays DEF TranscriptInv
<1>2. s \in uploaded[c] => s \in blobs[c] \/ InProcess(c, s) \/ s \in samtale[c]
  BY <1>1 DEF TranscriptInv, TranscriptKept
<1>3. CASE UNCHANGED vars
  BY <1>2, <1>3 DEF vars, requestVars, storeVars, InProcess
<1>4. ASSUME NEW d \in Calls, NEW t \in Speakers, Upload(d, t)
      PROVE  s \in blobs'[c] \/ InProcess(c, s)' \/ s \in samtale'[c]
  BY <1>2, <1>4 DEF Upload, requestVars, InProcess, TranscriptInv, TypeInv, StoreTypes
<1>5. ASSUME NEW q \in Requests,
             (\E d \in Calls : Arrive(q, d)) \/ Process(q) \/ Crash(q)
      PROVE  s \in blobs'[c] \/ InProcess(c, s)' \/ s \in samtale'[c]
  <2>1. uploaded' = uploaded
    BY <1>5 DEF Arrive, Process, Crash, Download, Delete, Predict, SaveNotat,
         ClearQueue, SendSummary, SaveSamtale
  <2>2. CASE InProcess(c, s)
    BY <1>1, <1>5, <2>2, HeldStays DEF TranscriptInv
  <2>3. CASE s \in samtale[c]
    <3>1. s \in samtale'[c]
      BY <1>5, <2>3 DEF Arrive, Process, Crash, Download, Delete, Predict,
           SaveNotat, ClearQueue, SendSummary, SaveSamtale, storeVars,
           TranscriptInv, TypeInv, StoreTypes
    <3>2. QED
      BY <3>1
  <2>4. CASE s \in blobs[c] /\ s \notin blobs'[c]
    <3>1. Delete(q) /\ callOf[q] = c /\ s = speaker[q]
      BY <1>5, <2>4 DEF Arrive, Process, Crash, Download, Delete, Predict,
           SaveNotat, ClearQueue, SendSummary, SaveSamtale, storeVars,
           TranscriptInv, TypeInv, StoreTypes
    <3>2. callOf'[q] = c /\ s \in messages'[q] /\ pc'[q] \notin {"answered", "dead"}
      BY <3>1 DEF Delete, NextSpeaker, Goto, TranscriptInv, TypeInv, RequestTypes,
                  DeleteHeld
    <3>3. QED
      BY <3>2 DEF InProcess
  <2>5. QED
    BY <1>2, <2>1, <2>2, <2>3, <2>4
<1>6. QED
  BY <1>3, <1>4, <1>5 DEF Next

(* A transcript is deleted long before it is saved; for a call processed   *)
(* once, by a request neither killed nor answered 500, it is still never   *)
(* lost unless the database fails, whatever else fails and however the     *)
(* requests for other calls interleave.                                    *)
THEOREM TranscriptsKept == Spec => []TranscriptKept
<1>1. Init => TranscriptInv
  BY TypeInit DEF Init, TranscriptInv, DeleteHeld, SavedByAnswered, TranscriptKept
<1>2. TranscriptInv /\ [Next]_vars => TranscriptInv'
  BY TypeStep, DeleteHeldStep, SavedByAnsweredStep, TranscriptStep DEF TranscriptInv
<1>3. TranscriptInv => TranscriptKept
  BY DEF TranscriptInv
<1>4. QED
  BY <1>1, <1>2, <1>3, PTL DEF Spec

-----------------------------------------------------------------------------
(* The blob of the speaker is still to be read by the request. *)
Pending(r, s) ==
    \/ pc[r] = "download" /\ (s = speaker[r] \/ speaker[r] = "agent")
    \/ pc[r] = "delete" /\ speaker[r] = "agent" /\ s = "caller"

(* What the only request for a call found in the container it has read, or *)
(* it will find it there when the speaker's turn comes.                    *)
Reading ==
    Faults \cap {"storage", "download"} = {} =>
        \A r \in Requests :
            pc[r] # "dead" /\ AskedOnce(callOf[r]) =>
                \A s \in offered[r] :
                    \/ s \in messages[r]
                    \/ s \in blobs[callOf[r]] /\ Pending(r, s)

(* A request that has not arrived found nothing; a row was asked for. *)
Asked ==
    /\ \A r \in Requests :
           pc[r] = "idle" => offered[r] = {} /\ speaker[r] = "agent"
    /\ \A i \in DOMAIN notat : \E r \in Requests : callOf[r] = notat[i].call

NoteInv == TypeInv /\ Asked /\ Reading /\ NoteUsesWholeCall

(* Once sent, a request keeps its call and what it was offered. *)
LEMMA SentStays ==
    ASSUME TypeInv, [Next]_vars, NEW r \in Requests, callOf[r] # NoCall
    PROVE  callOf'[r] = callOf[r] /\ offered'[r] = offered[r]
<1>1. ASSUME NEW q \in Requests,
             (\E d \in Calls : Arrive(q, d)) \/ Process(q) \/ Crash(q)
      PROVE  callOf'[r] = callOf[r] /\ offered'[r] = offered[r]
  BY <1>1 DEF TypeInv, RequestTypes, Sent, Arrive, Process, Crash, Download,
       Delete, Predict, SaveNotat, ClearQueue, SendSummary, SaveSamtale
<1>2. QED
  BY <1>1 DEF Next, Upload, vars, requestVars

(* A row is for a call. *)
LEMMA RowCalls ==
    ASSUME TypeInv, NEW i \in DOMAIN notat
    PROVE  notat[i].call \in Calls
<1>1. notat \in Seq(Rows)
  BY DEF TypeInv, StoreTypes
<1>2. notat[i] \in Rows
  BY <1>1
<1>3. QED
  BY <1>2 DEF Rows

(* The notes grow only by the row of a request that saves. *)
LEMMA RowStep ==
    ASSUME TypeInv, [Next]_vars, NEW i \in DOMAIN notat'
    PROVE  \/ i \in DOMAIN notat /\ notat'[i] = notat[i]
           \/ \E q \in Requests :
                 /\ pc[q] = "save"
                 /\ notat'[i].call = callOf[q]
                 /\ notat'[i].speakers = messages[q]
<1>1. ASSUME NEW q \in Requests, SaveNotat(q)
      PROVE  \/ i \in DOMAIN notat /\ notat'[i] = notat[i]
             \/ /\ pc[q] = "save"
                /\ notat'[i].call = callOf[q]
                /\ notat'[i].speakers = messages[q]
  <2> DEFINE row == [call |-> callOf[q], kr |-> messages[q] # {},
                     text |-> journalnotat[q], speakers |-> messages[q]]
  <2>1. row \in Rows /\ notat \in Seq(Rows)
    BY <1>1, RowTyped DEF SaveNotat, TypeInv, StoreTypes
  <2>2. row.call = callOf[q] /\ row.speakers = messages[q]
    OBVIOUS
  <2>3. UNCHANGED notat \/ notat' = Append(notat, row)
    BY <1>1 DEF SaveNotat
  <2> HIDE DEF row
  <2>4. \/ i \in DOMAIN notat /\ notat'[i] = notat[i]
        \/ notat'[i] = row
    BY <2>1, <2>3
  <2>5. QED
    BY <1>1, <2>2, <2>4 DEF SaveNotat
<1>2. ASSUME NEW q \in Requests,
             \/ (\E d \in Calls : Arrive(q, d)) \/ Crash(q) \/ Download(q)
             \/ Delete(q) \/ Predict(q) \/ ClearQueue(q) \/ SendSummary(q)
             \/ SaveSamtale(q)
      PROVE  UNCHANGED notat
  BY <1>2 DEF Arrive, Crash, Download, Delete, Predict, ClearQueue,
              SendSummary, SaveSamtale, storeVars
<1>3. QED
  BY <1>1, <1>2 DEF Next, Process, Upload, vars, storeVars

(* Only a request that arrived writes a row. *)
LEMMA AskedStep == TypeInv /\ Asked /\ [Next]_vars => Asked'
<1> SUFFICES ASSUME TypeInv, Asked, [Next]_vars PROVE Asked'
  OBVIOUS
<1>1. ASSUME NEW r \in Requests, pc'[r] = "idle"
      PROVE  offered'[r] = {} /\ speaker'[r] = "agent"
  <2>1. ASSUME NEW q \in Requests,
               (\E d \in Calls : Arrive(q, d)) \/ Process(q) \/ Crash(q)
        PROVE  offered'[r] = {} /\ speaker'[r] = "agent"
    BY <1>1, <2>1 DEF TypeInv, RequestTypes, Asked, Arrive, Process, Crash,
         Download, Delete, NextSpeaker, Predict, SaveNotat, ClearQueue,
         SendSummary, SaveSamtale, Goto, Answer
  <2>2. QED
    BY <1>1, <2>1 DEF Next, Upload, vars, requestVars, Asked
<1>2. ASSUME NEW i \in DOMAIN notat'
      PROVE  \E r \in Requests : callOf'[r] = notat'[i].call
  <2>1. CASE i \in DOMAIN notat /\ notat'[i] = notat[i]
    <3>1. notat[i].call \in Calls
      BY <2>1, RowCalls
    <3>2. PICK r \in Requests : callOf[r] = notat[i].call
      BY <2>1 DEF Asked
    <3>3. QED
      BY <2>1, <3>1, <3>2, SentStays, ProcessCallAssumption
  <2>2. ASSUME NEW q \in Requests, pc[q] = "save", notat'[i].call = callOf[q]
        PROVE  callOf'[q] = notat'[i].call
    BY <2>2, SentStays DEF TypeInv, Sent
  <2>3. QED
    BY <1>2, <2>1, <2>2, RowStep
<1>3. QED
  BY <1>1, <1>2 DEF Asked

(* No step makes a request skip a blob that was there when it arrived. *)
LEMMA ReadingStep == NoteInv /\ [Next]_vars => Reading'
<1> SUFFICES ASSUME NoteInv, [Next]_vars,
                    Faults \cap {"storage", "download"} = {},
                    NEW r \in Requests, pc'[r] # "dead",
                    NEW c, c = callOf'[r], AskedOnce(c)',
                    NEW s \in offered'[r]
             PROVE  s \in messages'[r] \/ (s \in blobs'[c] /\ Pending(r, s)')
  BY DEF Reading, AskedOnce
<1> USE DEF NoteInv, TypeInv, RequestTypes, StoreTypes, Sent, Goto, Answer
<1>1. ASSUME NEW d \in Calls, Arrive(r, d)
      PROVE  s \in blobs'[c] /\ Pending(r, s)'
  BY <1>1 DEF Arrive, Pending, Asked, Fault, storeVars
<1>2. CASE callOf'[r] = callOf[r] /\ offered'[r] = offered[r] /\ pc[r] # "idle"
  <2>1. c \in Calls /\ AskedOnce(c)
    BY <1>2, OnceStays
  <2>2. pc[r] # "dead" =>
          s \in messages[r] \/ (s \in blobs[c] /\ Pending(r, s))
    BY <1>2, <2>1 DEF Reading
  <2>3. ASSUME NEW q \in Requests, q # r,
               (\E d \in Calls : Arrive(q, d)) \/ Process(q) \/ Crash(q)
        PROVE  s \in messages'[r] \/ (s \in blobs'[c] /\ Pending(r, s)')
    <3>1. /\ pc'[r] = pc[r] /\ speaker'[r] = speaker[r]
          /\ messages'[r] = messages[r]
      BY <2>3 DEF Arrive, Process, Crash, Download, Delete, NextSpeaker,
           Predict, SaveNotat, ClearQueue, SendSummary, SaveSamtale
    <3>2. callOf[q] # c
      BY <1>2, <2>1, <2>3 DEF AskedOnce
    <3>3. blobs'[c] = blobs[c]
      BY <2>1, <2>3, <3>2 DEF Arrive, Process, Crash, Download, Delete,
           Predict, SaveNotat, ClearQueue, SendSummary, SaveSamtale, storeVars
    <3>4. QED
      BY <2>2, <3>1, <3>3 DEF Pending
  <2>4. CASE Download(r)
    BY <1>2, <2>1, <2>2, <2>4 DEF Download, NextSpeaker, Pending, Fault,
         storeVars, Speakers
  <2>5. CASE Delete(r)
    BY <1>2, <2>1, <2>2, <2>5 DEF Delete, NextSpeaker, Pending, Speakers
  <2>6. CASE \/ Predict(r) \/ SaveNotat(r) \/ ClearQueue(r) \/ SendSummary(r)
             \/ SaveSamtale(r) \/ Crash(r)
    BY <2>2, <2>6 DEF Predict, SaveNotat, ClearQueue, SendSummary, SaveSamtale,
         Crash, Pending
  <2>7. CASE UNCHANGED vars
    BY <2>2, <2>7 DEF vars, requestVars, storeVars, Pending
  <2>8. ASSUME NEW d \in Calls, NEW t \in Speakers, Upload(d, t)
        PROVE  s \in messages'[r] \/ (s \in blobs'[c] /\ Pending(r, s)')
    BY <2>1, <2>2, <2>8 DEF Upload, requestVars, Pending
  <2>9. ASSUME NEW d \in Calls, Arrive(r, d) PROVE FALSE
    BY <1>2, <2>9 DEF Arrive
  <2>10. QED
    BY <2>3, <2>4, <2>5, <2>6, <2>7, <2>8, <2>9 DEF Next, Process
<1>3. \/ \E d \in Calls : Arrive(r, d)
      \/ callOf'[r] = callOf[r] /\ offered'[r] = offered[r] /\ pc[r] # "idle"
  <2>1. CASE callOf[r] # NoCall
    BY <2>1, SentStays
  <2>2. CASE callOf[r] = NoCall /\ ~\E d \in Calls : Arrive(r, d)
    <3>1. pc[r] = "idle" /\ offered[r] = {}
      BY <2>2 DEF Asked
    <3>2. offered'[r] = offered[r]
      <4>1. ASSUME NEW q \in Requests,
                   (\E d \in Calls : Arrive(q, d)) \/ Process(q) \/ Crash(q)
            PROVE  offered'[r] = offered[r]
        BY <2>2, <4>1 DEF Arrive, Process, Crash, Download, Delete, Predict,
             SaveNotat, ClearQueue, SendSummary, SaveSamtale
      <4>2. QED
        BY <4>1 DEF Next, Upload, vars, requestVars
    <3>3. QED
      BY <3>1, <3>2
  <2>3. QED
    BY <2>1, <2>2
<1>4. QED
  BY <1>1, <1>2, <1>3

(* A new row is that of the only request; an old one stays. *)
LEMMA NoteStep == NoteInv /\ [Next]_vars => NoteUsesWholeCall'
<1> SUFFICES ASSUME NoteInv, [Next]_vars,
                    Faults \cap {"storage", "download"} = {},
                    NEW r \in Requests, NEW i \in DOMAIN notat',
                    NEW c, c = callOf'[r], notat'[i].call = c, AskedOnce(c)'
             PROVE  offered'[r] \subseteq notat'[i].speakers
  BY DEF NoteUsesWholeCall, AskedOnce
<1> USE DEF NoteInv
<1>1. CASE i \in DOMAIN notat /\ notat'[i] = notat[i]
  <2>1. c \in Calls
    BY <1>1, RowCalls
  <2>2. PICK q \in Requests : callOf[q] = c
    BY <1>1 DEF Asked
  <2>3. q = r /\ offered'[r] = offered[r]
    BY <2>1, <2>2, SentStays, ProcessCallAssumption DEF AskedOnce
  <2>4. AskedOnce(c)
    BY <2>1, OnceStays
  <2>5. QED
    BY <1>1, <2>2, <2>3, <2>4 DEF NoteUsesWholeCall
<1>2. ASSUME NEW q \in Requests, pc[q] = "save",
             notat'[i].call = callOf[q], notat'[i].speakers = messages[q]
      PROVE  offered'[r] \subseteq notat'[i].speakers
  <2>1. callOf[q] = c /\ c # NoCall /\ c \in Calls
    BY <1>2 DEF TypeInv, RequestTypes, Sent
  <2>2. q = r /\ offered'[r] = offered[r]
    BY <2>1, SentStays DEF AskedOnce
  <2>3. AskedOnce(c)
    BY <2>1, OnceStays
  <2>4. offered[r] \subseteq messages[r]
    BY <1>2, <2>1, <2>2, <2>3 DEF Reading, Pending
  <2>5. QED
    BY <1>2, <2>2, <2>4
<1>3. QED
  BY <1>1, <1>2, RowStep

(* Unless the container cannot be read, the note of a call processed once  *)
(* rests on every transcript that was there when its request arrived,      *)
(* whatever other requests do and wherever the request is killed.          *)
THEOREM NoteWholeCall == Spec => []NoteUsesWholeCall
<1>1. Init => NoteInv
  BY TypeInit DEF Init, NoteInv, Asked, Reading, NoteUsesWholeCall
<1>2. NoteInv /\ [Next]_vars => NoteInv'
  BY TypeStep, AskedStep, ReadingStep, NoteStep DEF NoteInv
<1>3. NoteInv => NoteUsesWholeCall
  BY DEF NoteInv
<1>4. QED
  BY <1>1, <1>2, <1>3, PTL DEF Spec
=============================================================================
