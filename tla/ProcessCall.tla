----------------------------- MODULE ProcessCall -----------------------------
(***************************************************************************)
(* Leverance's endpoint /process_call: the requests for the calls of one   *)
(* agent, each a sequence of steps against the blob container with the     *)
(* transcripts, the language model, the tables jn.notat and jn.samtale,    *)
(* and the agent's status queue.  Requests run concurrently, one worker    *)
(* each, and every step may meet the failure of the service it calls.      *)
(*                                                                         *)
(* A transcript is the set of speakers it has lines of: what a call says   *)
(* is reduced to whose words reached the note and the tables.              *)
(***************************************************************************)
EXTENDS Naturals, Sequences, SequencesExt

CONSTANTS
    Calls,     \* the calls of the agent
    Requests,  \* the requests to /process_call
    Faults     \* the kinds of failure that may happen

Speakers == {"agent", "caller"}

FaultKinds == {"storage", "download", "delete", "llm", "exception", "db",
               "queue", "crash"}

NoCall == "none"

ASSUME ProcessCallAssumption ==
    /\ NoCall \notin Calls
    /\ Faults \subseteq FaultKinds

VARIABLES
    uploaded,   \* per call, the speakers whose transcript the streamer uploaded
    blobs,      \* per call, the speakers whose blob is in the container
    pc,         \* per request, its next step
    callOf,     \* per request, the call_id it was sent for
    speaker,    \* per request, the speaker whose blob is being read
    offered,    \* per request, the blobs in the container when it arrived
    messages,   \* per request, the speakers whose messages were extracted
    journalnotat, \* per request, what predict returned
    answer,     \* per request, the HTTP status it was answered with
    notat,      \* the rows of jn.notat, oldest first
    samtale,    \* per call, the speakers whose words are in jn.samtale
    statusQueue \* the agent's status queue, oldest message first

requestVars == <<pc, callOf, speaker, offered, messages, journalnotat, answer>>
storeVars == <<blobs, notat, samtale, statusQueue>>
vars == <<uploaded, requestVars, storeVars>>

Fault(kind) == kind \in Faults

Goto(r, step) == pc' = [pc EXCEPT ![r] = step]

Answer(r, code) ==
    /\ Goto(r, "answered")
    /\ answer' = [answer EXCEPT ![r] = code]

(* for speaker in ["agent", "caller"], then on to the model. *)
NextSpeaker(r) ==
    IF speaker[r] = "agent"
    THEN speaker' = [speaker EXCEPT ![r] = "caller"] /\ Goto(r, "download")
    ELSE UNCHANGED speaker /\ Goto(r, "predict")

HasNote(c) == \E i \in DOMAIN notat : notat[i].call = c

Summary(c) == [call |-> c, status |-> "end-summary"]

-----------------------------------------------------------------------------
Init ==
    /\ uploaded = [c \in Calls |-> {}]
    /\ blobs = [c \in Calls |-> {}]
    /\ pc = [r \in Requests |-> "idle"]
    /\ callOf = [r \in Requests |-> NoCall]
    /\ speaker = [r \in Requests |-> "agent"]
    /\ offered = [r \in Requests |-> {}]
    /\ messages = [r \in Requests |-> {}]
    /\ journalnotat = [r \in Requests |-> "none"]
    /\ answer = [r \in Requests |-> 0]
    /\ notat = <<>>
    /\ samtale = [c \in Calls |-> {}]
    /\ statusQueue = <<>>

(* The streamer leaves one blob per speaker, at any time: also after the   *)
(* request, when a transcriber outlived its join.                          *)
Upload(c, s) ==
    /\ s \notin uploaded[c]
    /\ uploaded' = [uploaded EXCEPT ![c] = @ \cup {s}]
    /\ blobs' = [blobs EXCEPT ![c] = @ \cup {s}]
    /\ UNCHANGED <<requestVars, notat, samtale, statusQueue>>

(* A request arrives, the first or another one for its call; without a     *)
(* container client there is nothing to read.                              *)
Arrive(r, c) ==
    /\ pc[r] = "idle"
    /\ callOf' = [callOf EXCEPT ![r] = c]
    /\ \/ Goto(r, "download")
       \/ Fault("storage") /\ Goto(r, "predict")
    /\ offered' = [offered EXCEPT ![r] = blobs[c]]
    /\ UNCHANGED <<uploaded, speaker, messages, journalnotat, answer, storeVars>>

(* Mutant: the first blob that cannot be downloaded ends the loop. *)
DownloadStops(r) ==
    /\ pc[r] = "download"
    /\ IF speaker[r] \in blobs[callOf[r]]
       THEN /\ messages' = [messages EXCEPT ![r] = @ \cup {speaker[r]}]
            /\ Goto(r, "delete")
       ELSE /\ Goto(r, "predict")
            /\ UNCHANGED messages
    /\ UNCHANGED <<uploaded, callOf, speaker, offered, journalnotat, answer,
                   storeVars>>

(* A blob that cannot be downloaded is skipped. *)
Download(r) ==
    /\ pc[r] = "download"
    /\ \/ /\ speaker[r] \in blobs[callOf[r]]
          /\ messages' = [messages EXCEPT ![r] = @ \cup {speaker[r]}]
          /\ Goto(r, "delete")
          /\ UNCHANGED speaker
       \/ /\ speaker[r] \notin blobs[callOf[r]] \/ Fault("download")
          /\ NextSpeaker(r)
          /\ UNCHANGED messages
    /\ UNCHANGED <<uploaded, callOf, offered, journalnotat, answer, storeVars>>

(* Mutant: every blob of the call is deleted after the first download. *)
DeleteAll(r) ==
    /\ pc[r] = "delete"
    /\ blobs' = [blobs EXCEPT ![callOf[r]] = {}]
    /\ NextSpeaker(r)
    /\ UNCHANGED <<uploaded, callOf, offered, messages, journalnotat, answer, notat,
                   samtale, statusQueue>>

(* The blob is deleted as soon as it is downloaded; failing is a warning. *)
Delete(r) ==
    /\ pc[r] = "delete"
    /\ \/ blobs' = [blobs EXCEPT ![callOf[r]] = @ \ {speaker[r]}]
       \/ Fault("delete") /\ UNCHANGED blobs
    /\ NextSpeaker(r)
    /\ UNCHANGED <<uploaded, callOf, offered, messages, journalnotat, answer, notat,
                   samtale, statusQueue>>

(* Whatever fails while the note is generated becomes the text of the note; *)
(* only an exception outside the handlers ends the request.                 *)
Predict(r) ==
    /\ pc[r] = "predict"
    /\ \/ /\ journalnotat' = [journalnotat EXCEPT ![r] =
                IF messages[r] = {} THEN "empty" ELSE "note"]
          /\ Goto(r, "save")
          /\ UNCHANGED answer
       \/ /\ Fault("llm")
          /\ journalnotat' = [journalnotat EXCEPT ![r] = "error"]
          /\ Goto(r, "save")
          /\ UNCHANGED answer
       \/ /\ Fault("exception")
          /\ Answer(r, 500)
          /\ UNCHANGED journalnotat
    /\ UNCHANGED <<uploaded, callOf, speaker, offered, messages, storeVars>>

(* Mutant: only a note the model generated is saved. *)
SaveNotatUnlessFailed(r) ==
    /\ pc[r] = "save"
    /\ IF journalnotat[r] = "note" /\ ~HasNote(callOf[r])
       THEN notat' = Append(notat, [call |-> callOf[r], kr |-> TRUE,
                                    text |-> "note", speakers |-> messages[r]])
       ELSE UNCHANGED notat
    /\ Goto(r, "notify")
    /\ UNCHANGED <<uploaded, callOf, speaker, offered, messages, journalnotat, answer,
                   blobs, samtale, statusQueue>>

(* The unique index on call_id rejects a second note; the exception is     *)
(* logged and the request goes on as if the note were saved.  Without      *)
(* messages there is no agent to save it for.                              *)
SaveNotat(r) ==
    /\ pc[r] = "save"
    /\ \/ /\ ~HasNote(callOf[r])
          /\ notat' = Append(notat, [call |-> callOf[r],
                                     kr |-> messages[r] # {},
                                     text |-> journalnotat[r],
                                     speakers |-> messages[r]])
       \/ /\ HasNote(callOf[r]) \/ Fault("db")
          /\ UNCHANGED notat
    /\ Goto(r, "notify")
    /\ UNCHANGED <<uploaded, callOf, speaker, offered, messages, journalnotat, answer,
                   blobs, samtale, statusQueue>>

(* azure_notify_status removes all older messages first.  With no agent the *)
(* message goes to the queue status-none, which nobody reads.               *)
ClearQueue(r) ==
    /\ pc[r] = "notify"
    /\ \/ /\ messages[r] # {}
          /\ statusQueue' = <<>>
          /\ Goto(r, "send")
       \/ /\ messages[r] = {} \/ Fault("queue")
          /\ UNCHANGED statusQueue
          /\ Goto(r, "samtale")
    /\ UNCHANGED <<uploaded, callOf, speaker, offered, messages, journalnotat, answer,
                   blobs, notat, samtale>>

(* Mutant: the summary is announced with the status of the streamer. *)
SendEndCall(r) ==
    /\ pc[r] = "send"
    /\ statusQueue' = Append(statusQueue,
                             [call |-> callOf[r], status |-> "end-call"])
    /\ Goto(r, "samtale")
    /\ UNCHANGED <<uploaded, callOf, speaker, offered, messages, journalnotat, answer,
                   blobs, notat, samtale>>

(* Mutant: nothing is sent when another request has announced its call. *)
SendSummaryIfEmpty(r) ==
    /\ pc[r] = "send"
    /\ statusQueue' = IF statusQueue = <<>> THEN <<Summary(callOf[r])>>
                      ELSE statusQueue
    /\ Goto(r, "samtale")
    /\ UNCHANGED <<uploaded, callOf, speaker, offered, messages, journalnotat,
                   answer, blobs, notat, samtale>>

SendSummary(r) ==
    /\ pc[r] = "send"
    /\ \/ statusQueue' = Append(statusQueue, Summary(callOf[r]))
       \/ Fault("queue") /\ UNCHANGED statusQueue
    /\ Goto(r, "samtale")
    /\ UNCHANGED <<uploaded, callOf, speaker, offered, messages, journalnotat, answer,
                   blobs, notat, samtale>>

(* The conversation is one insert; its unique index rejects a second one, *)
(* which is rolled back and only logged.                                  *)
SaveSamtale(r) ==
    /\ pc[r] = "samtale"
    /\ LET c == callOf[r]
       IN  \/ /\ samtale[c] = {}
              /\ samtale' = [samtale EXCEPT ![c] = messages[r]]
           \/ /\ samtale[c] # {} \/ Fault("db")
              /\ UNCHANGED samtale
    /\ Answer(r, 200)
    /\ UNCHANGED <<uploaded, callOf, speaker, offered, messages, journalnotat, blobs,
                   notat, statusQueue>>

(* The worker that runs the request is killed. *)
Crash(r) ==
    /\ Fault("crash")
    /\ pc[r] \notin {"idle", "answered", "dead"}
    /\ Goto(r, "dead")
    /\ UNCHANGED <<uploaded, callOf, speaker, offered, messages, journalnotat, answer,
                   storeVars>>

-----------------------------------------------------------------------------
Process(r) == \/ Download(r) \/ Delete(r) \/ Predict(r) \/ SaveNotat(r)
              \/ ClearQueue(r) \/ SendSummary(r) \/ SaveSamtale(r)

Next == \/ \E c \in Calls, s \in Speakers : Upload(c, s)
        \/ \E r \in Requests, c \in Calls : Arrive(r, c)
        \/ \E r \in Requests : Process(r) \/ Crash(r)

Spec == Init /\ [][Next]_vars

(* The web server runs every request it has accepted; every call to a      *)
(* service ends with an answer or an error.                                *)
FairSpec == Spec /\ \A r \in Requests : WF_vars(Process(r))

-----------------------------------------------------------------------------
(* Properties *)

Steps == {"idle", "download", "delete", "predict", "save", "notify", "send",
          "samtale", "answered", "dead"}
Texts == {"note", "error", "empty"}
Rows == [call : Calls, kr : BOOLEAN, text : Texts, speakers : SUBSET Speakers]
Messages == [call : Calls, status : {"end-summary"}]

(* Every variable keeps its type. *)
TypeOK ==
    /\ uploaded \in [Calls -> SUBSET Speakers]
    /\ blobs \in [Calls -> SUBSET Speakers]
    /\ pc \in [Requests -> Steps]
    /\ callOf \in [Requests -> Calls \cup {NoCall}]
    /\ speaker \in [Requests -> Speakers]
    /\ offered \in [Requests -> SUBSET Speakers]
    /\ messages \in [Requests -> SUBSET Speakers]
    /\ journalnotat \in [Requests -> Texts \cup {"none"}]
    /\ answer \in [Requests -> {0, 200, 500}]
    /\ notat \in Seq(Rows)
    /\ samtale \in [Calls -> SUBSET Speakers]
    /\ statusQueue \in Seq(Messages)

(* A call is never announced before its note can be fetched: as long as    *)
(* the database takes the insert, an end-summary in the agent's queue      *)
(* means that jn.notat has a row for that call, whichever of several       *)
(* requests wrote it and however the rest of them fail.                    *)
SummaryHasNote ==
    "db" \notin Faults =>
        \A i \in DOMAIN statusQueue : HasNote(statusQueue[i].call)

(* No second request was sent for the call. *)
AskedOnce(c) == \A q, r \in Requests : callOf[q] = c /\ callOf[r] = c => q = r

(* The transcript is held by a running request. *)
InProcess(c, s) ==
    \E r \in Requests :
        /\ callOf[r] = c
        /\ s \in messages[r]
        /\ pc[r] \notin {"answered", "dead"}

(* The request for the call was killed or answered 500. *)
Broken(c) == \E r \in Requests :
    callOf[r] = c /\ (pc[r] = "dead" \/ answer[r] = 500)

(* A transcript is deleted from the container long before it is saved.     *)
(* For a call that is processed once, by a request that is neither killed  *)
(* nor answered 500, it is still never lost unless the database fails: it  *)
(* waits in the container (also when it was uploaded too late), is in the  *)
(* hands of the request, or is in jn.samtale, whatever the model, the      *)
(* containers and the queue answer.                                        *)
TranscriptKept ==
    "db" \notin Faults =>
        \A c \in Calls :
            AskedOnce(c) /\ ~Broken(c) =>
                \A s \in uploaded[c] :
                    s \in blobs[c] \/ InProcess(c, s) \/ s \in samtale[c]

(* The note of a call that is processed once rests on every transcript     *)
(* that was in the container when its request arrived, unless the          *)
(* container cannot be read.                                               *)
NoteUsesWholeCall ==
    Faults \cap {"storage", "download"} = {} =>
        \A r \in Requests :
            \A i \in DOMAIN notat :
                notat[i].call = callOf[r] /\ AskedOnce(callOf[r]) =>
                    offered[r] \subseteq notat[i].speakers

(* A request that has read a transcript gets its end-summary into the      *)
(* agent's queue, where it can be polled, unless it is killed or answered  *)
(* 500: whatever the model, the containers or the database answer and      *)
(* although other requests of the agent may clear the queue at any time.   *)
NoteIsAnnounced ==
    \A r \in Requests :
        pc[r] = "predict" /\ messages[r] # {}
            ~> \/ Summary(callOf[r]) \in ToSet(statusQueue)
               \/ pc[r] = "dead" \/ answer[r] = 500
=============================================================================
