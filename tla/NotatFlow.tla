------------------------------ MODULE NotatFlow ------------------------------
(***************************************************************************)
(* From the end of a call to the note on the agent's screen and back: the  *)
(* frontend's store (JNJournalnotatStore.ts, one tab), the statuses and    *)
(* notes it reads, and the feedback it sends.                              *)
(*                                                                         *)
(* The status queue is its newest message.  A poll that is overtaken by a  *)
(* notification may delete it unseen even with a single tab (StatusQueue,  *)
(* run queue_summary_deleted): that loss is not repeated here.  Streamer   *)
(* and process_call appear as what they send and save, in the order        *)
(* Recording and ProcessCall have it.                                      *)
(***************************************************************************)
EXTENDS Naturals, Integers, Sequences, FiniteSets, FiniteSetsExt, SequencesExt

CONSTANTS
    MaxCalls,   \* bound: calls of the agent
    MaxRating,  \* the hearts of the scale: 5
    MaxPosts,   \* bound: feedback the agent sends
    MaxReloads, \* bound: reloads of the page
    Faults      \* what may fail or take long

ASSUME NotatFlowAssumption ==
    /\ {MaxCalls, MaxRating, MaxPosts, MaxReloads} \subseteq Nat
    /\ Faults \subseteq {"status", "fetch", "insert", "empty", "feedback",
                         "slow", "long", "hour"}

VARIABLES
    stage,        \* per call: how far streamer and process_call are
    queue,        \* the newest message in the agent's status queue
    notes,        \* jn.notat: the calls whose notes are saved, by load_time
    loop,         \* updateStatusContinuously: where it awaits, or "stopped"
    answer,       \* the status a poll was answered, of which message
    lastSeen,     \* last_seen_msg
    fetched,      \* result: the call_id, and whether the note has text
    callId,       \* call_id
    summary,      \* summarytext: a call's note, or blank, or a message
    icon,         \* the icon of the status bar
    isDone, hasFetchedNotat, isGenerating, isVisible, notatUsed,
    reloads,      \* how often the page was reloaded
    posts,        \* requests to /feedback, in the order of sending
    rows          \* jn.notat_feedback

env == <<stage, queue, notes>>
polling == <<loop, answer, lastSeen, fetched>>
flags == <<isDone, hasFetchedNotat, isGenerating, isVisible, notatUsed>>
store == <<polling, callId, summary, icon, flags>>
feedback == <<posts, rows>>
vars == <<env, store, reloads, feedback>>

Calls == 1 .. MaxCalls
NoCall == 0
Blank == -1
Message == -2
None == -1
NoStatus == [status |-> "no-status", call |-> NoCall]

-----------------------------------------------------------------------------
(* Streamer and process_call *)

(* The page was opened; without the agent's initials it never polls. *)
Init ==
    /\ stage = [c \in Calls |-> "none"]
    /\ queue = NoStatus
    /\ notes = <<>>
    /\ loop \in {"poll", "stopped"}
    /\ answer = NoStatus
    /\ lastSeen = ""
    /\ fetched = [call |-> NoCall, text |-> FALSE]
    /\ callId = NoCall
    /\ summary = Blank
    /\ icon = IF loop = "poll" THEN "ready" ELSE "inactive"
    /\ isDone = FALSE /\ hasFetchedNotat = FALSE /\ isGenerating = FALSE
    /\ isVisible = FALSE /\ notatUsed = 1
    /\ reloads = 0
    /\ posts = <<>>
    /\ rows = {}

Moves(c, from, to) ==
    /\ stage[c] = from
    /\ stage' = [stage EXCEPT ![c] = to]
    /\ UNCHANGED <<store, reloads, feedback>>

Send(c, s) == queue' = [status |-> s, call |-> c]

(* The agent takes the next call when the last one has ended, processed or *)
(* not.                                                                    *)
StartCall(c) ==
    /\ \A d \in Calls : d < c => stage[d] \notin {"none", "talk"}
    /\ Moves(c, "none", "talk")
    /\ Send(c, "start-call")
    /\ UNCHANGED notes

EndCall(c) ==
    /\ Moves(c, "talk", "ended")
    /\ Send(c, "end-call")
    /\ UNCHANGED notes

(* process_call runs for several calls at once; a failed insert is logged  *)
(* and the call announced all the same.                                    *)
SaveNotat(c) ==
    /\ Moves(c, "ended", "saved")
    /\ \/ notes' = Append(notes, c)
       \/ "insert" \in Faults /\ UNCHANGED notes
    /\ UNCHANGED queue

ClearQueue(c) ==
    /\ Moves(c, "saved", "cleared")
    /\ queue' = NoStatus
    /\ UNCHANGED notes

SendSummary(c) ==
    /\ Moves(c, "cleared", "announced")
    /\ Send(c, "end-summary")
    /\ UNCHANGED notes

CallStep(c) ==
    StartCall(c) \/ EndCall(c) \/ SaveNotat(c) \/ ClearQueue(c) \/ SendSummary(c)

-----------------------------------------------------------------------------
(* The polling loop *)

(* /fetch_status answers; an unchanged start-call or end-summary expires   *)
(* after an hour.                                                          *)
Poll ==
    /\ loop = "poll"
    /\ loop' = "status"
    /\ \/ answer' = queue
       \/ /\ "hour" \in Faults
          /\ queue.status \in {"start-call", "end-summary"}
          /\ answer' = [queue EXCEPT !.status = "call-state-duration-exceeded"]
       \/ "status" \in Faults /\ answer' = [queue EXCEPT !.status = ""]
    /\ UNCHANGED <<env, lastSeen, fetched, callId, summary, icon, flags, reloads, feedback>>

(* The rest of an iteration: after 15 minutes without a new status the     *)
(* text is replaced by a message, after 30 the loop ends, as it does after *)
(* an error or an expired status.                                          *)
Continue(text) ==
    \E age \in {"fresh"} \cup IF lastSeen = answer.status THEN {"slow", "long"} \cap Faults ELSE {} :
        /\ lastSeen' = answer.status
        /\ summary' = IF age = "fresh" THEN text ELSE Message
        /\ loop' = IF age = "long" \/ answer.status \in {"", "call-state-duration-exceeded"}
                   THEN "stopped" ELSE "poll"

(* Mutant: the buttons stay enabled when a call starts. *)
SeeStartKeepsButtons ==
    /\ loop = "status"
    /\ answer.status = "start-call"
    /\ callId' = NoCall
    /\ isDone' = FALSE /\ hasFetchedNotat' = FALSE /\ notatUsed' = 1
    /\ icon' = "listening"
    /\ Continue(Blank)
    /\ UNCHANGED <<env, answer, fetched, isVisible, isGenerating, reloads, feedback>>

SeeStart ==
    /\ loop = "status"
    /\ answer.status = "start-call"
    /\ callId' = NoCall
    /\ isDone' = FALSE /\ hasFetchedNotat' = FALSE /\ isVisible' = FALSE /\ notatUsed' = 1
    /\ icon' = "listening"
    /\ Continue(Blank)
    /\ UNCHANGED <<env, answer, fetched, isGenerating, reloads, feedback>>

SeeEnd ==
    /\ loop = "status"
    /\ answer.status = "end-call"
    /\ isVisible' = FALSE
    /\ isGenerating' = TRUE
    /\ icon' = "working"
    /\ Continue(summary)
    /\ UNCHANGED <<env, answer, fetched, callId, isDone, hasFetchedNotat, notatUsed, reloads, feedback>>

(* Mutant: the note is fetched only if end-call was seen before. *)
SeeSummaryAfterEnd ==
    /\ loop = "status"
    /\ answer.status = "end-summary" /\ ~isDone
    /\ IF hasFetchedNotat \/ ~isGenerating
       THEN icon' = "generated" /\ Continue(summary)
       ELSE loop' = "fetch" /\ UNCHANGED <<lastSeen, summary, icon>>
    /\ UNCHANGED <<env, answer, fetched, callId, flags, reloads, feedback>>

(* Mutant: a finished note is taken for a new one. *)
SeeSummaryAgain ==
    /\ loop = "status"
    /\ answer.status = "end-summary"
    /\ IF hasFetchedNotat
       THEN icon' = "generated" /\ Continue(summary)
       ELSE loop' = "fetch" /\ UNCHANGED <<lastSeen, summary, icon>>
    /\ UNCHANGED <<env, answer, fetched, callId, flags, reloads, feedback>>

(* The note is fetched once, unless the agent is done with it. *)
SeeSummary ==
    /\ loop = "status"
    /\ answer.status = "end-summary" /\ ~isDone
    /\ IF hasFetchedNotat
       THEN icon' = "generated" /\ Continue(summary)
       ELSE loop' = "fetch" /\ UNCHANGED <<lastSeen, summary, icon>>
    /\ UNCHANGED <<env, answer, fetched, callId, flags, reloads, feedback>>

(* Also the answer for a finished note: the last two statuses only leave a *)
(* message.                                                                *)
SeeNothing ==
    /\ loop = "status"
    /\ \/ answer.status \in {"no-status", "call-state-duration-exceeded"}
       \/ answer.status = "end-summary" /\ isDone
    /\ isVisible' = FALSE
    /\ icon' = "ready"
    /\ Continue(IF answer.status = "end-summary" THEN summary ELSE Message)
    /\ UNCHANGED <<env, answer, fetched, callId, isDone, hasFetchedNotat, isGenerating,
                   notatUsed, reloads, feedback>>

SeeFailure ==
    /\ loop = "status"
    /\ answer.status = ""
    /\ isVisible' = FALSE
    /\ icon' = "inactive"
    /\ Continue(Blank)
    /\ UNCHANGED <<env, answer, fetched, callId, isDone, hasFetchedNotat, isGenerating,
                   notatUsed, reloads, feedback>>

(* Mutant: the first note is taken instead of the last. *)
FetchOldest ==
    /\ loop = "fetch"
    /\ loop' = "show"
    /\ fetched' = IF notes = <<>> THEN [call |-> NoCall, text |-> FALSE]
                  ELSE [call |-> Head(notes), text |-> TRUE]
    /\ UNCHANGED <<env, answer, lastSeen, callId, summary, icon, flags, reloads, feedback>>

(* The newest note of the agent, whichever call was announced. *)
HentNotat ==
    \/ /\ notes # <<>>
       /\ \E text \in {TRUE} \cup IF "empty" \in Faults THEN {FALSE} ELSE {} :
             fetched' = [call |-> Last(notes), text |-> text]
    \/ /\ notes = <<>> \/ "fetch" \in Faults
       /\ fetched' = [call |-> NoCall, text |-> FALSE]

(* get_notat *)
FetchNotat ==
    /\ loop = "fetch"
    /\ loop' = "show"
    /\ HentNotat
    /\ UNCHANGED <<env, answer, lastSeen, callId, summary, icon, flags, reloads, feedback>>

ShowNotat ==
    /\ loop = "show"
    /\ isGenerating' = FALSE
    /\ callId' = fetched.call
    /\ isVisible' = fetched.text
    /\ IF fetched.text
       THEN /\ hasFetchedNotat' = TRUE
            /\ icon' = "generated"
            /\ Continue(fetched.call)
            /\ UNCHANGED isDone
       ELSE /\ isDone' = TRUE
            /\ icon' = "ready"
            /\ Continue(Message)
            /\ UNCHANGED hasFetchedNotat
    /\ UNCHANGED <<env, answer, fetched, notatUsed, reloads, feedback>>

PollStep ==
    \/ Poll \/ SeeStart \/ SeeEnd \/ SeeSummary \/ SeeNothing \/ SeeFailure
    \/ FetchNotat \/ ShowNotat

-----------------------------------------------------------------------------
(* The agent: the buttons are enabled while isVisible *)

(* call_id and notatUsed are read when the click's handlers have run; the  *)
(* request is not awaited by the store.                                    *)
Post(call, rating, used) ==
    /\ Len(posts) < MaxPosts
    /\ posts' = Append(posts, [call |-> call, about |-> fetched.call, rating |-> rating,
                               used |-> used, state |-> "sent"])
    /\ UNCHANGED rows

(* reset() forgets call_id before the handler of the default feedback      *)
(* reads it.                                                               *)
Reset ==
    /\ isVisible' = FALSE /\ hasFetchedNotat' = FALSE /\ notatUsed' = 1
    /\ callId' = NoCall
    /\ summary' = Blank
    /\ icon' = "ready"
    /\ IF notatUsed = 1 THEN Post(NoCall, None, 1) ELSE UNCHANGED feedback

(* "Færdig", confirmed. *)
Finish ==
    /\ isVisible
    /\ isDone' = TRUE
    /\ Reset
    /\ UNCHANGED <<env, polling, isGenerating, reloads>>

MarkNotatNotUsed ==
    /\ isVisible /\ notatUsed = 1
    /\ notatUsed' = 0
    /\ Post(callId, None, 0)
    /\ UNCHANGED <<env, polling, callId, summary, icon, isDone, hasFetchedNotat, isGenerating,
                   isVisible, reloads>>

(* Mutant: the heart the pointer is over is sent, which is one too many. *)
RateHovered ==
    /\ isVisible
    /\ \E n \in 1 .. MaxRating : Post(callId, n + 1, notatUsed)
    /\ UNCHANGED <<env, store, reloads>>

Rate ==
    /\ isVisible
    /\ \E n \in 1 .. MaxRating : Post(callId, n, notatUsed)
    /\ UNCHANGED <<env, store, reloads>>

Comment ==
    /\ isVisible
    /\ Post(callId, None, notatUsed)
    /\ UNCHANGED <<env, store, reloads>>

(* The store and its loop start again.  (onMounted starts a loop each time *)
(* the view is mounted, and nothing stops the one before; but no link of   *)
(* the page leads away from the view and back to it with the store alive.) *)
Reload ==
    /\ reloads < MaxReloads
    /\ reloads' = reloads + 1
    /\ loop' = "poll" /\ answer' = NoStatus /\ lastSeen' = ""
    /\ fetched' = [call |-> NoCall, text |-> FALSE]
    /\ callId' = NoCall /\ summary' = Blank /\ icon' = "ready"
    /\ isDone' = FALSE /\ hasFetchedNotat' = FALSE /\ isGenerating' = FALSE
    /\ isVisible' = FALSE /\ notatUsed' = 1
    /\ UNCHANGED <<env, feedback>>

Agent == Finish \/ MarkNotatNotUsed \/ Rate \/ Comment \/ Reload

-----------------------------------------------------------------------------
(* gem_feedback *)

Becomes(i, s) == posts' = [posts EXCEPT ![i].state = s]
OldRatings(c) == {r \in rows : r.call = c /\ r.rating # None}

(* Mutant: feedback without a rating deletes the rating, too. *)
DeleteAnyRating(i) ==
    /\ posts[i].state = "sent"
    /\ rows' = rows \ OldRatings(posts[i].call)
    /\ Becomes(i, "deleted")
    /\ UNCHANGED <<env, store, reloads>>

(* Only a rating replaces ratings; the deletion is committed. *)
DeleteRating(i) ==
    /\ posts[i].state = "sent"
    /\ posts[i].rating # None
    /\ rows' = rows \ OldRatings(posts[i].call)
    /\ Becomes(i, "deleted")
    /\ UNCHANGED <<env, store, reloads>>

(* Mutant: the call's feedback is one row. *)
UpsertFeedback(i) ==
    /\ \/ posts[i].state = "deleted"
       \/ posts[i].state = "sent" /\ posts[i].rating = None
    /\ rows' = {r \in rows : r.call # posts[i].call} \cup
               {[post |-> i, call |-> posts[i].call, rating |-> posts[i].rating, used |-> posts[i].used]}
    /\ Becomes(i, "saved")
    /\ UNCHANGED <<env, store, reloads>>

InsertFeedback(i) ==
    /\ \/ posts[i].state = "deleted"
       \/ posts[i].state = "sent" /\ posts[i].rating = None
    /\ rows' = rows \cup
               {[post |-> i, call |-> posts[i].call, rating |-> posts[i].rating, used |-> posts[i].used]}
    /\ Becomes(i, "saved")
    /\ UNCHANGED <<env, store, reloads>>

(* The request or one of its statements fails: answered 500, unseen. *)
FailFeedback(i) ==
    /\ "feedback" \in Faults
    /\ posts[i].state \in {"sent", "deleted"}
    /\ Becomes(i, "failed")
    /\ UNCHANGED <<env, store, reloads, rows>>

SaveFeedback(i) == DeleteRating(i) \/ InsertFeedback(i) \/ FailFeedback(i)

(* GROUP BY call_id *)
HentFeedback(own) == [rating |-> Max({r.rating : r \in own}), used |-> Min({r.used : r \in own})]

(* fetch_notat_data: one line per note in the overview. *)
Overview(c) ==
    LET own == {r \in rows : r.call = c}
    IN IF own = {} THEN [rating |-> None, used |-> None] ELSE HentFeedback(own)

-----------------------------------------------------------------------------
Next ==
    \/ \E c \in Calls : CallStep(c)
    \/ PollStep
    \/ Agent
    \/ \E i \in DOMAIN posts : SaveFeedback(i)

Spec == Init /\ [][Next]_vars

(* The browser's timers and requests return; nothing is assumed of calls,  *)
(* of the agent or of the feedback.                                        *)
FairSpec == Spec /\ WF_vars(PollStep)

-----------------------------------------------------------------------------
(* Properties *)

Status == {"start-call", "end-call", "end-summary", "no-status",
           "call-state-duration-exceeded", ""}
StatusMessage == [status : Status, call : Calls \cup {NoCall}]

(* Every variable keeps its type; jn.notat has one row per call. *)
TypeOK ==
    /\ stage \in [Calls -> {"none", "talk", "ended", "saved", "cleared", "announced"}]
    /\ queue \in StatusMessage /\ answer \in StatusMessage
    /\ notes \in Seq(Calls) /\ IsInjective(notes)
    /\ loop \in {"poll", "status", "fetch", "show", "stopped"}
    /\ lastSeen \in Status
    /\ fetched \in [call : Calls \cup {NoCall}, text : BOOLEAN]
    /\ callId \in Calls \cup {NoCall}
    /\ summary \in Calls \cup {Blank, Message}
    /\ icon \in {"ready", "listening", "working", "generated", "inactive"}
    /\ {isDone, hasFetchedNotat, isGenerating, isVisible} \subseteq BOOLEAN
    /\ notatUsed \in 0 .. 1
    /\ reloads \in 0 .. MaxReloads
    /\ \A i \in DOMAIN posts :
          posts[i] \in [call : Calls \cup {NoCall}, about : Calls \cup {NoCall},
                       rating : {None} \cup 1 .. MaxRating, used : 0 .. 1,
                       state : {"sent", "deleted", "saved", "failed"}]
    /\ \A r \in rows : r.post \in DOMAIN posts /\ posts[r.post].call = r.call

(* A note the agent is done with, or that could not be fetched, is not     *)
(* shown again before the next call starts, whatever the poll in progress  *)
(* was answered and however often end-summary is seen.                     *)
FinishedIsHidden == isDone => ~isVisible

(* Hearts, comments and "Notat ikke benyttet" name the call whose note was *)
(* on the screen at the click; only the default feedback of reset() names  *)
(* none.                                                                   *)
FeedbackForShownNote ==
    \A i \in DOMAIN posts :
        \/ posts[i].call = posts[i].about /\ posts[i].call # NoCall
        \/ posts[i].call = NoCall /\ posts[i].rating = None /\ posts[i].used = 1

(* gem_feedback replaces ratings in two transactions: a rating that was    *)
(* saved is in the overview, unless a later one has just deleted it or has *)
(* failed.  Comments and marks do not touch it.                            *)
RatingKept ==
    \A i \in DOMAIN posts :
        posts[i].state = "saved" /\ posts[i].rating # None =>
            \/ Overview(posts[i].call).rating # None
            \/ \E j \in DOMAIN posts :
                  /\ posts[j].call = posts[i].call /\ posts[j].rating # None
                  /\ posts[j].state \in {"deleted", "failed"}

(* A note once saved as not used stays so in the overview, also when hearts *)
(* sent before the mark are saved after it.                                *)
NotUsedKept ==
    \A i \in DOMAIN posts :
        posts[i].state = "saved" /\ posts[i].rating = None /\ posts[i].used = 0 =>
            Overview(posts[i].call).used = 0

SavedAt(c) == IF \E i \in DOMAIN notes : notes[i] = c
              THEN CHOOSE i \in DOMAIN notes : notes[i] = c ELSE 0

(* The newest note is fetched, not the announced one: though calls may be  *)
(* processed at the same time, it was not saved before the announced one.  *)
NoteNotOlder ==
    [][ShowNotat => SavedAt(fetched.call) >= SavedAt(answer.call) \/ fetched.call = NoCall]_vars

(* While end-summary is the newest status, a polling tab that has neither  *)
(* fetched a note nor finished one gets to show it, or to say why not; it  *)
(* need not have seen the statuses before, which the queue may have lost.  *)
SummaryIsFetched ==
    (queue.status = "end-summary" /\ loop # "stopped" /\ ~isDone /\ ~hasFetchedNotat)
        ~> (isVisible \/ isDone \/ loop = "stopped" \/ queue.status # "end-summary")

(* The store promises to show the right status and the note once it is     *)
(* generated: when the status bar says so, the note is shown.              *)
GeneratedIsShown == icon = "generated" => isVisible /\ summary \in Calls
=============================================================================
