--------------------------- MODULE NotatFlowProofs ---------------------------
(* Proofs about NotatFlow, for any number of calls, posts and reloads and   *)
(* every failure: what the store shows and what the feedback is about.      *)
EXTENDS NotatFlow, Induction

Booleans ==
    /\ isDone \in BOOLEAN /\ hasFetchedNotat \in BOOLEAN /\ isVisible \in BOOLEAN
    /\ fetched.text \in BOOLEAN

(* A note on the screen was fetched; while the loop fetches or is about to *)
(* show a note, none is on the screen, so that its buttons are disabled.   *)
ShowInv ==
    /\ Booleans
    /\ isVisible = TRUE => hasFetchedNotat = TRUE
    /\ loop \in {"fetch", "show"} => isDone = FALSE /\ hasFetchedNotat = FALSE
    /\ isDone = TRUE => isVisible = FALSE

(***************************************************************************)
(* The polling loop.                                                       *)
(***************************************************************************)
LEMMA PollShows ==
  ASSUME ShowInv, PollStep
  PROVE  ShowInv'
<1> USE DEF ShowInv, Booleans
<1>1. CASE Poll
  BY <1>1 DEF Poll, flags
<1>2. CASE SeeStart
  BY <1>2 DEF SeeStart, Continue
<1>3. CASE SeeEnd
  BY <1>3 DEF SeeEnd, Continue
<1>4. CASE SeeSummary
  BY <1>4 DEF SeeSummary, Continue, flags
<1>5. CASE SeeNothing
  BY <1>5 DEF SeeNothing, Continue
<1>6. CASE SeeFailure
  BY <1>6 DEF SeeFailure, Continue
<1>7. CASE FetchNotat
  <2>1. fetched'.text \in BOOLEAN
    <3>1. ASSUME NEW text \in {TRUE} \cup IF "empty" \in Faults THEN {FALSE} ELSE {},
                 fetched' = [call |-> Last(notes), text |-> text]
          PROVE  fetched'.text \in BOOLEAN
      <4>1. text \in BOOLEAN
        BY Zenon
      <4> QED
        BY <3>1, <4>1
    <3>2. CASE fetched' = [call |-> NoCall, text |-> FALSE]
      BY <3>2
    <3> QED
      BY <1>7, <3>1, <3>2 DEF FetchNotat, HentNotat
  <2>2. loop = "fetch" /\ loop' = "show" /\ UNCHANGED <<isDone, hasFetchedNotat, isVisible>>
    BY <1>7 DEF FetchNotat, flags
  <2> QED
    BY <2>1, <2>2
<1>8. CASE ShowNotat
  BY <1>8 DEF ShowNotat, Continue
<1> QED
  BY <1>1, <1>2, <1>3, <1>4, <1>5, <1>6, <1>7, <1>8 DEF PollStep

(***************************************************************************)
(* The agent's buttons and a reload.                                       *)
(***************************************************************************)
LEMMA AgentShows ==
  ASSUME ShowInv, Agent
  PROVE  ShowInv'
<1> USE DEF ShowInv, Booleans
<1>1. CASE Finish
  BY <1>1 DEF Finish, Reset, polling
<1>2. CASE MarkNotatNotUsed
  BY <1>2 DEF MarkNotatNotUsed, polling
<1>3. CASE Rate \/ Comment
  BY <1>3 DEF Rate, Comment, store, polling, flags
<1>4. CASE Reload
  BY <1>4 DEF Reload
<1> QED
  BY <1>1, <1>2, <1>3, <1>4 DEF Agent

(***************************************************************************)
(* FinishedIsHidden: after "Faerdig", or a note that could not be fetched, *)
(* no answer in flight brings the note back (getStatus, reset and          *)
(* updateStatusContinuously of JNJournalnotatStore.ts).                    *)
(***************************************************************************)
THEOREM FinishedHidden == Spec => []FinishedIsHidden
<1>1. Init => ShowInv
  <2> SUFFICES ASSUME Init PROVE ShowInv
    OBVIOUS
  <2>1. fetched.text = FALSE /\ isDone = FALSE /\ hasFetchedNotat = FALSE /\ isVisible = FALSE
    BY DEF Init
  <2>2. loop \notin {"fetch", "show"}
    BY DEF Init
  <2> QED
    BY <2>1, <2>2 DEF ShowInv, Booleans
<1>2. ShowInv /\ [Next]_vars => ShowInv'
  <2> SUFFICES ASSUME ShowInv, [Next]_vars PROVE ShowInv'
    OBVIOUS
  <2>1. CASE UNCHANGED store
    BY <2>1 DEF store, polling, flags, ShowInv, Booleans
  <2>2. ASSUME NEW c \in Calls, CallStep(c) PROVE ShowInv'
    BY <2>1, <2>2 DEF CallStep, StartCall, EndCall, SaveNotat, ClearQueue, SendSummary, Moves
  <2>3. ASSUME NEW i \in DOMAIN posts, SaveFeedback(i) PROVE ShowInv'
    BY <2>1, <2>3 DEF SaveFeedback, DeleteRating, InsertFeedback, FailFeedback
  <2>4. CASE UNCHANGED vars
    BY <2>1, <2>4 DEF vars
  <2> QED
    BY <2>2, <2>3, <2>4, PollShows, AgentShows DEF Next
<1>3. ShowInv => FinishedIsHidden
  BY Zenon DEF ShowInv, Booleans, FinishedIsHidden
<1> QED
  BY <1>1, <1>2, <1>3, PTL DEF Spec

-----------------------------------------------------------------------------
(* What the calls, the store and the feedback are made of.                 *)

PostTypes ==
    [call : Calls \cup {NoCall}, about : Calls \cup {NoCall},
     rating : {None} \cup 1 .. MaxRating, used : 0 .. 1,
     state : {"sent", "deleted", "saved", "failed"}]

(* A call is in notes once it is saved, so at most once; end-summary names *)
(* a call that is past all that.                                           *)
Stages == {"none", "talk", "ended", "saved", "cleared", "announced"}
Past == {"saved", "cleared", "announced"}

NotesInv ==
    /\ notes \in Seq(Calls) /\ IsInjective(notes)
    /\ \A i \in DOMAIN notes : stage[notes[i]] \in Past

SummaryInv ==
    /\ queue \in StatusMessage
    /\ queue.status = "end-summary" => queue.call \in Calls /\ stage[queue.call] = "announced"

CallInv == stage \in [Calls -> Stages] /\ NotesInv /\ SummaryInv

LoopInv ==
    /\ loop \in {"poll", "status", "fetch", "show", "stopped"}
    /\ answer \in StatusMessage
    /\ answer.status = "end-summary" =>
           answer.call \in Calls /\ stage[answer.call] = "announced"
    /\ loop \in {"fetch", "show"} => answer.status = "end-summary"
    /\ fetched \in [call : Calls \cup {NoCall}, text : BOOLEAN]
    /\ fetched.text = TRUE => fetched.call \in Calls

ScreenInv ==
    /\ lastSeen \in Status
    /\ callId \in Calls \cup {NoCall}
    /\ summary \in Calls \cup {Blank, Message}
    /\ icon \in {"ready", "listening", "working", "generated", "inactive"}
    /\ isGenerating \in BOOLEAN
    /\ notatUsed \in 0 .. 1
    /\ reloads \in 0 .. MaxReloads
    /\ isVisible = TRUE => callId = fetched.call /\ callId \in Calls

Row(i) == [post |-> i, call |-> posts[i].call, rating |-> posts[i].rating,
           used |-> posts[i].used]

PostInv ==
    /\ posts \in Seq(PostTypes)
    /\ \A r \in rows : r.post \in DOMAIN posts /\ r = Row(r.post)

(***************************************************************************)
(* The calls' own steps.                                                   *)
(***************************************************************************)
LEMMA CallStepKeeps ==
  ASSUME CallInv, NEW c \in Calls, CallStep(c)
  PROVE  /\ CallInv'
         /\ \A d \in Calls : stage[d] = "announced" => stage'[d] = "announced"
<1>1. \A i \in DOMAIN notes : notes[i] \in Calls /\ stage[notes[i]] \in Past
  BY DEF CallInv, NotesInv
<1>2. ASSUME NEW from \in Stages, NEW to \in Stages, Moves(c, from, to),
             from # "announced", from \in Past => to \in Past
      PROVE  /\ stage' \in [Calls -> Stages] /\ stage'[c] = to
             /\ \A d \in Calls : d # c => stage'[d] = stage[d]
             /\ \A d \in Calls : stage[d] = "announced" => stage'[d] = "announced"
             /\ \A d \in Calls : stage[d] \in Past => stage'[d] \in Past
  BY <1>2 DEF CallInv, Moves, Stages
<1>3. ASSUME NEW status \in Status \ {"end-summary"}, Send(c, status) \/ UNCHANGED queue,
             \A d \in Calls : stage[d] = "announced" => stage'[d] = "announced"
      PROVE  SummaryInv'
  <2>1. CASE Send(c, status)
    BY <2>1 DEF Send, SummaryInv, StatusMessage
  <2>2. CASE UNCHANGED queue
    BY <1>3, <2>2 DEF CallInv, SummaryInv
  <2>3. QED
    BY <1>3, <2>1, <2>2
<1>4. ASSUME UNCHANGED notes, \A d \in Calls : stage[d] \in Past => stage'[d] \in Past
      PROVE  NotesInv'
  BY <1>1, <1>4 DEF CallInv, NotesInv
<1>5. CASE StartCall(c)
  <2>1. Moves(c, "none", "talk") /\ Send(c, "start-call") /\ UNCHANGED notes
    BY <1>5 DEF StartCall
  <2>2. QED
    BY <1>2, <1>3, <1>4, <2>1 DEF CallInv, Stages, Past, Status
<1>6. CASE EndCall(c)
  <2>1. Moves(c, "talk", "ended") /\ Send(c, "end-call") /\ UNCHANGED notes
    BY <1>6 DEF EndCall
  <2>2. QED
    BY <1>2, <1>3, <1>4, <2>1 DEF CallInv, Stages, Past, Status
<1>7. CASE SaveNotat(c)
  <2>1. /\ Moves(c, "ended", "saved") /\ UNCHANGED queue
        /\ notes' = Append(notes, c) \/ notes' = notes
    BY <1>7 DEF SaveNotat
  <2>2. /\ stage' \in [Calls -> Stages] /\ stage'[c] = "saved" /\ stage[c] = "ended"
        /\ \A d \in Calls : stage[d] = "announced" => stage'[d] = "announced"
        /\ \A d \in Calls : stage[d] \in Past => stage'[d] \in Past
    BY <1>2, <2>1 DEF Stages, Past, Moves
  <2>3. CASE notes' = Append(notes, c)
    <3>1. \A i \in DOMAIN notes : notes[i] # c
      BY <1>1, <2>2 DEF Past
    <3>2. notes \in Seq(Calls) /\ IsInjective(notes)
      BY DEF CallInv, NotesInv
    <3>3. /\ DOMAIN notes' = 1 .. Len(notes) + 1 /\ DOMAIN notes = 1 .. Len(notes)
          /\ \A i \in 1 .. Len(notes) : notes'[i] = notes[i]
          /\ notes'[Len(notes) + 1] = c /\ Len(notes) \in Nat /\ notes' \in Seq(Calls)
      BY <2>3, <3>2
    <3>4. IsInjective(notes')
      BY <3>1, <3>2, <3>3 DEF IsInjective
    <3>5. \A i \in DOMAIN notes' : stage'[notes'[i]] \in Past
      BY <1>1, <2>2, <3>3 DEF Past
    <3>6. NotesInv'
      BY <3>3, <3>4, <3>5 DEF NotesInv
    <3>7. SummaryInv'
      BY <2>1, <2>2 DEF CallInv, SummaryInv
    <3>8. QED
      BY <2>2, <3>6, <3>7 DEF CallInv
  <2>4. CASE notes' = notes
    BY <1>4, <2>1, <2>2, <2>4 DEF CallInv, SummaryInv
  <2>5. QED
    BY <2>1, <2>3, <2>4
<1>8. CASE ClearQueue(c)
  <2>1. Moves(c, "saved", "cleared") /\ queue' = NoStatus /\ UNCHANGED notes
    BY <1>8 DEF ClearQueue
  <2>2. SummaryInv'
    BY <2>1 DEF SummaryInv, NoStatus, StatusMessage, Status
  <2>3. QED
    BY <1>2, <1>4, <2>1, <2>2 DEF CallInv, Stages, Past
<1>9. CASE SendSummary(c)
  <2>1. Moves(c, "cleared", "announced") /\ Send(c, "end-summary") /\ UNCHANGED notes
    BY <1>9 DEF SendSummary
  <2>2. stage'[c] = "announced"
    BY <1>2, <2>1 DEF Stages, Past
  <2>3. SummaryInv'
    BY <2>1, <2>2 DEF SummaryInv, Send, StatusMessage, Status
  <2>4. QED
    BY <1>2, <1>4, <2>1, <2>3 DEF CallInv, Stages, Past
<1>10. QED
  BY <1>5, <1>6, <1>7, <1>8, <1>9 DEF CallStep

(***************************************************************************)
(* The end of an iteration.                                                *)
(***************************************************************************)
LEMMA ContinueKeeps ==
  ASSUME answer \in StatusMessage, NEW text \in Calls \cup {Blank, Message}, Continue(text)
  PROVE  /\ lastSeen' \in Status /\ summary' \in Calls \cup {Blank, Message}
         /\ loop' \in {"poll", "stopped"}
<1>1. answer.status \in Status
  BY DEF StatusMessage
<1>2. QED
  BY <1>1, Zenon DEF Continue

(***************************************************************************)
(* The polling loop shows a note under the call it was fetched for.        *)
(***************************************************************************)
LEMMA PollKeeps ==
  ASSUME CallInv, LoopInv, ScreenInv, ShowInv, PollStep
  PROVE  LoopInv' /\ ScreenInv'
<1>1. UNCHANGED <<env, reloads, feedback>>
  BY DEF PollStep, Poll, SeeStart, SeeEnd, SeeSummary, SeeNothing, SeeFailure,
         FetchNotat, ShowNotat
<1>2. /\ stage' = stage /\ notes' = notes /\ reloads' = reloads
      /\ answer \in StatusMessage
      /\ isVisible \in BOOLEAN /\ fetched.text \in BOOLEAN
  BY <1>1 DEF env, LoopInv, ShowInv, Booleans
<1>3. ASSUME NEW text \in Calls \cup {Blank, Message}, Continue(text),
             answer' = answer, fetched' = fetched, icon' \in {"ready", "listening", "working", "generated", "inactive"},
             isGenerating' \in BOOLEAN, notatUsed' \in 0 .. 1,
             callId' \in Calls \cup {NoCall},
             isVisible' = TRUE => callId' = fetched.call /\ callId' \in Calls
      PROVE  LoopInv' /\ ScreenInv'
  <2>1. /\ lastSeen' \in Status /\ summary' \in Calls \cup {Blank, Message}
        /\ loop' \in {"poll", "stopped"}
    BY <1>2, <1>3, ContinueKeeps
  <2>2. LoopInv'
    BY <1>2, <1>3, <2>1 DEF LoopInv
  <2>3. ScreenInv'
    BY <1>2, <1>3, <2>1 DEF ScreenInv
  <2>4. QED
    BY <2>2, <2>3
<1>4. CASE Poll
  <2>1. /\ loop' = "status" /\ fetched' = fetched
        /\ UNCHANGED <<lastSeen, callId, summary, icon, isGenerating, isVisible, notatUsed>>
    BY <1>4 DEF Poll, flags
  <2>2. /\ answer' \in StatusMessage
        /\ answer'.status = "end-summary" => answer' = queue
    BY <1>4 DEF Poll, CallInv, SummaryInv, StatusMessage, Status
  <2>3. LoopInv'
    BY <1>2, <2>1, <2>2 DEF LoopInv, CallInv, SummaryInv
  <2>4. ScreenInv'
    BY <1>2, <2>1 DEF ScreenInv
  <2>5. QED
    BY <2>3, <2>4
<1>5. CASE SeeStart
  <2>1. /\ Continue(Blank) /\ callId' = NoCall /\ isVisible' = FALSE /\ notatUsed' = 1
        /\ icon' = "listening" /\ UNCHANGED <<answer, fetched, isGenerating>>
    BY <1>5 DEF SeeStart
  <2>2. /\ callId' \in Calls \cup {NoCall} /\ notatUsed' \in 0 .. 1
        /\ isGenerating' \in BOOLEAN /\ Blank \in Calls \cup {Blank, Message}
        /\ ~(isVisible' = TRUE)
    BY <2>1 DEF ScreenInv
  <2>3. QED
    BY <1>3, <2>1, <2>2
<1>6. CASE SeeEnd
  <2>1. /\ Continue(summary) /\ isVisible' = FALSE /\ isGenerating' = TRUE
        /\ icon' = "working" /\ UNCHANGED <<answer, fetched, callId, notatUsed>>
    BY <1>6 DEF SeeEnd
  <2>2. QED
    BY <1>3, <2>1 DEF ScreenInv
<1>7. CASE SeeSummary
  <2>1. CASE Continue(summary) /\ icon' = "generated"
    BY <1>3, <1>7, <2>1 DEF SeeSummary, ScreenInv, flags
  <2>2. CASE loop' = "fetch" /\ UNCHANGED <<lastSeen, summary, icon>>
    <3>1. /\ answer.status = "end-summary"
          /\ UNCHANGED <<answer, fetched, callId, isGenerating, isVisible, notatUsed>>
      BY <1>7 DEF SeeSummary, flags
    <3>2. LoopInv'
      BY <1>2, <2>2, <3>1 DEF LoopInv
    <3>3. ScreenInv'
      BY <1>2, <2>2, <3>1 DEF ScreenInv
    <3>4. QED
      BY <3>2, <3>3
  <2>3. QED
    BY <1>7, <2>1, <2>2 DEF SeeSummary
<1>8. CASE SeeNothing
  <2>1. /\ \E text \in {summary, Message} : Continue(text)
        /\ isVisible' = FALSE /\ icon' = "ready"
        /\ UNCHANGED <<answer, fetched, callId, isGenerating, notatUsed>>
    BY <1>8 DEF SeeNothing
  <2>2. QED
    BY <1>3, <2>1 DEF ScreenInv
<1>9. CASE SeeFailure
  <2>1. /\ Continue(Blank) /\ isVisible' = FALSE /\ icon' = "inactive"
        /\ UNCHANGED <<answer, fetched, callId, isGenerating, notatUsed>>
    BY <1>9 DEF SeeFailure
  <2>2. QED
    BY <1>3, <2>1 DEF ScreenInv
<1>10. CASE FetchNotat
  <2>1. /\ loop = "fetch" /\ loop' = "show" /\ answer' = answer
        /\ UNCHANGED <<lastSeen, callId, summary, icon, isGenerating, isVisible, notatUsed>>
    BY <1>10 DEF FetchNotat, flags
  <2>2. isVisible' = FALSE
    BY <1>2, <2>1 DEF ShowInv
  <2>3. /\ fetched' \in [call : Calls \cup {NoCall}, text : BOOLEAN]
        /\ fetched'.text = TRUE => fetched'.call \in Calls
    <3>1. notes # <<>> => Last(notes) \in Calls
      BY DEF CallInv, NotesInv, Last
    <3>2. \/ fetched' = [call |-> NoCall, text |-> FALSE]
          \/ notes # <<>> /\ \E text \in BOOLEAN : fetched' = [call |-> Last(notes), text |-> text]
      BY <1>10, Zenon DEF FetchNotat, HentNotat
    <3>3. ASSUME NEW text \in BOOLEAN, fetched' = [call |-> Last(notes), text |-> text],
                 Last(notes) \in Calls
          PROVE  /\ fetched' \in [call : Calls \cup {NoCall}, text : BOOLEAN]
                 /\ fetched'.text = TRUE => fetched'.call \in Calls
      BY <3>3
    <3>4. CASE fetched' = [call |-> NoCall, text |-> FALSE]
      BY <3>4
    <3>5. QED
      BY <3>1, <3>2, <3>3, <3>4
  <2>4. LoopInv'
    BY <1>2, <2>1, <2>3 DEF LoopInv
  <2>5. ScreenInv'
    BY <1>2, <2>1, <2>2 DEF ScreenInv
  <2>6. QED
    BY <2>4, <2>5
<1>11. CASE ShowNotat
  <2>1. /\ isGenerating' = FALSE /\ callId' = fetched.call /\ isVisible' = fetched.text
        /\ UNCHANGED <<answer, fetched, notatUsed>>
    BY <1>11 DEF ShowNotat
  <2>2. callId' \in Calls \cup {NoCall} /\ (fetched.text = TRUE => fetched.call \in Calls)
    BY <2>1 DEF LoopInv
  <2>3. CASE fetched.text = TRUE
    <3>1. icon' = "generated" /\ Continue(fetched.call) /\ fetched.call \in Calls
      BY <1>11, <2>2, <2>3 DEF ShowNotat
    <3>2. QED
      BY <1>3, <2>1, <2>2, <3>1 DEF ScreenInv
  <2>4. CASE fetched.text = FALSE
    <3>1. icon' = "ready" /\ Continue(Message)
      BY <1>11, <2>4 DEF ShowNotat
    <3>2. QED
      BY <1>3, <2>1, <2>2, <2>4, <3>1 DEF ScreenInv
  <2>5. QED
    BY <1>2, <2>3, <2>4
<1>12. QED
  BY <1>4, <1>5, <1>6, <1>7, <1>8, <1>9, <1>10, <1>11 DEF PollStep

(***************************************************************************)
(* A click sends the call whose note is on the screen, or none.            *)
(***************************************************************************)
LEMMA PostKeeps ==
  ASSUME PostInv, LoopInv, NEW call \in Calls \cup {NoCall},
         NEW rating \in {None} \cup 1 .. MaxRating, NEW used \in 0 .. 1,
         Post(call, rating, used)
  PROVE  /\ PostInv'
         /\ DOMAIN posts' = DOMAIN posts \cup {Len(posts) + 1}
         /\ \A i \in DOMAIN posts : posts'[i] = posts[i]
         /\ posts'[Len(posts) + 1] = [call |-> call, about |-> fetched.call,
                rating |-> rating, used |-> used, state |-> "sent"]
         /\ rows' = rows /\ Len(posts) + 1 \notin DOMAIN posts
<1> DEFINE new == [call |-> call, about |-> fetched.call, rating |-> rating,
                   used |-> used, state |-> "sent"]
<1>1. fetched.call \in Calls \cup {NoCall}
  BY DEF LoopInv
<1>2. new \in PostTypes
  BY <1>1 DEF PostTypes
<1> HIDE DEF new
<1>3. posts \in Seq(PostTypes) /\ posts' = Append(posts, new) /\ rows' = rows
  BY DEF PostInv, Post, new
<1>4. /\ DOMAIN posts' = 1 .. Len(posts) + 1 /\ DOMAIN posts = 1 .. Len(posts)
      /\ Len(posts) \in Nat /\ posts' \in Seq(PostTypes)
      /\ \A i \in 1 .. Len(posts) : posts'[i] = posts[i]
      /\ posts'[Len(posts) + 1] = new
  BY <1>2, <1>3
<1>5. PostInv'
  <2>1. \A i \in DOMAIN posts : Row(i)' = Row(i) /\ i \in DOMAIN posts'
    BY <1>4 DEF Row
  <2>2. QED
    BY <1>3, <1>4, <2>1 DEF PostInv
<1>6. QED
  BY <1>3, <1>4, <1>5 DEF new

(***************************************************************************)
(* Before a rating is in the overview's rows, or while they are replaced,  *)
(* there is a post that says so; a row without a rating is never deleted.  *)
(***************************************************************************)
RatedInv ==
    \A i \in DOMAIN posts : posts[i].state = "saved" /\ posts[i].rating # None =>
        \/ \E r \in rows : r.call = posts[i].call /\ r.rating # None
        \/ \E j \in DOMAIN posts :
              /\ posts[j].call = posts[i].call /\ posts[j].rating # None
              /\ posts[j].state \in {"deleted", "failed"}

UnratedInv ==
    \A i \in DOMAIN posts : posts[i].state = "saved" /\ posts[i].rating = None =>
        Row(i) \in rows

FeedbackInv == PostInv /\ RatedInv /\ UnratedInv /\ FeedbackForShownNote

(***************************************************************************)
(* A click adds a post that is not saved yet, about the note shown.        *)
(***************************************************************************)
LEMMA ClickKeeps ==
  ASSUME FeedbackInv, LoopInv, NEW call \in Calls \cup {NoCall},
         NEW rating \in {None} \cup 1 .. MaxRating, NEW used \in 0 .. 1,
         Post(call, rating, used),
         \/ call = fetched.call /\ call # NoCall
         \/ call = NoCall /\ rating = None /\ used = 1
  PROVE  FeedbackInv'
<1> DEFINE n == Len(posts) + 1
<1>1. /\ PostInv' /\ DOMAIN posts' = DOMAIN posts \cup {n} /\ n \notin DOMAIN posts
      /\ \A i \in DOMAIN posts : posts'[i] = posts[i]
      /\ posts'[n] = [call |-> call, about |-> fetched.call, rating |-> rating,
                      used |-> used, state |-> "sent"]
      /\ rows' = rows
  BY PostKeeps DEF FeedbackInv
<1> HIDE DEF n
<1>2. posts'[n].state = "sent"
  BY <1>1
<1>3. RatedInv'
  BY <1>1, <1>2 DEF FeedbackInv, RatedInv
<1>4. UnratedInv'
  <2>1. \A i \in DOMAIN posts : Row(i)' = Row(i)
    BY <1>1 DEF Row
  <2>2. QED
    BY <1>1, <1>2, <2>1 DEF FeedbackInv, UnratedInv
<1>5. FeedbackForShownNote'
  BY <1>1 DEF FeedbackInv, FeedbackForShownNote
<1>6. QED
  BY <1>1, <1>3, <1>4, <1>5 DEF FeedbackInv

(***************************************************************************)
(* The state of a post changes, and nothing it says.                       *)
(***************************************************************************)
LEMMA BecomesOnly ==
  ASSUME PostInv, NEW i \in DOMAIN posts, NEW s \in {"deleted", "saved", "failed"},
         Becomes(i, s)
  PROVE  /\ posts' \in Seq(PostTypes) /\ DOMAIN posts' = DOMAIN posts
         /\ posts'[i].state = s
         /\ \A j \in DOMAIN posts : j # i => posts'[j].state = posts[j].state
         /\ \A j \in DOMAIN posts :
               /\ posts'[j].call = posts[j].call /\ posts'[j].about = posts[j].about
               /\ posts'[j].rating = posts[j].rating /\ posts'[j].used = posts[j].used
               /\ Row(j)' = Row(j)
<1>1. posts \in Seq(PostTypes) /\ posts[i] \in PostTypes
  BY DEF PostInv
<1>2. [posts[i] EXCEPT !.state = s] \in PostTypes
  BY <1>1 DEF PostTypes
<1>3. posts' = [posts EXCEPT ![i] = [posts[i] EXCEPT !.state = s]]
  BY <1>1 DEF Becomes
<1>4. posts' \in Seq(PostTypes) /\ DOMAIN posts' = DOMAIN posts
  BY <1>1, <1>2, <1>3
<1>5. /\ posts'[i] = [posts[i] EXCEPT !.state = s]
      /\ \A j \in DOMAIN posts : j # i => posts'[j] = posts[j]
  BY <1>1, <1>3
<1>6. /\ posts'[i].state = s /\ posts'[i].call = posts[i].call
      /\ posts'[i].about = posts[i].about /\ posts'[i].rating = posts[i].rating
      /\ posts'[i].used = posts[i].used
  BY <1>1, <1>5 DEF PostTypes
<1>7. QED
  BY <1>4, <1>5, <1>6 DEF Row

(***************************************************************************)
(* gem_feedback keeps what it promises through each of its transactions.   *)
(***************************************************************************)
LEMMA SaveKeeps ==
  ASSUME FeedbackInv, NEW i \in DOMAIN posts, SaveFeedback(i)
  PROVE  FeedbackInv'
<1> USE DEF FeedbackInv
<1>1. PICK s \in {"deleted", "saved", "failed"} : Becomes(i, s)
  BY DEF SaveFeedback, DeleteRating, InsertFeedback, FailFeedback
<1>2. /\ posts' \in Seq(PostTypes) /\ DOMAIN posts' = DOMAIN posts
      /\ posts'[i].state = s
      /\ \A j \in DOMAIN posts : j # i => posts'[j].state = posts[j].state
      /\ \A j \in DOMAIN posts :
            /\ posts'[j].call = posts[j].call /\ posts'[j].about = posts[j].about
            /\ posts'[j].rating = posts[j].rating /\ posts'[j].used = posts[j].used
            /\ Row(j)' = Row(j)
  BY <1>1, BecomesOnly
<1>3. FeedbackForShownNote'
  BY <1>2 DEF FeedbackForShownNote
<1>4. CASE DeleteRating(i)
  <2>1. /\ rows' = rows \ OldRatings(posts[i].call) /\ posts'[i].state = "deleted"
        /\ posts[i].rating # None
    BY <1>1, <1>2, <1>4, BecomesOnly DEF DeleteRating
  <2>2. PostInv'
    BY <1>2, <2>1 DEF PostInv
  <2>3. UnratedInv'
    BY <1>2, <2>1 DEF UnratedInv, OldRatings, Row
  <2>4. RatedInv'
    <3>1. ASSUME NEW j \in DOMAIN posts', posts'[j].state = "saved", posts'[j].rating # None
          PROVE  \/ \E r \in rows' : r.call = posts'[j].call /\ r.rating # None
                 \/ \E k \in DOMAIN posts' :
                       /\ posts'[k].call = posts'[j].call /\ posts'[k].rating # None
                       /\ posts'[k].state \in {"deleted", "failed"}
      <4>1. CASE posts[j].call = posts[i].call
        BY <1>2, <2>1, <3>1, <4>1
      <4>2. CASE posts[j].call # posts[i].call
        BY <1>2, <2>1, <3>1, <4>2 DEF RatedInv, OldRatings
      <4>3. QED
        BY <4>1, <4>2
    <3>2. QED
      BY <3>1 DEF RatedInv
  <2>5. QED
    BY <1>3, <2>2, <2>3, <2>4
<1>5. CASE InsertFeedback(i)
  <2>1. rows' = rows \cup {Row(i)} /\ posts'[i].state = "saved"
    BY <1>1, <1>2, <1>5, BecomesOnly DEF InsertFeedback, Row
  <2>2. Row(i).post = i /\ Row(i).call = posts[i].call /\ Row(i).rating = posts[i].rating
    BY DEF Row
  <2>3. PostInv'
    BY <1>2, <2>1, <2>2 DEF PostInv
  <2>4. UnratedInv'
    BY <1>2, <2>1 DEF UnratedInv
  <2>5. RatedInv'
    <3>1. ASSUME NEW j \in DOMAIN posts', posts'[j].state = "saved", posts'[j].rating # None
          PROVE  \/ \E r \in rows' : r.call = posts'[j].call /\ r.rating # None
                 \/ \E k \in DOMAIN posts' :
                       /\ posts'[k].call = posts'[j].call /\ posts'[k].rating # None
                       /\ posts'[k].state \in {"deleted", "failed"}
      <4>1. CASE posts[j].call = posts[i].call /\ posts[i].rating # None
        BY <1>2, <2>1, <2>2, <4>1
      <4>2. CASE posts[j].call # posts[i].call \/ posts[i].rating = None
        BY <1>2, <2>1, <3>1, <4>2 DEF RatedInv
      <4>3. QED
        BY <4>1, <4>2
    <3>2. QED
      BY <3>1 DEF RatedInv
  <2>6. QED
    BY <1>3, <2>3, <2>4, <2>5
<1>6. CASE FailFeedback(i)
  <2>1. rows' = rows /\ posts'[i].state = "failed"
    BY <1>1, <1>2, <1>6, BecomesOnly DEF FailFeedback
  <2>2. PostInv'
    BY <1>2, <2>1 DEF PostInv
  <2>3. UnratedInv'
    BY <1>2, <2>1 DEF UnratedInv
  <2>4. RatedInv'
    BY <1>2, <2>1 DEF RatedInv
  <2>5. QED
    BY <1>3, <2>2, <2>3, <2>4
<1>7. QED
  BY <1>4, <1>5, <1>6 DEF SaveFeedback

(* The bound on reloads is a number. *)
LEMMA ReloadsBound == MaxReloads \in Nat /\ 0 \in 0 .. MaxReloads
<1>1. MaxReloads \in Nat
  BY Zenon, NotatFlowAssumption
<1>2. QED
  BY <1>1

(***************************************************************************)
(* The agent's clicks name the note on the screen, and reset() no note.    *)
(***************************************************************************)
LEMMA AgentKeeps ==
  ASSUME LoopInv, ScreenInv, ShowInv, FeedbackInv, Agent
  PROVE  LoopInv' /\ ScreenInv' /\ FeedbackInv'
<1>1. stage' = stage /\ NoCall \notin Calls
  <2>1. stage' = stage
    BY DEF Agent, Finish, MarkNotatNotUsed, Rate, Comment, Reload, env
  <2>2. NoCall \notin Calls
    BY DEF Calls, NoCall
  <2>3. QED
    BY <2>1, <2>2
<1>2. isVisible = TRUE => callId = fetched.call /\ callId \in Calls
  BY DEF ScreenInv
<1>3. ASSUME UNCHANGED polling PROVE LoopInv'
  BY <1>1, <1>3 DEF polling, LoopInv
<1>4. ASSUME UNCHANGED feedback PROVE FeedbackInv'
  BY <1>4 DEF feedback, FeedbackInv, PostInv, RatedInv, UnratedInv, FeedbackForShownNote, Row
<1>5. CASE Finish
  <2>1. /\ isVisible' = FALSE /\ callId' = NoCall /\ summary' = Blank /\ icon' = "ready"
        /\ notatUsed' = 1
        /\ Post(NoCall, None, 1) \/ UNCHANGED feedback
        /\ UNCHANGED <<polling, isGenerating, reloads>>
    BY <1>5 DEF Finish, Reset
  <2>2. ScreenInv'
    <3>1. lastSeen' = lastSeen /\ ~(isVisible' = TRUE) /\ notatUsed' \in 0 .. 1
      BY <2>1 DEF polling
    <3>2. QED
      BY <2>1, <3>1 DEF ScreenInv
  <2>3. FeedbackInv'
    BY <1>4, <2>1, ClickKeeps
  <2>4. QED
    BY <1>3, <2>1, <2>2, <2>3
<1>6. CASE MarkNotatNotUsed
  <2>1. /\ isVisible = TRUE /\ notatUsed' = 0 /\ Post(callId, None, 0)
        /\ UNCHANGED <<polling, callId, summary, icon, isGenerating, isVisible, reloads>>
    BY <1>6 DEF MarkNotatNotUsed, ShowInv, Booleans
  <2>2. ScreenInv'
    <3>1. lastSeen' = lastSeen /\ fetched' = fetched /\ notatUsed' \in 0 .. 1
      BY <2>1 DEF polling
    <3>2. QED
      BY <2>1, <3>1 DEF ScreenInv
  <2>3. FeedbackInv'
    BY <1>1, <1>2, <2>1, ClickKeeps
  <2>4. QED
    BY <1>3, <2>1, <2>2, <2>3
<1>7. CASE Rate \/ Comment
  <2>1. /\ isVisible = TRUE /\ UNCHANGED <<store, reloads>> /\ notatUsed \in 0 .. 1
        /\ \E rating \in {None} \cup 1 .. MaxRating : Post(callId, rating, notatUsed)
    BY <1>7 DEF Rate, Comment, ShowInv, Booleans, ScreenInv
  <2>2. ScreenInv' /\ LoopInv'
    BY <1>3, <2>1 DEF ScreenInv, store, polling, flags
  <2>3. FeedbackInv'
    BY <1>1, <1>2, <2>1, ClickKeeps
  <2>4. QED
    BY <2>2, <2>3
<1>8. CASE Reload
  <2>1. /\ loop' = "poll" /\ answer' = NoStatus /\ lastSeen' = "" /\ callId' = NoCall
        /\ fetched' = [call |-> NoCall, text |-> FALSE] /\ summary' = Blank /\ icon' = "ready"
        /\ isGenerating' = FALSE /\ isVisible' = FALSE /\ notatUsed' = 1
        /\ reloads < MaxReloads /\ reloads' = reloads + 1 /\ UNCHANGED feedback
    BY <1>8 DEF Reload
  <2>2. LoopInv'
    BY <2>1 DEF LoopInv, NoStatus, StatusMessage, Status
  <2>3. reloads' \in 0 .. MaxReloads /\ notatUsed' \in 0 .. 1 /\ ~(isVisible' = TRUE)
    <3>1. reloads \in 0 .. MaxReloads
      BY DEF ScreenInv
    <3>2. reloads' = reloads + 1 /\ reloads < MaxReloads /\ notatUsed' = 1
      BY <2>1
    <3>3. reloads' \in 0 .. MaxReloads /\ notatUsed' \in 0 .. 1
      BY <3>1, <3>2, ReloadsBound
    <3>4. ~(isVisible' = TRUE)
      BY <2>1
    <3>5. QED
      BY <3>3, <3>4
  <2>4. ScreenInv'
    BY <2>1, <2>3 DEF ScreenInv, Status
  <2>5. QED
    BY <1>4, <2>1, <2>2, <2>4
<1>9. QED
  BY <1>5, <1>6, <1>7, <1>8 DEF Agent

NotatInv == CallInv /\ LoopInv /\ ScreenInv /\ ShowInv /\ FeedbackInv

(***************************************************************************)
(* What holds when the page is opened.                                     *)
(***************************************************************************)
LEMMA NotatInvInit == Init => NotatInv
<1> SUFFICES ASSUME Init PROVE NotatInv
  OBVIOUS
<1>0. /\ stage = [c \in Calls |-> "none"] /\ queue = NoStatus
      /\ loop \in {"poll", "stopped"} /\ answer = NoStatus /\ lastSeen = ""
      /\ fetched = [call |-> NoCall, text |-> FALSE] /\ callId = NoCall
      /\ summary = Blank /\ icon \in {"ready", "inactive"}
      /\ isDone = FALSE /\ hasFetchedNotat = FALSE /\ isGenerating = FALSE
      /\ isVisible = FALSE
  BY DEF Init
<1>a. notatUsed = 1 /\ reloads = 0 /\ lastSeen = ""
  BY DEF Init
<1>b. notes = <<>> /\ posts = <<>> /\ rows = {}
  BY DEF Init
<1>1. CallInv
  <2>1. NotesInv
    <3>1. notes \in Seq(Calls) /\ DOMAIN notes = {}
      BY <1>b
    <3>2. IsInjective(notes)
      BY <3>1 DEF IsInjective
    <3>3. QED
      BY <3>1, <3>2 DEF NotesInv
  <2>2. SummaryInv
    BY <1>0 DEF SummaryInv, NoStatus, StatusMessage, Status
  <2>3. QED
    BY <1>0, <2>1, <2>2 DEF CallInv, Stages
<1>2. LoopInv
  BY <1>0 DEF LoopInv, NoStatus, StatusMessage, Status
<1>3. ScreenInv
  <2>1. reloads \in 0 .. MaxReloads
    BY <1>a, ReloadsBound
  <2>2. notatUsed \in 0 .. 1
    <3>1. 1 \in 0 .. 1
      OBVIOUS
    <3>2. QED
      BY <1>a, <3>1, Zenon
  <2>3. lastSeen \in Status
    BY <1>a, Zenon DEF Status
  <2>4. ~(isVisible = TRUE) /\ isGenerating \in BOOLEAN
    BY <1>0
  <2>5. QED
    BY <1>0, <2>1, <2>2, <2>3, <2>4 DEF ScreenInv
<1>4. ShowInv
  <2>1. fetched.text = FALSE
    BY <1>0
  <2>2. QED
    BY <1>0, <2>1 DEF ShowInv, Booleans
<1>5. FeedbackInv
  <2>1. posts \in Seq(PostTypes) /\ DOMAIN posts = {} /\ rows = {}
    BY <1>b
  <2>2. QED
    BY <2>1 DEF FeedbackInv, PostInv, RatedInv, UnratedInv, FeedbackForShownNote
<1>6. QED
  BY <1>1, <1>2, <1>3, <1>4, <1>5 DEF NotatInv

(***************************************************************************)
(* Every step keeps it.                                                    *)
(***************************************************************************)
LEMMA NotatInvStep == NotatInv /\ [Next]_vars => NotatInv'
<1> SUFFICES ASSUME NotatInv, [Next]_vars PROVE NotatInv'
  OBVIOUS
<1> USE DEF NotatInv
<1>1. UNCHANGED store => ShowInv'
  BY DEF store, polling, flags, ShowInv, Booleans
<1>2. UNCHANGED <<store, reloads>> => ScreenInv'
  BY DEF store, polling, flags, ScreenInv
<1>3. UNCHANGED feedback => FeedbackInv'
  BY DEF feedback, FeedbackInv, PostInv, RatedInv, UnratedInv, FeedbackForShownNote, Row
<1>4. UNCHANGED env => CallInv'
  BY DEF env, CallInv, NotesInv, SummaryInv
<1>5. UNCHANGED polling /\ (\A d \in Calls : stage[d] = "announced" => stage'[d] = "announced")
          => LoopInv'
  BY DEF polling, LoopInv
<1>6. UNCHANGED <<polling, stage>> => LoopInv'
  BY DEF polling, LoopInv
<1>7. ASSUME NEW c \in Calls, CallStep(c) PROVE NotatInv'
  <2>1. UNCHANGED <<store, reloads, feedback>>
    BY <1>7 DEF CallStep, StartCall, EndCall, SaveNotat, ClearQueue, SendSummary, Moves
  <2>2. UNCHANGED polling
    BY <2>1 DEF store
  <2>3. CallInv' /\ \A d \in Calls : stage[d] = "announced" => stage'[d] = "announced"
    BY <1>7, CallStepKeeps
  <2>4. QED
    BY <1>1, <1>2, <1>3, <1>5, <2>1, <2>2, <2>3
<1>8. CASE PollStep
  <2>1. UNCHANGED <<env, feedback>>
    BY <1>8 DEF PollStep, Poll, SeeStart, SeeEnd, SeeSummary, SeeNothing, SeeFailure,
                FetchNotat, ShowNotat
  <2>2. QED
    BY <1>3, <1>4, <1>8, <2>1, PollKeeps, PollShows
<1>9. CASE Agent
  <2>1. UNCHANGED env
    BY <1>9 DEF Agent, Finish, MarkNotatNotUsed, Rate, Comment, Reload
  <2>2. QED
    BY <1>4, <1>9, <2>1, AgentKeeps, AgentShows
<1>10. ASSUME NEW i \in DOMAIN posts, SaveFeedback(i) PROVE NotatInv'
  <2>1. UNCHANGED <<env, store, reloads>>
    BY <1>10 DEF SaveFeedback, DeleteRating, InsertFeedback, FailFeedback
  <2>2. UNCHANGED <<polling, stage>>
    BY <2>1 DEF env, store
  <2>3. QED
    BY <1>1, <1>2, <1>4, <1>6, <1>10, <2>1, <2>2, SaveKeeps
<1>11. CASE UNCHANGED vars
  <2>1. UNCHANGED <<env, store, reloads, feedback>> /\ UNCHANGED <<polling, stage>>
    BY <1>11 DEF vars, env, store
  <2>2. QED
    BY <1>1, <1>2, <1>3, <1>4, <1>6, <2>1
<1>12. QED
  BY <1>7, <1>8, <1>9, <1>10, <1>11 DEF Next

(***************************************************************************)
(* So it holds always.                                                     *)
(***************************************************************************)
LEMMA NotatInvariant == Spec => []NotatInv
  BY NotatInvInit, NotatInvStep, PTL DEF Spec

(***************************************************************************)
(* Every variable keeps its type, and a call is noted at most once.        *)
(***************************************************************************)
THEOREM TypeCorrect == Spec => []TypeOK
<1>1. NotatInv => TypeOK
  <2> SUFFICES ASSUME NotatInv PROVE TypeOK
    OBVIOUS
  <2>1. {isDone, hasFetchedNotat, isGenerating, isVisible} \subseteq BOOLEAN
    BY Zenon DEF NotatInv, ShowInv, Booleans, ScreenInv
  <2>2. \A i \in DOMAIN posts : posts[i] \in PostTypes
    BY DEF NotatInv, FeedbackInv, PostInv
  <2>3. \A r \in rows : r.post \in DOMAIN posts /\ posts[r.post].call = r.call
    BY DEF NotatInv, FeedbackInv, PostInv, Row
  <2>4. QED
    BY <2>1, <2>2, <2>3 DEF NotatInv, CallInv, NotesInv, SummaryInv, LoopInv, ScreenInv,
       TypeOK, PostTypes, Stages
<1>2. QED
  BY <1>1, NotatInvariant, PTL

(***************************************************************************)
(* Feedback names the note that was on the screen when it was given.       *)
(***************************************************************************)
THEOREM FeedbackIsAboutShownNote == Spec => []FeedbackForShownNote
<1>1. NotatInv => FeedbackForShownNote
  BY DEF NotatInv, FeedbackInv
<1>2. QED
  BY <1>1, NotatInvariant, PTL

-----------------------------------------------------------------------------
(* The overview.                                                           *)

(***************************************************************************)
(* The rows say what the posts said.                                       *)
(***************************************************************************)
LEMMA RowTypes ==
  ASSUME PostInv, NEW r \in rows
  PROVE  /\ r.post \in DOMAIN posts /\ r = Row(r.post)
         /\ r.rating \in {None} \cup 1 .. MaxRating /\ r.used \in 0 .. 1
         /\ r.rating \in Int /\ r.rating <= MaxRating
<1>1. r.post \in DOMAIN posts /\ r = Row(r.post) /\ posts[r.post] \in PostTypes
  BY DEF PostInv
<1>2. r.rating = posts[r.post].rating /\ r.used = posts[r.post].used
  BY <1>1 DEF Row
<1>3. r.rating \in {None} \cup 1 .. MaxRating /\ r.used \in 0 .. 1
  BY <1>1, <1>2 DEF PostTypes
<1>4. MaxRating \in Nat
  BY Zenon, NotatFlowAssumption
<1>5. r.rating \in Int /\ r.rating <= MaxRating
  BY <1>3, <1>4 DEF None
<1>6. QED
  BY <1>1, <1>3, <1>5

(***************************************************************************)
(* A row with a rating shows in the overview of its call, and so does a    *)
(* row that says the note was not used.                                    *)
(***************************************************************************)
LEMMA OverviewShows ==
  ASSUME PostInv, NEW r \in rows
  PROVE  /\ r.rating # None => Overview(r.call).rating # None
         /\ r.used = 0 => Overview(r.call).used = 0
<1> DEFINE own == {x \in rows : x.call = r.call}
           ratings == {x.rating : x \in own}
           uses == {x.used : x \in own}
<1>1. Overview(r.call) = [rating |-> Max(ratings), used |-> Min(uses)]
  BY DEF Overview, HentFeedback
<1>2. r.rating \in ratings /\ r.used \in uses
  OBVIOUS
<1>3. ASSUME r.rating # None PROVE Max(ratings) # None
  <2>1. MaxRating \in Int
    <3>1. MaxRating \in Nat
      BY Zenon, NotatFlowAssumption
    <3>2. QED
      BY <3>1
  <2>2. ratings \in SUBSET Int /\ \A m \in ratings : m <= MaxRating
    BY RowTypes
  <2>3. ratings # {}
    BY <1>2
  <2> HIDE DEF ratings
  <2>4. Max(ratings) \in ratings /\ r.rating <= Max(ratings)
    BY <1>2, <2>1, <2>2, <2>3, MaxOf
  <2>5. r.rating >= 1 /\ r.rating \in Int
    BY <1>3, RowTypes
  <2>6. QED
    BY <2>2, <2>4, <2>5 DEF None
<1>4. ASSUME r.used = 0 PROVE Min(uses) = 0
  <2>1. uses \in SUBSET Nat /\ uses # {}
    BY RowTypes
  <2> HIDE DEF uses
  <2>2. Min(uses) \in uses /\ Min(uses) <= 0
    BY <1>2, <1>4, <2>1, MinOf
  <2>3. Min(uses) \in Nat
    BY <2>1, <2>2
  <2>4. QED
    BY <2>2, <2>3
<1>5. QED
  BY <1>1, <1>3, <1>4

(***************************************************************************)
(* A rating that was saved is in the overview, or a later one that deleted *)
(* it is not yet saved or has failed: gem_feedback deletes and inserts in  *)
(* two transactions, and several requests run at once.                     *)
(***************************************************************************)
THEOREM RatingsKept == Spec => []RatingKept
<1>1. NotatInv => RatingKept
  <2> SUFFICES ASSUME NotatInv, NEW i \in DOMAIN posts,
                      posts[i].state = "saved", posts[i].rating # None,
                      NEW r \in rows, r.call = posts[i].call, r.rating # None
               PROVE  Overview(posts[i].call).rating # None
    BY DEF NotatInv, FeedbackInv, RatedInv, RatingKept
  <2>1. PostInv
    BY DEF NotatInv, FeedbackInv
  <2>2. QED
    BY <2>1, OverviewShows
<1>2. QED
  BY <1>1, NotatInvariant, PTL

(***************************************************************************)
(* A note marked as not used stays so: rows without a rating are never     *)
(* deleted, and the overview takes the least.                              *)
(***************************************************************************)
THEOREM NotUsedStays == Spec => []NotUsedKept
<1>1. NotatInv => NotUsedKept
  <2> SUFFICES ASSUME NotatInv, NEW i \in DOMAIN posts, posts[i].state = "saved",
                      posts[i].rating = None, posts[i].used = 0
               PROVE  Overview(posts[i].call).used = 0
    BY DEF NotUsedKept
  <2>1. PostInv /\ Row(i) \in rows
    BY DEF NotatInv, FeedbackInv, UnratedInv
  <2>2. Row(i).call = posts[i].call /\ Row(i).used = 0
    BY DEF Row
  <2>3. QED
    BY <2>1, <2>2, OverviewShows
<1>2. QED
  BY <1>1, NotatInvariant, PTL

-----------------------------------------------------------------------------
(* The note that is fetched.                                               *)

(***************************************************************************)
(* The fetched note was saved, and the announced one, which is announced   *)
(* after it was saved or failed to be, not after it.                       *)
(***************************************************************************)
OrderInv ==
    loop = "show" /\ fetched.call # NoCall =>
        \E i \in DOMAIN notes :
            /\ notes[i] = fetched.call
            /\ \A j \in DOMAIN notes : notes[j] = answer.call => j <= i

(***************************************************************************)
(* OrderInv is inductive.                                                  *)
(***************************************************************************)
LEMMA OrderStep == NotatInv /\ OrderInv /\ [Next]_vars => OrderInv'
<1> SUFFICES ASSUME NotatInv, OrderInv, [Next]_vars PROVE OrderInv'
  OBVIOUS
<1>1. CASE UNCHANGED <<loop, fetched, answer, notes>>
  BY <1>1 DEF OrderInv
<1>2. ASSUME NEW c \in Calls, CallStep(c) PROVE OrderInv'
  <2>1. UNCHANGED <<loop, fetched, answer>>
    BY <1>2 DEF CallStep, StartCall, EndCall, SaveNotat, ClearQueue, SendSummary, Moves,
                store, polling
  <2>2. CASE SaveNotat(c) /\ notes' = Append(notes, c)
    <3>1. stage[c] = "ended" /\ notes \in Seq(Calls)
      BY <2>2 DEF SaveNotat, Moves, NotatInv, CallInv, NotesInv
    <3>2. loop = "show" => answer.call # c
      BY <3>1 DEF NotatInv, LoopInv
    <3>3. /\ DOMAIN notes' = 1 .. Len(notes) + 1 /\ DOMAIN notes = 1 .. Len(notes)
          /\ \A i \in 1 .. Len(notes) : notes'[i] = notes[i]
          /\ notes'[Len(notes) + 1] = c /\ Len(notes) \in Nat
      BY <2>2, <3>1
    <3>4. QED
      BY <2>1, <3>2, <3>3 DEF OrderInv
  <2>3. CASE UNCHANGED notes
    BY <1>1, <2>1, <2>3
  <2>4. QED
    BY <1>2, <2>2, <2>3 DEF CallStep, StartCall, EndCall, SaveNotat, ClearQueue, SendSummary
<1>3. CASE FetchNotat
  <2>1. UNCHANGED <<answer, notes>>
    BY <1>3 DEF FetchNotat, env
  <2>2. fetched'.call # NoCall => notes # <<>> /\ fetched'.call = Last(notes)
    <3>1. \/ fetched' = [call |-> NoCall, text |-> FALSE]
          \/ notes # <<>> /\ \E text : fetched' = [call |-> Last(notes), text |-> text]
      BY <1>3, Zenon DEF FetchNotat, HentNotat
    <3>2. QED
      BY <3>1
  <2>3. notes # <<>> =>
            /\ Len(notes) \in DOMAIN notes /\ notes[Len(notes)] = Last(notes)
            /\ \A j \in DOMAIN notes : j <= Len(notes)
    BY DEF NotatInv, CallInv, NotesInv, Last
  <2>4. QED
    BY <2>1, <2>2, <2>3 DEF OrderInv
<1>4. ASSUME PollStep, ~FetchNotat PROVE OrderInv'
  <2>1. loop' # "show"
    <3>1. answer \in StatusMessage
      BY DEF NotatInv, LoopInv
    <3>2. QED
      BY <1>4, <3>1 DEF PollStep, Poll, SeeStart, SeeEnd, SeeSummary, SeeNothing,
                        SeeFailure, ShowNotat, Continue
  <2>2. QED
    BY <2>1 DEF OrderInv
<1>5. CASE Agent
  <2>1. CASE Reload
    BY <2>1 DEF Reload, OrderInv
  <2>2. CASE ~Reload
    BY <1>1, <1>5, <2>2 DEF Agent, Finish, MarkNotatNotUsed, Rate, Comment, env, store, polling
  <2>3. QED
    BY <2>1, <2>2
<1>6. ASSUME NEW i \in DOMAIN posts, SaveFeedback(i) PROVE OrderInv'
  BY <1>1, <1>6 DEF SaveFeedback, DeleteRating, InsertFeedback, FailFeedback, env, store,
                    polling
<1>7. CASE UNCHANGED vars
  BY <1>1, <1>7 DEF vars, env, store, polling
<1>8. QED
  BY <1>2, <1>3, <1>4, <1>5, <1>6, <1>7 DEF Next

(***************************************************************************)
(* The store shows the newest note, whichever call was announced: it is    *)
(* never one that was saved before the announced call's.                   *)
(***************************************************************************)
THEOREM ShownNoteNotOlder == Spec => NoteNotOlder
<1> DEFINE NotOlder ==
      ShowNotat => SavedAt(fetched.call) >= SavedAt(answer.call) \/ fetched.call = NoCall
<1>1. NotatInv /\ OrderInv /\ [Next]_vars => [NotOlder]_vars
  <2> SUFFICES ASSUME NotatInv, OrderInv, ShowNotat, fetched.call # NoCall
               PROVE  SavedAt(fetched.call) >= SavedAt(answer.call)
    OBVIOUS
  <2>1. DOMAIN notes = 1 .. Len(notes) /\ Len(notes) \in Nat /\ IsInjective(notes)
    BY DEF NotatInv, CallInv, NotesInv
  <2>2. PICK i \in DOMAIN notes :
            /\ notes[i] = fetched.call
            /\ \A j \in DOMAIN notes : notes[j] = answer.call => j <= i
    BY DEF OrderInv, ShowNotat
  <2>3. ASSUME NEW c, NEW j \in DOMAIN notes, notes[j] = c PROVE SavedAt(c) = j
    BY <2>1, <2>3 DEF SavedAt, IsInjective
  <2>4. SavedAt(fetched.call) = i
    BY <2>2, <2>3
  <2>5. SavedAt(answer.call) <= i
    <3>1. CASE \E j \in DOMAIN notes : notes[j] = answer.call
      BY <2>2, <2>3, <3>1
    <3>2. CASE ~\E j \in DOMAIN notes : notes[j] = answer.call
      <4>1. SavedAt(answer.call) = 0
        BY <3>2 DEF SavedAt
      <4>2. QED
        BY <2>1, <4>1
    <3>3. QED
      BY <3>1, <3>2
  <2>6. SavedAt(answer.call) \in Nat
    BY <2>1, <2>3 DEF SavedAt
  <2>7. QED
    BY <2>1, <2>4, <2>5, <2>6
<1>2. Init => OrderInv
  BY DEF Init, OrderInv
<1>3. QED
  BY <1>1, <1>2, OrderStep, NotatInvariant, PTL DEF Spec, NoteNotOlder
=============================================================================
