# Journalnotatsassistenten in TLA+

A verification project for jn-assistent, the assistant that listens to a
phone call, transcribes it and writes the journal note: TLA+ modules translated
from the source under `src/`, TLC runs that check them on small instances, and
TLAPS proofs of the properties that matter most.

## 1. Inventory

### How a call runs

1. Genesys starts one `audio_streamer` process per call. It creates a flag file,
   records the microphone (agent) and the loopback of the speakers (caller) into
   two queues, fetches `/get_config`, and starts one transcriber per queue.
2. Each transcriber sends `start-call` to the agent's Azure queue
   `status-{agent}`, transcribes chunks of 30 seconds, and, after the stop,
   sends `end-call`, transcribes the rest and uploads one blob.
3. A second process without `/startRecording` removes the flag file. The first
   one sees that, sets `stop_event`, joins its threads (30 seconds each) and asks
   Leverance to `/process_call`.
4. `/process_call` downloads and deletes the blobs, lets the model write the note,
   saves it in `jn.notat`, clears the status queue and sends `end-summary`, and
   saves the conversation in `jn.samtale`.
5. The frontend polls `/fetch_status`, which deletes all but the newest status
   message, and on `end-summary` fetches the agent's newest note.

### Components

| Component | State | Operations | Hard behaviour | Correct means |
|---|---|---|---|---|
| Recording manager (`streamer.py`) | flag file, `stop_event`, threads, `controller_version` | start, monitor, stop, joins, notification | joins with timeouts, threads that outlive them, failing configuration, a request without timeout | notified after the threads or their 30 seconds; always notified after the stop |
| Recorders (`streamer.py`) | buffer, stream, callback | announce, open, callback, flush, end, close | callback and recorder thread share the buffer around the stop; silent buffer raises | no frame lost or overtaken |
| OpenAI transcriber | buffer, metadata, results, client token | queue loop, chunk, finalize, upload | loop ends on "stop and empty"; failing token keeps or loses audio; two transcribers, one status queue | everything recorded is transcribed and uploaded; `end-call` is the newest status |
| Flag file (`streamer.py`) | `simple-flag-{AgentID}.txt`, one per agent | create, remove by the second process, remove in `stop()` | processes of two calls share it; a stop command may come too early; a failing removal is only logged | while it is there, its process records, unless it could not remove it |
| Azure audio storage | blobs per segment, two queues, `segment_count` | store segment, status messages, finalize | clear and send are two steps; uploads and announcements fail apart; drain loop of 3 seconds | an announced segment is in its blob; buffers in order; one status per call |
| `process_call` | blobs, `jn.notat`, `jn.samtale`, status queue | read, predict, save, notify, save | blobs deleted first, failures swallowed, concurrent and repeated requests, killed workers | no transcript lost, note rests on the whole call, announced only when saved |
| Agent status queue | messages, visibility | send, clear, peek, receive, delete | poll decides on a page and deletes later | newest status kept and shown, never an older one after it |
| Conversations (`jn.samtale`) | rows of a call | sort, split, insert | equal times, answers in another order than the sentences, long sentences | each speaker's order kept, stored in full |
| Note generation | retries, timers, `har_fejlet` | `predict`, `_prompt_llm` | timeouts that still wait, retries, error texts in place of answers | a note rests on two answers; a question ends within its limit and one call |
| Prompts | `jn.prompts` | `gem_prompt`, `hent_notat_prompts` | look-up and insertion are two steps, ties, missing rows | the newest prompts of the area, else the standard ones |
| Agent configuration | `jn.config`, the page's form and dialog | read, save for several agents, delete | one of several requests fails; saves overlap, form and dialog stay editable | every agent saved or left in the form when a save returns |
| Text processor | none | join, cut, remove phrases | first, last and only sentence; a phrase matched across joined sentences | nothing finished is lost but what stands with an unwanted phrase |
| Feedback | `jn.notat_feedback` | delete and insert | two transactions, stale `call_id` | feedback names the note on the screen; ratings and marks survive each other |
| Frontend store | `isDone`, `hasFetchedNotat`, `call_id`, polling loop | poll, fetch, reset, feedback | missed statuses, another call's note, awaits during which the agent acts, loop that ends on an error | an announced note is fetched, a finished one stays hidden |

The hazards of this code, each at its line with the properties that watch it,
are listed in `PROJECT.json`.

## 2. Plan

Written, in this order, the most important behaviour first:

1. `Recording`, one streamer process with its seven threads, and `CallSession`,
   what the rest of the system may observe of it.
2. `ProcessCall`, the server's side of a call.
3. `StatusQueue`, the queue between both and the frontend.
4. `NotatFlow`: the frontend's store, its feedback and the statuses and notes
   it reads.
5. `FlagFile`, the streamer processes of one agent, and `AzureAudio`, which
   extends it by the storage threads of the azure mode.
6. `Prediction`, one request for a note, composed of `AgentConfig`, `Prompts`
   and `TextProcessor`.
7. `Samtale`, the order and the rows of a conversation.
8. `Subsequences`: `Only`, what `Samtale` and `TextProcessor` leave out elements with.
9. `RecordingProofs`, `ProcessCallProofs`, `StatusQueueProofs`, `NotatFlowProofs`,
   `AzureAudioProofs`, `PredictionProofs`, `SamtaleProofs`, and `Induction`, the
   lemmas on numbers and sequences that they share: every safety property of the
   passing runs.

Next: the evaluation of notes (`hent_eval_prompts`, `evaluate_model`) with the
batches that empty old notes and conversations; and the simulation of a call.

No module uses a RECURSIVE operator, so that all of them stay provable.

## 3. The modules

### Recording

One run of the streamer in its OpenAI mode. State and code:

| Variable | Code |
|---|---|
| `main`, `unjoined`, `late` | where `SimpleRecordingManager.start`/`stop` is; the rest of the loop over `self.threads`; threads whose `join(timeout=30)` expired |
| `flag`, `stopEvent`, `config`, `notify` | flag file, `stop_event`, outcome of `/get_config`, the request thread |
| `rec`, `callback`, `captured`, `buffer` | the recorder threads, their PortAudio callbacks and `io.BytesIO` buffers |
| `dataQueue` | `agent_queue`, `caller_queue` |
| `tr`, `clientReady`, `metadata`, `chunk`, `results`, `blob` | the transcriber threads and the attributes of `AzureOpenAITranscriber` |
| `statusQueue` | messages sent to `status-{agent}` |

A frame of audio is the number of the callback that delivered it. The callback's
write, `queue.put` and truncation are separate steps because the recorder thread
reads the buffer meanwhile. Microphone and loopback differ where the code does:
only the loopback can fail before its start metadata, and only the microphone
has the silence check, whose unbound variable makes a silent buffer raise and
stay. `Faults` names the services that may fail: sound device, configuration,
client creation, token refresh, transcription, upload, status messages. A queue
item, a call to a service and a test of `stop_event` are each one step; a
processing loop that finds nothing waits and is no step.

### CallSession

The specification of a streamer process for its environment: phases of the
process, per transcriber off, live, hung up and done, which status messages
it may send when, and that a transcript appears once, whole, and only after
the announced end. `Recording!ImplementsSession` is the refinement: `phase` and
`stage` are read off `main` and `tr`, and a transcript exists when the blob has
frames.

### ProcessCall

The requests to `/process_call` for the calls of one agent; each names its call
when it arrives, so that a call may be asked for never, once or again. A request
is a sequence of steps, one per service call, so that requests for different
calls and for the same call interleave. A transcript is the set of speakers it has
lines of. `Upload` is the streamer; it may come after the request, as
`Recording` shows. Failures: container client, download, delete, model (turned
into a note text by the code), an exception outside every handler (answered
500), database, queue, and the worker being killed. `SaveNotat` and
`SaveSamtale` include the unique indexes of `infra/db/02_schema.sql`, and that
both inserts swallow their errors. Without messages the agent is unknown: the
note is saved without initials and the notification goes to a queue nobody reads.

### StatusQueue

The status queue and the polls of `_hent_messages_azure`. A message is its number
in the order of sending; that is also the queue's order, so the queue is a
set. A poll is peek, then alternately receive and delete (the SDK's iterator
fetches one message at a time), then the answer. A received message is hidden
until it is deleted. Deleting a message that was cleared meanwhile raises, the
request is answered 500 and the frontend stops polling: `pc = "failed"` is
final until the page is reloaded. A poll without message or client changes
nothing and is no step. The other users of the queue appear as `Send`,
`ClearMessages` and `SendSummary`.

A poll that receives deletes one message less than it peeked. With one tab that
keeps the newest message (`NewestKeptForOneTab`), unless the queue was cleared
meanwhile; with two it does not.

### Samtale

Two transcripts, as `finalize` writes them, become the conversation and the rows
of `jn.samtale`. Python's stable `sorted` is an insertion after every line that is
not later (`InsertByTime`), one line after the other (`SortByTime`), of the lines that
have a text (`WithText`). A sentence is asked for when the one before was answered, and stamped
with the time of its answer; characters are known by their place, so that the
stored text can be compared with the spoken one.

### NotatFlow

One tab of the frontend between the calls of an agent and the feedback. The
status queue is reduced to its newest message, which is what one tab is answered
(`StatusQueue`); that a poll overtaken by a notification may delete `end-summary`
unseen (`queue_summary_deleted`) is not repeated here. Streamer and `process_call` are reduced to
what they send and save, in the order of `Recording` and `ProcessCall`, and calls
may overlap in `process_call`.

| Variable | Code |
|---|---|
| `loop`, `answer`, `fetched`, `lastSeen` | where `updateStatusContinuously` awaits, the answers of the two requests, `last_seen_msg` |
| `callId`, `summary`, `icon`, `isDone`, ... | the refs of the store |
| `posts`, `rows` | requests to `/feedback` with their progress through `gem_feedback`; `jn.notat_feedback` |

Each `await` of the loop is a point at which the agent may press a button or reload
the page. The handlers of the status are one action per answer, with everything
that follows until the next poll. `Reset` reads `call_id` after it has been
forgotten, as the code does.

### FlagFile, AzureAudio

A call has a recording process and a process that stops it; all of an agent's
use one flag file. `FlagFile` has the steps that touch the file, with a file that
cannot be written, or not be removed, an interrupted monitoring loop and a killed
process. A removal that fails is only logged (`RemoveFlagFile`): the recording that
was to be stopped goes on, or, in `stop()`, ends while its file stays.
`Mishaps` names what may happen to the processes of each call.
`AzureAudio` adds per recorded stream the recorder, its queue and the storage
thread: `store` is the thread's next step, `drains` tells the loop from the three
seconds after it, a blob is the position of its segment number, and upload,
announcement, clearing and sending of the status are steps of their own that may
fail, be it that the client cannot be renewed (`MayFail`). A callback that passed
its check before the stop may put its buffer after it (`PutBuffer`, "late"). With its
process a thread's data are gone, what is in Azure stays.

### Prediction, AgentConfig, Prompts, TextProcessor

`Prediction` is one call of `predict`: configuration, prompts, generation,
validation, each question with its attempts on a clock of half seconds. A
timed-out call is waited for, because the executor's block is left only when
its thread ends. The configuration page (`AgentConfig`) and the scripts that save
prompts (`Prompts`) change the tables between its steps. Neither the fields of the
page nor its button are locked while a save asks for one agent after the other:
`saves` holds every run of `saveConfig` with what it was called for, whom it has yet
to ask for and whose request failed, until all runs are over, and `Answered` writes
into the form as it is by then. `gem_prompt` looks for
the row and inserts it in two steps; `TOP(2)` is any set of two rows that the
order by priority allows. `TextProcessor` cleans the note; a sentence is known
by its full stop and by the words of an unwanted phrase it holds. `Join` is the body
of the loop over the sentences and `Combine` the loop. `HasPhrase` searches the joined
sentences: the words may be spread over them, as `ikke.*?indgået.*?aftale` allows. Its
property compares that loop with a definition by neighbours.

## 4. Runs

Passing runs:

| Run | Instance | Shows |
|---|---|---|
| `recording_agent` | agent speaks 3 frames, buffers of 2, chunks of 2, no failures | type invariant; `NoFrameVanishes`, `AudioInOrder`, `NotifyWaitsForThreads`, `NotifyFindsTranscripts`, `NewestStatusIsEndCall` |
| `recording_faults` | one frame; device, configuration, status, transcription and upload failures | `ImplementsSession` |
| `recording_fair` | one frame, fairness of the main thread; token and client failures | `RemovedFlagLeadsToNotify` though any other thread may hang; `TranscribersEnd` if they are scheduled |
| `process_transcripts` | two calls, two requests for any of them; all failures but the database's | types, `TranscriptKept`, `SummaryHasNote` |
| `process_notes` | two calls, two fair requests for any of them; database failures; every pair of transcripts of up to two sentences | `NoteUsesWholeCall`, `NoteIsAnnounced`, `ConversationInOrder`, `ConversationIsStored` |
| `queue_tabs` | one or two tabs, page of 3, 5 messages, 2 notifications | types, `NewestKeptForOneTab`, `StatusNeverGoesBack`, `CatchesUp` |
| `notat_flow` | two calls, two posts of feedback, one reload; every failure | types, `FinishedIsHidden`, `FeedbackForShownNote`, `RatingKept`, `NotUsedKept`, `NoteNotOlder`, `SummaryIsFetched` |
| `azure_streams` | two calls of one agent; in the first one the caller says two buffers, the processes may fail to remove the file, be killed or be slow, and every call to Azure may fail; in the second one the file may not be written and the monitoring loop be interrupted | types, `FlagMeansRecording`, `AnnouncedIsStored`, `BuffersInOrder`, `OneStatusPerCall` |
| `prediction` | two agents, one area beside "standard", three operations of users, scripts and the request; failing queries; answers after 0.5, 15 and 25 seconds; every text of up to four sentences and a phrase of two words | types, `NoteKeepsSentences`, `NewestOfArea`, `NoteFromTwoAnswers`, `PromptsOfArea`, `QuestionTakesOneCallMore`, `SavedOrLeftInForm` |

Runs in which the code does not do what its comments say:

| Run | Property | What happens |
|---|---|---|
| `recording_tail` | `FullTranscription` | The transcriber sees `stop_event` set and its queue empty before the recorder thread puts the last buffer. With a call shorter than a buffer the whole transcript is missing. |
| `queue_summary_deleted` | `NewestKept` | A poll has peeked two messages, the queue is cleared and `end-summary` sent, and the poll deletes it. |
| `notat_not_shown` | `GeneratedIsShown` | `start-call` of the second call is never polled (it was replaced by the first call's `end-summary`, or cleared with it): `hasFetchedNotat` is still set, the status bar says that the note is generated, and the second note is neither fetched nor shown. |

Deviations that show in the models without a run of their own:

- After an expired join Leverance is called before the transcription is finished
  (`NotifyWaitsForThreads` allows it only for threads in `late`).
- With more messages in the queue than one peek returns, `Peek` answers with the
  last of the page, not with the newest message (`CatchesUp` says that later
  polls arrive there).
- Without an answer to `/get_config`, `controller_version` is never set and both
  transcribers end with an attribute error.
- The docstring of `_prompt_llm` (lines 131-133) says that the model is asked more
  than once if the first call is slow; a call that times out is the last one
  (`TimeOut`).
- `README.md` line 175 of the repository says that removing the flag file ends
  the recording. With the processes of two calls it may not: the next process
  writes the file before the first has looked, and the first one's `stop()` then
  removes the second one's file, which ends that recording early. A stop command
  that runs before the file is written is lost, and so is one whose removal of the
  file fails. `_create_flag_file` and `_remove_flag_file` say that the file shows
  whether a recording is in progress: after a failing removal in `stop()` it does so
  for a recording that has ended (`FlagMeansRecording` excuses the processes that may
  fail so).
- `README.md` line 220 says that the standard prompts fill in for missing ones. For
  an area with only one of its two prompts three rows compete for `TOP(2)` and the
  order between equal priorities is the database's.
- Sentences are ordered by the time of their transcription, not of their insertion
  in the blob, as the docstring of `read_and_sort_messages` has it
  (`ConversationInOrder` says what order that guarantees).
- The end metadata of a recorder that is late are stored as a segment of audio
  (`TakeItem` of `AzureAudio`).
- The dialog that deletes a configuration deletes that of the initials in the field,
  which may have been edited since the configuration was shown (`ConfirmDelete`).
- When a save fails for some agents they are put back into the form, "so that the user
  can easily try again" (`JNConfigView.vue` line 508). A second save that was
  started meanwhile and succeeds resets the form with them in it (`Answered`);
  `SavedOrLeftInForm` says where an agent is when its save returns, not for how long
  it stays in the form.
- Finished sentences that end with "?" or "!" are joined to the next one and removed with
  it when a phrase matches across both, though neither holds it (`HasPhrase`).

### Bounds, and why they suffice

- `MaxFrames` = 3 with buffers of 2 gives one full buffer put by the callback and a
  rest put by the recorder; a chunk of 2 is transcribed in the loop and the rest
  in finalize. In `recording_agent` only the agent speaks, while the caller's
  threads run with metadata only: the data paths of the two speakers share
  nothing but status queue and stop. `recording_faults` uses buffers and chunks of one
  frame, so that one frame takes every path.
- Two calls and two requests show every interference through the queue and the
  tables; more requests repeat the same pairs. No bound but the sets limits
  `ProcessCall`; calls and requests are interchangeable, so `process_transcripts`
  checks its invariants under their symmetry.
- `MaxMsg` is 3 instead of 32, and `MaxSends` with the notifications exceeds it
  twice. `MaxSummaries` = 2 lets a second
  notification meet a poll the first has disturbed.
- `notat_flow`: two calls show every confusion of a note with the one before; two
  posts race in `gem_feedback`, and a rating, once sent, is compared only with
  another, so one heart is enough. One reload shows what a new store makes of old
  statuses.
- `azure_streams`: two calls are all that a flag file can confuse at a time. Two
  buffers of the first call say what may be lost or overtaken; the second call
  shares the flag file and the status queue, so that its process may be interrupted
  but its requests need not fail. "late" is left to the theorems: in the instance it
  doubles the states, and the queue does not tell who puts last. Only the callers' streams are instantiated, since
  only they send statuses; the agent's are the same without them.
- `prediction`: three operations let a prompt or a configuration change before,
  between and after the two reads of a request. The calls take less than the
  limit per call, less than the rest of the global limit, and more than both. Two of the
  operations may be saves that overlap, with an edit of the form between them; agents
  and scripts are interchangeable, so the run uses their symmetry. Two words are the
  least that a phrase can spread over sentences.
- `process_notes`: two sentences per speaker with up to three times cover equal
  times, every order of answers and requests, and empty, full and split sentences.
- `ConversationInOrder`, `ConversationIsStored` and `NoteKeepsSentences` are about
  algorithms without state: formulas over all inputs within the bounds, with `Init`
  as their premise only so that TLC evaluates them in the initial states and not
  again in every other. Their theorems (section 5) drop the bounds.
- Deadlock is not checked: a call, a set of requests and a bounded number of
  messages come to an end.

### Fairness

- `MainFairness`: the main thread never waits without a limit (10 seconds for
  `/get_config`, 30 per join, half a second per look at the flag). Nothing is
  assumed of the answer to `/process_call`, which has no timeout, nor of the
  removal of the flag.
- `ThreadFairness`, the premise of `TranscribersEnd`: the operating system schedules every thread, the requests of
  a transcriber return, and a callback that was entered finishes. It is weak
  fairness per thread; nothing forces a callback to be called.
- `ProcessCall!FairSpec`: an accepted request goes on until it is answered or
  its worker is killed.
- `StatusQueue!FairSpec`: the frontend polls in an endless loop.
- `NotatFlow!FairSpec`: the steps of the polling loop. Its timers fire and its
  requests return or fail; nothing is assumed of calls, of the agent or of
  `gem_feedback`.

Each property has a mutant: an operator beside the one it replaces, changed the
way a plausible bug would change it, under which TLC finds the property violated.

## 5. Proofs

Every safety property of the passing runs is a theorem. Those about a state machine
rest on an inductive invariant named in the table; TLC checked it on a small
instance before it was proved. Those about the text processor and the conversation
say what a loop over data computes, for data of any length.

The library's induction theorems take an operator as a parameter, which no
installed prover instantiates. `Induction` states induction with a set instead: a
set of numbers with 0 and the successor of each is `Nat` (`NumberInduction`, from the
least number outside of it), and a set of sequences with the empty one and each
one's extensions is `Seq(S)` (`SequenceInduction`, over their lengths). What a proof
by induction is about becomes such a set, `{s \in Seq(S) : ...}`. From it follow how
`FlattenSeq` and `Only` treat an empty sequence, one element more, and two sequences
after each other; the recursive functions of the model are shown to exist in the
same way (`SortDef`, `CombineDef`).

`RecordingProofs` holds for every `MaxFrames`, buffer size, chunk size and set
of failures allowed by `RecordingAssumption`.

| Theorem | Property | Argument |
|---|---|---|
| `TypeCorrect` | `TypeOK` | One lemma per thread (`MainStepTypes`, `RecorderStepTypes`, `TranscriberStepTypes`) over the parts `MainTypes`, `RecorderTypes`, `TranscriberTypes`. |
| `NotifyWaits` | `NotifyWaitsForThreads` | `StopInv`: from the stop on, a living thread is still on the list or was given up. The property alone is not inductive: it says nothing before the request is sent. Uses that a thread that ended stays ended and that the list holds every thread. |
| `NotifyFinds` | `NotifyFindsTranscripts` | `TranscriptInv`: what a transcriber holds at each stage, down to blob = results when it is done; with `NotifyWaits`, no late thread means all are done. |
| `NewestStatus` | `NewestStatusIsEndCall` | Inductive with `TranscriptInv`: only the step that leaves the second loop can make it matter, and that step sends `end-call`. |
| `SessionImplemented` | `ImplementsSession` | The refinement of `CallSession`: initial states map to initial states, and each action to the step of the session it is, or to a stutter. Needs `TranscriptInv` (a transcript appears once, at the upload) and `StopEventInv` (a transcriber hangs up only after the stop). |
| `NoFrameLost` | `NoFrameVanishes` | `FrameInv`: the start metadata go before all audio, so the transcriber never takes audio it would drop, and a buffer that was put and not cleared is also behind the queue. Without the first part a step of `TakeItem` could lose a buffer, without the second `ClearBuffer` could. |
| `AudioKeepsOrder` | `AudioInOrder` | `OrderInv`: until the recorder flushes and while a callback has yet to put its buffer, nothing is repeated (`OnceOver`), a buffer not yet put is later than all that was (`NewBuffer`), a buffer ascends (`BufferOrder`), and a callback runs on only after the stop (`CallbackTime`). So the second put of a buffer is the only one at which the sound starts over. The transcriber only joins or drops pieces (`ChunkJoined`, `ChunkDropped`), which keeps the order of the rest (`PlacesOrdered`). |

`ProcessCallProofs` holds for any sets of calls and requests (`NoCall` is not a
call: `ProcessCallAssumption`) and every set of failures.

| Theorem | Property | Argument |
|---|---|---|
| `TypeCorrect` | `TypeOK` | `TypeInv` adds `Sent`: a request past "idle" is for a call, or its row would have none. |
| `SummaryNote` | `SummaryHasNote` | `NoteSaved`: a request about to announce finds a note in the table, its own or the one the unique index protected; rows are never removed (`NotesStay`). |
| `TranscriptsKept` | `TranscriptKept` | What is about to be deleted is held (`DeleteHeld`), and a filled `jn.samtale` means an answered request (`SavedByAnswered`), which for a call asked for once is the request itself: so its own insert cannot be rejected. |
| `NoteWholeCall` | `NoteUsesWholeCall` | `Reading`: what the request found is either read or still in the container with its speaker's turn to come; no other request deletes blobs of the call. |

`StatusQueueProofs` holds for any finite set of tabs (`StatusQueueAssumption`;
browsers are finitely many), every size of a page and any numbers of messages.

| Theorem | Property | Argument |
|---|---|---|
| `TypeCorrect` | `TypeOK` | Part of `QueueInv`. |
| `NeverGoesBack` | `StatusNeverGoesBack` | `QueueInv`: the message a tab has chosen is still visible or older than all that is, and never older than the one it showed. The order of choosing and deleting does not matter then. |
| `NewestKeptAlone` | `NewestKeptForOneTab` | `OneTabInv`: as long as the queue was not cleared, a tab alone has as many deletions left as there are messages before its newest, so it does not reach that one. |

`NotatFlowProofs` holds for any calls, number of posts and reloads, and every
failure.

| Theorem | Property | Argument |
|---|---|---|
| `FinishedHidden` | `FinishedIsHidden` | `ShowInv`: while the loop fetches or is about to show a note none is on the screen, so "Færdig" cannot be pressed, and the answer meets the flags it left. |
| `TypeCorrect` | `TypeOK` | Part of `NotatInv`, with where the loop, the calls and the screen are. |
| `FeedbackIsAboutShownNote` | `FeedbackForShownNote` | `ScreenInv`: as long as a note is shown, `callId` is the call it was fetched for, whatever happens during the loop's awaits. |
| `RatingsKept` | `RatingKept` | `FeedbackInv`: a saved rating is in the table, or a later post of the same call deleted it to insert its own. |
| `NotUsedStays` | `NotUsedKept` | `FeedbackInv`: `gem_feedback` deletes rows with a rating only, so a mark, which has none, stays; the overview shows the least (`OverviewShows`, from the lemma `LeastNumber`). |
| `ShownNoteNotOlder` | `NoteNotOlder` | An action property, from `OrderInv`: the fetched note was saved, and the announced one not after it. |

`AzureAudioProofs` holds for any number of calls and streams, every mishap and
every failure of Azure.

| Theorem | Property | Argument |
|---|---|---|
| `FlagShowsRecording` | `FlagMeansRecording` | Inductive with the types: the process that wrote the file leaves "recording" and "stopping" only by `Stop`, which removes whatever file there is unless that fails, or killed; one lemma each for Genesys, the processes and their threads. |
| `OneStatus` | `OneStatusPerCall` | `StatusInv`: a thread about to send has cleared its call's messages or has sent none, and each call has one caller's thread (`OneCaller`). The property alone is not inductive: it does not say that the queue is still without the call's message when the send comes. |
| `TypeCorrect` | `TypeOK` | Part of `FlagInv`, `StatusInv` and `AudioInv`. |
| `AnnouncedStored` | `AnnouncedIsStored` | `SegmentsOK`: the numbers announced are below `segmentCount`, which is the number of the next blob, so that no upload overwrites one. |
| `BuffersKeepOrder` | `BuffersInOrder` | `OrderOK`: as long as the process lives the thread's number is that of the next blob, and blobs, hand and queue together ascend and are what was put but for failed uploads. |

`PredictionProofs` holds for any agents, areas, prompts, limits and call times
allowed by the assumptions of `Prediction` and the modules it extends.

| Theorem | Property | Argument |
|---|---|---|
| `NoteRestsOnAnswers` | `NoteFromTwoAnswers` | `AnswerInv`: what is evaluated is an answer and the second question is asked only after an answer to the first, so that an error text can only leave through a return with `har_fejlet`. |
| `QuestionEnds` | `QuestionTakesOneCallMore` | `TimeInv`: a call begins within the global limit, so it ends within that and its own time. |
| `TypeCorrect` | `TypeOK` | From `ConfigInv`, `TableInv` and the types of a request. |
| `NewestPrompts` | `NewestOfArea` | `TableInv`: no two rows, saved or about to be, have the same time, so that each area and number has one newest row; then at most four rows compete for two places, and both of the area win. |
| `NoAgentForgotten` | `SavedOrLeftInForm` | An action property, from `ConfigInv`: every agent that one of the overlapping runs has asked for failed in it, has no configuration, or has that of one of the runs that asked for it (`Settled`). The runs cannot be looked at one by one: each answer may change what another run has saved (`ResultSettled`). |
| `NoteHasItsPrompts` | `PromptsOfArea` | `PickedInv`: the prompts are read once, after the area, and a row of the table never changes (`FoundPrompts`). |
| `NoteKeepsTheText` | `NoteKeepsSentences` | `Grouped`, kept by every `Join`: the groups one after the other are the text, no full stop is inside a group, and each but perhaps the last ends with one. So the group of a sentence is what the property calls its neighbourhood (`AroundGroup`, `KeptGroup`), a phrase is found in the one exactly if it is in the other (`PhraseOfGroup`), `FormatSentences` and `Postprocess` leave the groups to be kept (`ProcessedGroups`), and by induction over the groups their sentences are the kept ones (`KeptStep`). |

`SamtaleProofs` holds for every `MaxLen`, number of sentences, set of lengths and
number of times.

| Theorem | Property | Argument |
|---|---|---|
| `ConversationKeepsOrder` | `ConversationInOrder` | Inserting a line into a conversation sorted by time splits it into what is not later and what is (`InsertSplits`), so it stays sorted (`InsertInTime`) and of any set of lines that are in time order those in the conversation keep their order (`InsertIsStable`, `SortIsStable`). A speaker's lines are such a set, because each is asked for after the one before was answered (`TranscriptLines`, `OnlyInTime`); across speakers the time of the answer decides. |
| `ConversationKeepsText` | `ConversationIsStored` | The chunks of a line are not empty, at most `MaxLen` long, and together the line (`ChunkEnds`, `ChunksOf`); by induction over the conversation its rows are together its text (`RowsOf`). |

Only model-checked: liveness, which is out of the prover's reach
(`RemovedFlagLeadsToNotify`, `TranscribersEnd`, `NoteIsAnnounced`, `CatchesUp`,
`SummaryIsFetched`), and the three properties that the code violates.

## 6. Not modelled

- Tray icon, logging, metadata contents, sample rates; a notification of the icon
  that raises inside `stop()`.
- In the azure mode the messages "start" and "end" of `status-audio`, which name no
  segment. The renewal of an expired client is a way in which a call may fail
  (`MayFail`); with a connection string it always does, since a number is compared
  with a time.
- Of the frontend: layout, toasts, the copy button and the report pages. Two tabs
  are in `StatusQueue` only; `NotatFlow` has one. Each mount of `JNNotatView` starts
  another polling loop and none is stopped when it is left; the model has the loop
  that a page starts with (`Reload`), as no link leads from that view and back
  with the store alive.
- Of `jn.config` every column but `forretningsomraade`; of a prompt its text
  but for being the same or another.
- How the tokenizer finds sentences, and the fields and HTML of the note.
- `hent_eval_prompts` and `evaluate_model`, which nothing calls while evaluation is
  switched off, and the batches that empty notes and conversations after two
  months (a note without text is `NotatFlow`'s failure "empty").
- The timeout handler: a wrapper that turns a slow `hent_notat` into the failure
  "fetch" of `NotatFlow`.
- `Recording` begins its stop with the file removed; what may go wrong with the file,
  and the interrupted monitoring loop, is in `FlagFile` only.
- The two modes share the flag file, the recorders and the stop; how callback and
  recorder share a buffer is modelled in `Recording` only.
- Time to live and visibility timeout of queue messages: they pass in minutes and
  days, a poll in milliseconds.
- Contents of transcripts: undecodable blobs do not come from this streamer.
- Evaluation (switched off by `eval = False`), reports, migration, simulation,
  load tests.
