----------------------------- MODULE StatusQueue -----------------------------
(***************************************************************************)
(* The status queue of one agent: the streamer and process_call send to    *)
(* it, fetch_status polls it for the frontend                              *)
(* (JNNotatBusinessComponent._hent_messages_azure).                        *)
(*                                                                         *)
(* A message is its number in the order of sending, which is the order of  *)
(* the Azure queue; the queue is the set of the messages in it.  A message *)
(* that was received but not yet deleted is hidden from peek and receive.  *)
(***************************************************************************)
EXTENDS Naturals, FiniteSets, FiniteSetsExt

CONSTANTS
    Pollers,      \* the browser tabs that poll for the agent
    MaxMsg,       \* max_msg: the messages one peek returns, at most
    MaxSends,     \* bound: messages sent to the queue
    MaxSummaries  \* bound: calls of azure_notify_status

ASSUME StatusQueueAssumption ==
    /\ IsFiniteSet(Pollers)
    /\ MaxMsg \in Nat \ {0}
    /\ MaxSends \in Nat
    /\ MaxSummaries \in Nat

VARIABLES
    open,      \* the tabs that are open: they poll
    queue,     \* the messages in the queue
    sent,      \* the number of messages sent: also the newest message
    notifier,  \* azure_notify_status: "idle", or "send" once it cleared the queue
    summaries, \* how often azure_notify_status was called
    pc,        \* per poller, the next step of its request, "failed" after a 500
    newest,    \* per poller, the last message of the page it peeked
    left,      \* per poller, how many messages it still receives and deletes
    held,      \* per poller, the message it received and has not deleted
    shown      \* per poller, the last message whose status it was answered

senderVars == <<sent, notifier, summaries>>
pollVars == <<pc, newest, left, held, shown>>
vars == <<open, queue, senderVars, pollVars>>

NoMessage == 0

Visible == queue \ {held[p] : p \in Pollers}

(* peek_messages(max_messages=max_msg): the oldest visible messages. *)
Page == {m \in Visible : Cardinality({n \in Visible : n < m}) < MaxMsg}

-----------------------------------------------------------------------------
Init ==
    /\ open \in (SUBSET Pollers) \ {{}}
    /\ queue = {}
    /\ sent = 0
    /\ notifier = "idle"
    /\ summaries = 0
    /\ pc = [p \in Pollers |-> "idle"]
    /\ newest = [p \in Pollers |-> NoMessage]
    /\ left = [p \in Pollers |-> 0]
    /\ held = [p \in Pollers |-> NoMessage]
    /\ shown = [p \in Pollers |-> NoMessage]

Put ==
    /\ sent' = sent + 1
    /\ queue' = queue \cup {sent + 1}

(* The streamer sends start-call or end-call. *)
Send ==
    /\ sent < MaxSends
    /\ Put
    /\ UNCHANGED <<notifier, summaries, pollVars>>

(* azure_notify_status removes all messages, hidden ones too, ... *)
ClearMessages ==
    /\ notifier = "idle"
    /\ summaries < MaxSummaries
    /\ notifier' = "send"
    /\ summaries' = summaries + 1
    /\ queue' = {}
    /\ UNCHANGED <<sent, pollVars>>

(* ... and sends end-summary. *)
SendSummary ==
    /\ notifier = "send"
    /\ notifier' = "idle"
    /\ Put
    /\ UNCHANGED <<summaries, pollVars>>

(* Mutant: the page is deleted to the last message. *)
PeekForWholePage(p) ==
    /\ pc[p] = "idle"
    /\ Page # {}
    /\ newest' = [newest EXCEPT ![p] = Max(Page)]
    /\ left' = [left EXCEPT ![p] = Cardinality(Page)]
    /\ pc' = [pc EXCEPT ![p] = "receive"]
    /\ UNCHANGED <<queue, senderVars, held, shown>>

(* Mutant: older messages are left in the queue. *)
PeekOnly(p) ==
    /\ pc[p] = "idle"
    /\ Page # {}
    /\ newest' = [newest EXCEPT ![p] = Max(Page)]
    /\ left' = [left EXCEPT ![p] = 0]
    /\ pc' = [pc EXCEPT ![p] = "answer"]
    /\ UNCHANGED <<queue, senderVars, held, shown>>

(* A poll peeks a page; finding none, or no queue client, it answers       *)
(* no-status and nothing changes.                                          *)
Peek(p) ==
    /\ pc[p] = "idle"
    /\ Page # {}
    /\ newest' = [newest EXCEPT ![p] = Max(Page)]
    /\ left' = [left EXCEPT ![p] = Cardinality(Page) - 1]
    /\ pc' = [pc EXCEPT ![p] = IF Cardinality(Page) > 1 THEN "receive" ELSE "answer"]
    /\ UNCHANGED <<queue, senderVars, held, shown>>

(* Mutant: the queue is taken for a stack. *)
ReceiveNewest(p) ==
    /\ pc[p] = "receive"
    /\ IF Visible = {}
       THEN /\ pc' = [pc EXCEPT ![p] = "answer"]
            /\ UNCHANGED held
       ELSE /\ held' = [held EXCEPT ![p] = Max(Visible)]
            /\ pc' = [pc EXCEPT ![p] = "delete"]
    /\ UNCHANGED <<queue, senderVars, newest, left, shown>>

(* The iterator over receive_messages fetches, and hides, one message at a *)
(* time: whichever is the oldest by then.                                  *)
Receive(p) ==
    /\ pc[p] = "receive"
    /\ IF Visible = {}
       THEN /\ pc' = [pc EXCEPT ![p] = "answer"]
            /\ UNCHANGED held
       ELSE /\ held' = [held EXCEPT ![p] = Min(Visible)]
            /\ pc' = [pc EXCEPT ![p] = "delete"]
    /\ UNCHANGED <<queue, senderVars, newest, left, shown>>

(* Mutant: the loop runs once too often. *)
DeleteOneMore(p) ==
    /\ pc[p] = "delete"
    /\ queue' = queue \ {held[p]}
    /\ held' = [held EXCEPT ![p] = NoMessage]
    /\ left' = [left EXCEPT ![p] = @ - 1]
    /\ pc' = [pc EXCEPT ![p] = IF held[p] \notin queue THEN "failed"
                               ELSE IF left[p] > 0 THEN "receive" ELSE "answer"]
    /\ UNCHANGED <<senderVars, newest, shown>>

(* Deleting a message that was cleared meanwhile raises: the request ends  *)
(* with a 500, on which the frontend stops polling.                        *)
Delete(p) ==
    /\ pc[p] = "delete"
    /\ queue' = queue \ {held[p]}
    /\ held' = [held EXCEPT ![p] = NoMessage]
    /\ left' = [left EXCEPT ![p] = @ - 1]
    /\ pc' = [pc EXCEPT ![p] = IF held[p] \notin queue THEN "failed"
                               ELSE IF left[p] > 1 THEN "receive" ELSE "answer"]
    /\ UNCHANGED <<senderVars, newest, shown>>

(* The status is that of the last message of the page peeked before. *)
Answer(p) ==
    /\ pc[p] = "answer"
    /\ shown' = [shown EXCEPT ![p] = newest[p]]
    /\ pc' = [pc EXCEPT ![p] = "idle"]
    /\ UNCHANGED <<queue, senderVars, newest, left, held>>

-----------------------------------------------------------------------------
Poll(p) == Peek(p) \/ Receive(p) \/ Delete(p) \/ Answer(p)

Next ==
    /\ Send \/ ClearMessages \/ SendSummary \/ \E p \in open : Poll(p)
    /\ UNCHANGED open

Spec == Init /\ [][Next]_vars

(* The frontend polls in an endless loop and the server serves each poll. *)
FairSpec == Spec /\ \A p \in Pollers : WF_vars(p \in open /\ Poll(p) /\ UNCHANGED open)

-----------------------------------------------------------------------------
(* Properties *)

Sent == 1 .. sent

(* Every variable keeps its type. *)
TypeOK ==
    /\ open \in (SUBSET Pollers) \ {{}}
    /\ sent \in Nat
    /\ queue \subseteq Sent
    /\ notifier \in {"idle", "send"}
    /\ summaries \in 0 .. MaxSummaries
    /\ pc \in [Pollers -> {"idle", "receive", "delete", "answer", "failed"}]
    /\ newest \in [Pollers -> {NoMessage} \cup Sent]
    /\ left \in [Pollers -> 0 .. MaxMsg]
    /\ held \in [Pollers -> {NoMessage} \cup Sent]
    /\ shown \in [Pollers -> {NoMessage} \cup Sent]

(* What _hent_messages_azure's comment promises: of the messages in the    *)
(* queue a poll deletes all but the last.  So the newest status stays in   *)
(* the queue until the next one is sent, however polls and messages        *)
(* interleave and however full the queue is.                               *)
NewestKept == sent > 0 /\ notifier = "idle" => sent \in queue

(* One tab keeps that promise as long as the queue is not cleared. *)
OneTab == Cardinality(open) = 1
NewestKeptForOneTab == OneTab /\ summaries = 0 => NewestKept

(* The status a tab is shown never goes back to that of an older message,  *)
(* also when other tabs poll and calls are announced at the same time.     *)
StatusNeverGoesBack ==
    [][\A p \in Pollers : shown'[p] >= shown[p]]_vars

(* A tab that polls alone catches up with the newest status once the       *)
(* streamer is quiet, also when more messages wait than one peek returns.  *)
CatchesUp ==
    OneTab /\ [](summaries = 0) => \A p \in Pollers : <>[](p \in open => shown[p] = sent)
=============================================================================
