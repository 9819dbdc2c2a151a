-------------------------- MODULE StatusQueueProofs --------------------------
(* Theorems about StatusQueue, for any number of tabs, messages and calls  *)
(* of azure_notify_status, and pages of any size.                          *)
EXTENDS StatusQueue, Induction

-----------------------------------------------------------------------------
(* What a tab has seen of the queue.                                       *)

(* A page once peeked stays the oldest part of what is visible: messages   *)
(* are taken from its beginning and sent after its end.                    *)
PageInv(p) ==
    /\ Cardinality({m \in Visible : m < newest[p]}) < MaxMsg
    /\ newest[p] \in Visible \/ \A m \in Visible : newest[p] < m
    /\ shown[p] <= newest[p]

HeldInv(p) ==
    /\ pc[p] # "delete" => held[p] = NoMessage
    /\ pc[p] \in {"receive", "delete"} => left[p] > 0

QueueInv ==
    /\ TypeOK
    /\ \A p \in Pollers : HeldInv(p) /\ PageInv(p)

(* The messages that a tab alone still has to delete are those before the  *)
(* newest of its page.                                                     *)
Before(p) == {m \in queue : m < newest[p]}

AloneInv(p) ==
    /\ pc[p] \in {"receive", "delete"} =>
           newest[p] \in queue /\ Cardinality(Before(p)) = left[p]
    /\ pc[p] = "delete" => held[p] \in Before(p)

OneTabInv ==
    /\ notifier = "send" => summaries > 0
    /\ \A p \in Pollers \ open : pc[p] = "idle"
    /\ OneTab /\ summaries = 0 =>
           /\ sent > 0 => sent \in queue
           /\ \A p \in open : AloneInv(p)

-----------------------------------------------------------------------------
(***************************************************************************)
(* What is visible was sent; so it is finite, and so is each part of it.   *)
(***************************************************************************)
LEMMA VisibleSent ==
  ASSUME TypeOK
  PROVE  /\ Visible \subseteq queue /\ Visible \subseteq 1 .. sent /\ sent \in Nat
         /\ IsFiniteSet(queue)
         /\ \A S \in SUBSET queue : IsFiniteSet(S) /\ Cardinality(S) \in Nat
<1>1. IsFiniteSet(1 .. sent)
  BY FS_Interval DEF TypeOK
<1>2. IsFiniteSet(queue)
  BY <1>1, FS_Subset DEF TypeOK, Sent
<1>3. QED
  BY <1>2, FS_Subset, FS_CardinalityType DEF TypeOK, Visible, Sent

(***************************************************************************)
(* A page's newest message is preceded by the rest of the page and nothing *)
(* else that is visible; a page has at most MaxMsg messages.               *)
(***************************************************************************)
LEMMA PageParts ==
  ASSUME TypeOK, Page # {}
  PROVE  /\ Max(Page) \in Page /\ Max(Page) \in Visible
         /\ \A m \in Page : m <= Max(Page)
         /\ Cardinality(Page) \in 1 .. MaxMsg
         /\ Cardinality({m \in Visible : m < Max(Page)}) = Cardinality(Page) - 1
         /\ Cardinality({m \in Visible : m < Max(Page)}) < MaxMsg
<1> USE StatusQueueAssumption
<1>1. /\ Page \subseteq Visible /\ Page \in SUBSET (1 .. sent) /\ IsFiniteSet(Page)
      /\ \A m \in Visible : m \in Nat
  <2>1. Page \subseteq Visible
    BY DEF Page
  <2>2. Page \in SUBSET queue
    BY <2>1, VisibleSent
  <2>3. QED
    BY <2>1, <2>2, VisibleSent
<1>2. PICK top \in Page : top = Max(Page) /\ \A m \in Page : m <= top
  <2>1. Page \in SUBSET Int /\ sent \in Int /\ \A m \in Page : m <= sent
    BY <1>1, VisibleSent
  <2>2. QED
    BY <2>1, MaxOf
<1> DEFINE Under(n) == {m \in Visible : m < n}
<1>3. \A n : IsFiniteSet(Under(n)) /\ Cardinality(Under(n)) \in Nat
  BY VisibleSent
<1>4. Cardinality(Under(top)) < MaxMsg
  BY <1>2 DEF Page
<1>5. Under(top) = Page \ {top}
  <2>1. ASSUME NEW m \in Page, m # top PROVE m \in Under(top)
    BY <1>1, <1>2, <2>1
  <2>2. ASSUME NEW m \in Under(top) PROVE m \in Page
    <3>1. ASSUME NEW k \in Under(m) PROVE k \in Under(top)
      <4>1. k \in Nat /\ m \in Nat /\ top \in Nat /\ k < m /\ m < top
        BY <1>1, <1>2
      <4>2. QED
        BY <4>1
    <3>2. Cardinality(Under(m)) <= Cardinality(Under(top))
      BY <1>3, <3>1, FS_Subset
    <3>3. Cardinality(Under(m)) < MaxMsg
      BY <1>3, <1>4, <3>2
    <3>4. QED
      BY <3>3 DEF Page
  <2>3. top \notin Under(top)
    BY <1>1, <1>2
  <2>4. QED
    BY <2>1, <2>2, <2>3
<1>6. Cardinality(Under(top)) = Cardinality(Page) - 1
  BY <1>1, <1>2, <1>5, FS_RemoveElement
<1>7. Cardinality(Page) \in Nat
  BY <1>1, FS_CardinalityType
<1>8. Cardinality(Page) \in 1 .. MaxMsg
  <2> HIDE DEF Under
  <2>1. QED
    BY <1>3, <1>4, <1>6, <1>7
<1>9. QED
  BY <1>1, <1>2, <1>4, <1>6, <1>8

-----------------------------------------------------------------------------
(***************************************************************************)
(* What a step does to the visible messages: a new one comes at the end,   *)
(* the oldest goes, or all go.                                             *)
(***************************************************************************)
VisibleStep ==
    \/ Visible' = Visible
    \/ Visible' = Visible \cup {sent + 1}
    \/ Visible' = {}
    \/ Visible # {} /\ Visible' = Visible \ {Min(Visible)}

(***************************************************************************)
(* Every step does one of these.  Receiving hides the oldest message, and  *)
(* deleting it later changes nothing that is visible.                      *)
(***************************************************************************)
LEMMA EveryVisibleStep ==
  ASSUME QueueInv, Next
  PROVE  VisibleStep
<1> USE DEF QueueInv
<1>1. /\ held \in [Pollers -> {NoMessage} \cup 1 .. sent] /\ sent \in Nat
      /\ queue \subseteq 1 .. sent
  BY DEF TypeOK, Sent
<1>2. CASE Put /\ held' = held
  <2>1. sent + 1 \notin {held[p] : p \in Pollers}
    BY <1>1 DEF NoMessage
  <2>2. Visible' = Visible \cup {sent + 1}
    BY <1>2, <2>1 DEF Put, Visible
  <2>3. QED
    BY <2>2 DEF VisibleStep
<1>3. CASE queue' = {}
  BY <1>3 DEF VisibleStep, Visible
<1>4. CASE UNCHANGED <<queue, held>>
  BY <1>4 DEF VisibleStep, Visible
<1>5. ASSUME NEW p \in Pollers, Receive(p), held' # held PROVE VisibleStep
  <2>1. Visible # {} /\ held' = [held EXCEPT ![p] = Min(Visible)] /\ queue' = queue
    BY <1>5 DEF Receive
  <2>2. held[p] = NoMessage /\ NoMessage \notin queue
    BY <1>1, <1>5 DEF Receive, HeldInv, NoMessage
  <2>3. held'[p] = Min(Visible) /\ \A q \in Pollers \ {p} : held'[q] = held[q]
    BY <1>1, <2>1
  <2>4. Visible' = Visible \ {Min(Visible)}
    <3> DEFINE gone == Min(Visible)
    <3> HIDE DEF gone
    <3>1. held'[p] = gone /\ Visible' = queue \ {held'[q] : q \in Pollers}
      BY <2>1, <2>3 DEF Visible, gone
    <3>2. Visible' = Visible \ {gone}
      BY <2>2, <2>3, <3>1 DEF Visible
    <3>3. QED
      BY <3>2 DEF gone
  <2>5. QED
    BY <2>1, <2>4 DEF VisibleStep
<1>6. ASSUME NEW p \in Pollers, Delete(p) PROVE VisibleStep
  <2>1. /\ queue' = queue \ {held[p]} /\ held'[p] = NoMessage
        /\ \A q \in Pollers \ {p} : held'[q] = held[q]
    BY <1>1, <1>6 DEF Delete
  <2>2. NoMessage \notin queue
    BY <1>1 DEF NoMessage
  <2>3. Visible' = Visible
    BY <2>1, <2>2 DEF Visible
  <2>4. QED
    BY <2>3 DEF VisibleStep
<1>7. ASSUME NEW p \in Pollers, Poll(p) PROVE VisibleStep
  BY <1>4, <1>5, <1>6, <1>7 DEF Poll, Peek, Receive, Answer
<1>8. open \subseteq Pollers
  BY DEF TypeOK
<1>9. QED
  BY <1>2, <1>3, <1>7, <1>8 DEF Next, Send, ClearMessages, SendSummary, pollVars

(***************************************************************************)
(* Where a tab's page stands survives each of these steps.                 *)
(***************************************************************************)
LEMMA PageKept ==
  ASSUME TypeOK, TypeOK', VisibleStep, NEW p \in Pollers, PageInv(p),
         newest'[p] = newest[p]
  PROVE  /\ Cardinality({m \in Visible' : m < newest'[p]}) < MaxMsg
         /\ newest'[p] \in Visible' \/ \A m \in Visible' : newest'[p] < m
<1> USE StatusQueueAssumption
<1> DEFINE n == newest[p]
           Earlier == {m \in Visible : m < n}
           EarlierNow == {m \in Visible' : m < n}
<1>1. n \in 0 .. sent /\ sent \in Nat /\ \A m \in Visible : m \in Nat
  BY VisibleSent DEF TypeOK, Sent, NoMessage
<1>2. /\ IsFiniteSet(Earlier) /\ Cardinality(Earlier) \in Nat
      /\ Cardinality(Earlier) < MaxMsg
      /\ n \in Visible \/ \A m \in Visible : n < m
  BY VisibleSent DEF PageInv
<1>3. /\ EarlierNow \subseteq Earlier
      /\ n \in Visible' \/ \A m \in Visible' : n < m
  <2>1. CASE Visible' = Visible
    BY <1>2, <2>1
  <2>2. CASE Visible' = Visible \cup {sent + 1}
    <3>1. n < sent + 1
      BY <1>1
    <3>2. QED
      BY <1>1, <1>2, <2>2, <3>1
  <2>3. CASE Visible' = {}
    BY <2>3
  <2>4. CASE Visible # {} /\ Visible' = Visible \ {Min(Visible)}
    <3>1. \A m \in Visible : Min(Visible) <= m
      BY <1>1, <2>4, MinOf
    <3>2. PICK oldest \in Visible : oldest = Min(Visible)
      BY <1>1, <2>4, MinOf
    <3>3. CASE n = oldest
      BY <1>1, <2>4, <3>1, <3>2, <3>3
    <3>4. CASE n # oldest
      BY <1>2, <2>4, <3>2, <3>4
    <3>5. QED
      BY <3>3, <3>4
  <2>5. QED
    BY <2>1, <2>2, <2>3, <2>4 DEF VisibleStep
<1>4. Cardinality(EarlierNow) <= Cardinality(Earlier) /\ Cardinality(EarlierNow) \in Nat
  BY <1>2, <1>3, FS_Subset, FS_CardinalityType
<1>5. Cardinality(EarlierNow) < MaxMsg
  <2> HIDE DEF EarlierNow, Earlier
  <2>1. QED
    BY <1>2, <1>4
<1>6. QED
  BY <1>3, <1>5

(***************************************************************************)
(* The types, and how much a tab still has to receive, survive each step.  *)
(***************************************************************************)
LEMMA TypesKept ==
  ASSUME QueueInv, Next
  PROVE  TypeOK' /\ \A p \in Pollers : HeldInv(p)'
<1> USE StatusQueueAssumption DEF QueueInv, HeldInv
<1>1. open \subseteq Pollers /\ open' = open
  BY DEF TypeOK, Next
<1>2. CASE Send
  BY <1>1, <1>2 DEF TypeOK, Send, Put, pollVars, Sent, NoMessage
<1>3. CASE ClearMessages
  BY <1>1, <1>3 DEF TypeOK, ClearMessages, pollVars, Sent, NoMessage
<1>4. CASE SendSummary
  BY <1>1, <1>4 DEF TypeOK, SendSummary, Put, pollVars, Sent, NoMessage
<1>5. ASSUME NEW p \in Pollers, Peek(p)
      PROVE  TypeOK' /\ \A q \in Pollers : HeldInv(q)'
  <2>1. Max(Page) \in Sent /\ Cardinality(Page) \in 1 .. MaxMsg
    BY <1>5, PageParts, VisibleSent DEF Peek, Sent
  <2>2. /\ newest' \in [Pollers -> {NoMessage} \cup Sent]
        /\ left' \in [Pollers -> 0 .. MaxMsg]
    BY <1>5, <2>1 DEF Peek, TypeOK
  <2>3. TypeOK'
    BY <1>1, <1>5, <2>2 DEF Peek, TypeOK, senderVars, Sent
  <2>4. ASSUME NEW q \in Pollers PROVE HeldInv(q)'
    BY <1>5, <2>1 DEF Peek, TypeOK
  <2>5. QED
    BY <2>3, <2>4
<1>6. ASSUME NEW p \in Pollers, Receive(p)
      PROVE  TypeOK' /\ \A q \in Pollers : HeldInv(q)'
  <2>1. Visible # {} => Min(Visible) \in Sent
    BY MinOf, VisibleSent DEF Sent
  <2>2. held' \in [Pollers -> {NoMessage} \cup Sent]
    BY <1>6, <2>1 DEF Receive, TypeOK
  <2>3. TypeOK'
    BY <1>1, <1>6, <2>2 DEF Receive, TypeOK, senderVars, Sent
  <2>4. ASSUME NEW q \in Pollers PROVE HeldInv(q)'
    BY <1>6 DEF Receive, TypeOK
  <2>5. QED
    BY <2>3, <2>4
<1>7. ASSUME NEW p \in Pollers, Delete(p)
      PROVE  TypeOK' /\ \A q \in Pollers : HeldInv(q)'
  <2>1. left[p] \in 1 .. MaxMsg
    BY <1>7 DEF Delete, TypeOK
  <2>2. left' \in [Pollers -> 0 .. MaxMsg]
    BY <1>7, <2>1 DEF Delete, TypeOK
  <2>3. TypeOK'
    BY <1>1, <1>7, <2>2 DEF Delete, TypeOK, senderVars, Sent
  <2>4. ASSUME NEW q \in Pollers PROVE HeldInv(q)'
    BY <1>7, <2>1 DEF Delete, TypeOK
  <2>5. QED
    BY <2>3, <2>4
<1>8. ASSUME NEW p \in Pollers, Answer(p)
      PROVE  TypeOK' /\ \A q \in Pollers : HeldInv(q)'
  BY <1>1, <1>8 DEF Answer, TypeOK, senderVars, Sent
<1>9. QED
  BY <1>1, <1>2, <1>3, <1>4, <1>5, <1>6, <1>7, <1>8 DEF Next, Poll

(***************************************************************************)
(* A page peeked later is not older: its newest message is the one of the  *)
(* page before or was sent after it.                                       *)
(***************************************************************************)
LEMMA PagesAdvance ==
  ASSUME QueueInv, NEW p \in Pollers, Page # {}
  PROVE  newest[p] <= Max(Page)
<1>1. TypeOK /\ PageInv(p)
  BY DEF QueueInv
<1>2. newest[p] \in Nat /\ \A m \in Visible : m \in Nat
  BY <1>1, VisibleSent DEF TypeOK, Sent, NoMessage
<1>3. Max(Page) \in Visible /\ \A m \in Page : m <= Max(Page)
  BY <1>1, PageParts
<1>4. newest[p] \in Page \/ \A m \in Visible : newest[p] < m
  BY <1>1 DEF PageInv, Page
<1>5. QED
  BY <1>2, <1>3, <1>4

(***************************************************************************)
(* QueueInv holds of the empty queue.                                      *)
(***************************************************************************)
LEMMA QueueInvInit == Init => QueueInv
<1> SUFFICES ASSUME Init PROVE QueueInv
  OBVIOUS
<1> USE StatusQueueAssumption DEF Init
<1>1. TypeOK
  BY DEF TypeOK, Sent, NoMessage
<1>2. Visible = {}
  BY DEF Visible
<1>3. ASSUME NEW p \in Pollers PROVE PageInv(p) /\ HeldInv(p)
  BY <1>2, FS_EmptySet DEF PageInv, HeldInv, NoMessage
<1>4. QED
  BY <1>1, <1>3 DEF QueueInv

(***************************************************************************)
(* What QueueInv says of one tab.                                          *)
(***************************************************************************)
LEMMA Standing ==
  ASSUME QueueInv, NEW p \in Pollers
  PROVE  /\ TypeOK /\ HeldInv(p) /\ PageInv(p)
         /\ newest[p] \in Nat /\ shown[p] \in Nat /\ shown[p] <= newest[p]
<1>1. TypeOK /\ HeldInv(p) /\ PageInv(p)
  BY DEF QueueInv
<1>2. newest[p] \in Nat /\ shown[p] \in Nat
  BY <1>1 DEF TypeOK, Sent, NoMessage
<1>3. QED
  BY <1>1, <1>2 DEF PageInv

(***************************************************************************)
(* Every step preserves QueueInv: only a peek changes the newest message   *)
(* of a page, and only an answer the one that is shown.                    *)
(***************************************************************************)
LEMMA QueueInvStep == QueueInv /\ [Next]_vars => QueueInv'
<1> SUFFICES ASSUME QueueInv, [Next]_vars PROVE QueueInv'
  OBVIOUS
<1>1. CASE UNCHANGED vars
  <2>1. UNCHANGED <<open, queue, sent, notifier, summaries, pc, newest, left, held, shown>>
    BY <1>1 DEF vars, senderVars, pollVars
  <2>2. TypeOK' <=> TypeOK
    BY <2>1 DEF TypeOK, Sent
  <2>3. Visible' = Visible
    BY <2>1 DEF Visible
  <2>4. ASSUME NEW p \in Pollers
        PROVE  (HeldInv(p)' <=> HeldInv(p)) /\ (PageInv(p)' <=> PageInv(p))
    BY <2>1, <2>3 DEF HeldInv, PageInv
  <2>5. QED
    BY <2>2, <2>4 DEF QueueInv
<1>2. CASE Next
  <2>1. TypeOK' /\ \A p \in Pollers : HeldInv(p)'
    BY <1>2, TypesKept
  <2>2. VisibleStep
    BY <1>2, EveryVisibleStep
  <2>3. ASSUME NEW p \in Pollers PROVE PageInv(p)'
    <3> USE <1>2
    <3>1. /\ TypeOK /\ PageInv(p)
          /\ newest[p] \in Nat /\ shown[p] \in Nat /\ shown[p] <= newest[p]
      BY Standing
    <3>2. CASE newest'[p] = newest[p]
      <4>1. shown'[p] \in {shown[p], newest[p]}
        BY <3>1 DEF Next, Send, ClearMessages, SendSummary, Poll, Peek, Receive, Delete,
                    Answer, pollVars, TypeOK
      <4>2. shown'[p] <= newest'[p]
        BY <3>1, <3>2, <4>1
      <4>3. /\ Cardinality({m \in Visible' : m < newest'[p]}) < MaxMsg
            /\ newest'[p] \in Visible' \/ \A m \in Visible' : newest'[p] < m
        BY <2>1, <2>2, <3>1, <3>2, PageKept
      <4>4. QED
        BY <4>2, <4>3 DEF PageInv
    <3>3. CASE newest'[p] # newest[p]
      <4>1. Peek(p)
        BY <3>1, <3>3 DEF Next, Send, ClearMessages, SendSummary, Poll, Peek, Receive,
                          Delete, Answer, pollVars, TypeOK
      <4>2. newest'[p] = Max(Page) /\ shown'[p] = shown[p] /\ Visible' = Visible
        BY <3>1, <4>1 DEF Peek, TypeOK, Visible
      <4>3. /\ Max(Page) \in Visible /\ newest[p] <= Max(Page)
            /\ Cardinality({m \in Visible : m < Max(Page)}) < MaxMsg
        BY <3>1, <4>1, PageParts, PagesAdvance DEF Peek
      <4>4. Max(Page) \in Nat
        BY <3>1, <4>3, VisibleSent
      <4>5. shown[p] <= Max(Page)
        BY <3>1, <4>3, <4>4
      <4>6. QED
        BY <4>2, <4>3, <4>5 DEF PageInv
    <3>4. QED
      BY <3>2, <3>3
  <2>4. QED
    BY <2>1, <2>3 DEF QueueInv
<1>3. QED
  BY <1>1, <1>2

(***************************************************************************)
(* So QueueInv holds always.                                               *)
(***************************************************************************)
LEMMA QueueInvariant == Spec => []QueueInv
<1>1. QED
  BY QueueInvInit, QueueInvStep, PTL DEF Spec

(***************************************************************************)
(* Every variable keeps its type.                                          *)
(***************************************************************************)
THEOREM TypeCorrect == Spec => []TypeOK
<1>1. QueueInv => TypeOK
  BY DEF QueueInv
<1>2. QED
  BY <1>1, QueueInvariant, PTL

(***************************************************************************)
(* The status a tab is shown never goes back to that of an older message,  *)
(* whatever the other tabs and the notifier do to the queue meanwhile:     *)
(* Answer shows the newest of a page that is no older than the one before. *)
(***************************************************************************)
THEOREM NeverGoesBack == Spec => StatusNeverGoesBack
<1>1. ASSUME QueueInv, [Next]_vars, NEW p \in Pollers PROVE shown'[p] >= shown[p]
  <2>1. TypeOK /\ newest[p] \in Nat /\ shown[p] \in Nat /\ shown[p] <= newest[p]
    BY <1>1, Standing
  <2>2. shown'[p] \in {shown[p], newest[p]}
    BY <1>1, <2>1 DEF Next, Send, ClearMessages, SendSummary, Poll, Peek, Receive, Delete,
                      Answer, pollVars, TypeOK, vars, senderVars
  <2>3. QED
    BY <2>1, <2>2
<1>2. QueueInv /\ [Next]_vars => [\A p \in Pollers : shown'[p] >= shown[p]]_vars
  BY <1>1
<1>3. QED
  BY <1>2, QueueInvariant, PTL DEF Spec, StatusNeverGoesBack

-----------------------------------------------------------------------------
(***************************************************************************)
(* The only open tab holds the only hidden message.                        *)
(***************************************************************************)
LEMMA AloneVisible ==
  ASSUME QueueInv, OneTabInv, NEW p \in Pollers, open = {p}
  PROVE  /\ Visible = queue \ {held[p]}
         /\ pc[p] # "delete" => Visible = queue
<1>1. ASSUME NEW q \in Pollers, q # p PROVE held[q] = NoMessage
  <2>1. pc[q] = "idle" /\ HeldInv(q)
    BY <1>1, Standing DEF OneTabInv
  <2>2. QED
    BY <2>1 DEF HeldInv
<1>2. NoMessage \notin queue
  BY DEF QueueInv, TypeOK, Sent, NoMessage
<1>3. pc[p] # "delete" => held[p] = NoMessage
  BY Standing DEF HeldInv
<1>4. QED
  BY <1>1, <1>2, <1>3 DEF Visible

(***************************************************************************)
(* Polling alone, a tab deletes what precedes the newest of its page, and  *)
(* no more.                                                                *)
(***************************************************************************)
LEMMA AlonePolls ==
  ASSUME QueueInv, OneTabInv, OneTab, summaries = 0, NEW p \in Pollers, open = {p}, Poll(p)
  PROVE  /\ sent > 0 => sent \in queue'
         /\ AloneInv(p)'
<1>1. /\ TypeOK /\ HeldInv(p) /\ AloneInv(p) /\ (sent > 0 => sent \in queue)
      /\ newest[p] \in 0 .. sent /\ left[p] \in Nat /\ sent \in Nat
      /\ queue \subseteq 1 .. sent
  BY StatusQueueAssumption, Standing DEF OneTabInv, TypeOK, Sent, NoMessage
<1>2. /\ Before(p) \subseteq queue /\ IsFiniteSet(Before(p))
      /\ Cardinality(Before(p)) \in Nat
  BY <1>1, VisibleSent DEF Before
<1>3. CASE Peek(p)
  <2>1. Visible = queue
    BY <1>3, AloneVisible DEF Peek
  <2>2. /\ Max(Page) \in queue
        /\ Cardinality({m \in queue : m < Max(Page)}) = Cardinality(Page) - 1
    BY <1>1, <1>3, <2>1, PageParts DEF Peek
  <2>3. /\ newest'[p] = Max(Page) /\ left'[p] = Cardinality(Page) - 1
        /\ pc'[p] # "delete" /\ queue' = queue /\ sent' = sent
    BY <1>1, <1>3 DEF Peek, TypeOK, senderVars
  <2>4. QED
    BY <1>1, <2>2, <2>3 DEF AloneInv, Before
<1>4. CASE Receive(p)
  <2>1. /\ Visible = queue /\ newest[p] \in queue
        /\ Cardinality(Before(p)) = left[p] /\ left[p] > 0
    BY <1>1, <1>4, AloneVisible DEF Receive, AloneInv, HeldInv
  <2>2. PICK m \in queue : m < newest[p]
    BY <1>1, <1>2, <2>1, FS_EmptySet DEF Before
  <2>3. Min(queue) \in queue /\ Min(queue) <= m
    BY <1>1, <2>2, MinOf
  <2>4. Min(queue) \in Before(p)
    BY <1>1, <2>2, <2>3 DEF Before
  <2>5. /\ held'[p] = Min(queue) /\ newest'[p] = newest[p] /\ left'[p] = left[p]
        /\ queue' = queue /\ sent' = sent
    BY <1>1, <1>4, <2>1 DEF Receive, TypeOK, senderVars
  <2>6. QED
    BY <1>1, <2>1, <2>4, <2>5 DEF AloneInv, Before
<1>5. CASE Delete(p)
  <2>1. /\ newest[p] \in queue /\ Cardinality(Before(p)) = left[p]
        /\ held[p] \in Before(p)
    BY <1>1, <1>5 DEF Delete, AloneInv
  <2>2. held[p] \in queue /\ held[p] < newest[p] /\ held[p] # newest[p] /\ held[p] # sent
    BY <1>1, <2>1 DEF Before
  <2>3. /\ queue' = queue \ {held[p]} /\ left'[p] = left[p] - 1 /\ sent' = sent
        /\ newest'[p] = newest[p] /\ pc'[p] # "delete"
    BY <1>1, <1>5, <2>2 DEF Delete, TypeOK, senderVars
  <2>4. {m \in queue' : m < newest'[p]} = Before(p) \ {held[p]}
    BY <2>3 DEF Before
  <2>5. Cardinality(Before(p) \ {held[p]}) = left[p] - 1
    BY <1>2, <2>1, FS_RemoveElement
  <2>6. QED
    BY <1>1, <2>1, <2>2, <2>3, <2>4, <2>5 DEF AloneInv, Before
<1>6. CASE Answer(p)
  BY <1>1, <1>6 DEF Answer, AloneInv, Before, TypeOK, senderVars
<1>7. QED
  BY <1>3, <1>4, <1>5, <1>6 DEF Poll

(***************************************************************************)
(* Every step preserves OneTabInv.                                         *)
(***************************************************************************)
LEMMA OneTabInvStep == QueueInv /\ OneTabInv /\ [Next]_vars => OneTabInv'
<1> SUFFICES ASSUME QueueInv, OneTabInv, [Next]_vars PROVE OneTabInv'
  OBVIOUS
<1>0. TypeOK
  BY DEF QueueInv
<1>1. CASE UNCHANGED vars
  <2>1. UNCHANGED <<open, queue, sent, notifier, summaries, pc, newest, left, held>>
    BY <1>1 DEF vars, senderVars, pollVars
  <2>2. \A p \in Pollers : AloneInv(p)' <=> AloneInv(p)
    BY <2>1 DEF AloneInv, Before
  <2>3. open \subseteq Pollers
    BY <1>0 DEF TypeOK
  <2>4. QED
    BY <2>1, <2>2, <2>3 DEF OneTabInv, OneTab
<1>2. CASE Next
  <2>1. (notifier = "send" => summaries > 0)'
    BY <1>0, <1>2 DEF OneTabInv, TypeOK, Next, Send, ClearMessages, SendSummary, Poll, Peek,
                      Receive, Delete, Answer, senderVars
  <2>2. (\A p \in Pollers \ open : pc[p] = "idle")'
    BY <1>0, <1>2 DEF OneTabInv, TypeOK, Next, Send, ClearMessages, SendSummary, Poll, Peek,
                      Receive, Delete, Answer, pollVars
  <2>3. ASSUME OneTab', summaries' = 0
        PROVE  (sent > 0 => sent \in queue)' /\ \A p \in open' : AloneInv(p)'
    <3>1. OneTab /\ open' = open
      BY <1>2, <2>3 DEF OneTab, Next
    <3>2. summaries = 0 /\ notifier # "send" /\ ~ ClearMessages /\ ~ SendSummary
      BY <1>0, <1>2, <2>3 DEF OneTabInv, TypeOK, Next, Send, ClearMessages, SendSummary,
                              Poll, Peek, Receive, Delete, Answer, senderVars
    <3>3. PICK p \in Pollers : open = {p}
      <4>1. IsFiniteSet(open) /\ open \subseteq Pollers
        BY <1>0, StatusQueueAssumption, FS_Subset DEF TypeOK
      <4>2. QED
        BY <3>1, <4>1, FS_Singleton DEF OneTab
    <3>4. CASE Send
      <4>1. /\ queue' = queue \cup {sent + 1} /\ sent' = sent + 1
            /\ pc' = pc /\ newest' = newest /\ left' = left /\ held' = held
        BY <3>4 DEF Send, Put, pollVars
      <4>2. AloneInv(p) /\ newest[p] \in 0 .. sent /\ sent \in Nat
        BY <1>0, <3>1, <3>2, <3>3 DEF OneTabInv, TypeOK, Sent, NoMessage
      <4>3. {m \in queue' : m < newest'[p]} = Before(p)
        BY <4>1, <4>2 DEF Before
      <4>4. AloneInv(p)'
        BY <4>1, <4>2, <4>3 DEF AloneInv, Before
      <4>5. QED
        BY <3>1, <3>3, <4>1, <4>4
    <3>5. CASE Poll(p)
      <4>1. sent' = sent
        BY <3>5 DEF Poll, Peek, Receive, Delete, Answer, senderVars
      <4>2. QED
        BY <3>1, <3>2, <3>3, <3>5, <4>1, AlonePolls
    <3>6. QED
      BY <1>2, <3>2, <3>3, <3>4, <3>5 DEF Next
  <2>4. QED
    BY <2>1, <2>2, <2>3 DEF OneTabInv
<1>3. QED
  BY <1>1, <1>2

(***************************************************************************)
(* With one tab, and as long as azure_notify_status is not called, the     *)
(* newest status stays in the queue, however full the queue was and        *)
(* whatever is sent while the tab deletes.  The strengthening says that    *)
(* the tab, between peeking and its last delete, has exactly the messages  *)
(* before the newest of its page still to delete.                          *)
(***************************************************************************)
THEOREM NewestKeptAlone == Spec => []NewestKeptForOneTab
<1>1. Init => OneTabInv
  BY DEF Init, OneTabInv, AloneInv
<1>2. Spec => []OneTabInv
  BY <1>1, OneTabInvStep, QueueInvariant, PTL DEF Spec
<1>3. OneTabInv => NewestKeptForOneTab
  BY DEF OneTabInv, NewestKeptForOneTab, NewestKept
<1>4. QED
  BY <1>2, <1>3, PTL
=============================================================================
