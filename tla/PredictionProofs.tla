--------------------------- MODULE PredictionProofs ---------------------------
(* Proofs about Prediction, for any limits, agents and prompts and every    *)
(* failure: what a note is made of, how long a question takes, which        *)
(* prompts it uses and what becomes of the configurations that are saved.   *)
EXTENDS Prediction, Induction

Before == {"idle", "config", "prompts", "ask", "call", "evaluate"}

(* Until predict answers there is neither an error nor a note; what is     *)
(* evaluated is an answer, and the second question rests on the first one's. *)
AnswerInv ==
    /\ question \in {1, 2}
    /\ response = [i \in {1, 2} |-> response[i]]
    /\ pc \in Before => har_fejlet = FALSE /\ notat = "none"
    /\ pc = "evaluate" => response[question] = "answer"
    /\ question = 2 => response[1] = "answer"
    /\ pc \in Before \cup {"done", "raised"}
    /\ pc = "raised" => notat = "none"
    /\ notat = "notat" => response[1] = "answer" /\ response[2] = "answer"
    /\ pc = "done" => \/ har_fejlet = TRUE /\ notat \in Errors
                      \/ har_fejlet = FALSE /\ notat = "notat"

(* A call begins within the limit, so it ends within the limit and itself. *)
TimeInv ==
    /\ spent \in Nat
    /\ pc = "call" => spent <= GlobalTimeout
    /\ QuestionTakesOneCallMore

(***************************************************************************)
(* The request's own steps before and after the calls of the model.        *)
(***************************************************************************)
LEMMA PrepareAnswer ==
  ASSUME AnswerInv, Begin \/ ReadConfig \/ ReadPrompts \/ Ask \/ Validate \/ Format
  PROVE  AnswerInv'
<1> USE DEF AnswerInv, Before, Errors
<1>1. CASE Begin
  BY <1>1 DEF Begin, InitializeModel
<1>2. CASE ReadConfig
  BY <1>2 DEF ReadConfig
<1>3. CASE ReadPrompts
  BY <1>3 DEF ReadPrompts, Fail
<1>4. CASE Ask
  BY <1>4 DEF Ask
<1>5. CASE Validate
  BY <1>5 DEF Validate
<1>6. CASE Format
  BY <1>6 DEF Format, Fail
<1> QED
  BY <1>1, <1>2, <1>3, <1>4, <1>5, <1>6

(***************************************************************************)
(* One of the two responses is filled in.                                  *)
(***************************************************************************)
LEMMA Responds ==
  ASSUME NEW r, question \in {1, 2}, response = [i \in {1, 2} |-> response[i]], Respond(r)
  PROVE  /\ response' = [i \in {1, 2} |-> response'[i]]
         /\ response'[question] = r
         /\ \A i \in {1, 2} \ {question} : response'[i] = response[i]
<1>1. response' = [i \in {1, 2} |-> IF i = question THEN r ELSE response[i]]
  BY Zenon DEF Respond
<1> QED
  BY <1>1

(***************************************************************************)
(* The steps of a question: only Answer fills in a response that is        *)
(* evaluated, each error text ends the request with har_fejlet.            *)
(***************************************************************************)
LEMMA AskAnswer ==
  ASSUME AnswerInv, GiveUp \/ \E t \in CallTimes : Answer(t) \/ Raise(t) \/ TimeOut(t)
  PROVE  AnswerInv'
<1> USE DEF AnswerInv, Before, Errors, Fail
<1>1. CASE GiveUp
  BY <1>1, Responds DEF GiveUp
<1>2. ASSUME NEW t \in CallTimes, Answer(t) PROVE AnswerInv'
  BY <1>2, Responds DEF Answer
<1>3. ASSUME NEW t \in CallTimes, Raise(t) PROVE AnswerInv'
  BY <1>3 DEF Raise
<1>4. ASSUME NEW t \in CallTimes, TimeOut(t) PROVE AnswerInv'
  BY <1>4, Responds DEF TimeOut
<1> QED
  BY <1>1, <1>2, <1>3, <1>4

(***************************************************************************)
(* So the answers and the note go together in every state.                 *)
(***************************************************************************)
LEMMA AnswerAlways == Spec => []AnswerInv
<1>1. Init => AnswerInv
  BY DEF Init, AnswerInv, Before, Errors
<1>2. AnswerInv /\ [Next]_vars => AnswerInv'
  <2> SUFFICES ASSUME AnswerInv, [Next]_vars PROVE AnswerInv'
    OBVIOUS
  <2>1. CASE UNCHANGED requestVars
    BY <2>1 DEF requestVars, AnswerInv
  <2>2. CASE Begin \/ Predict
    BY <2>2, PrepareAnswer, AskAnswer DEF Predict
  <2>3. CASE ChangeConfig \/ ChangePrompts
    BY <2>1, <2>3 DEF ChangeConfig, ChangePrompts
  <2> QED
    BY <2>1, <2>2, <2>3 DEF Next, vars
<1> QED
  BY <1>1, <1>2, PTL DEF Spec

(***************************************************************************)
(* NoteFromTwoAnswers: predict returns a note only of the model's answers  *)
(* to both questions, and har_fejlet is set for exactly the other texts it *)
(* returns (predict and _prompt_llm).                                      *)
(***************************************************************************)
THEOREM NoteRestsOnAnswers == Spec => []NoteFromTwoAnswers
<1>1. AnswerInv => NoteFromTwoAnswers
  <2> SUFFICES ASSUME AnswerInv PROVE NoteFromTwoAnswers
    OBVIOUS
  <2>1. notat = "notat" => response = <<"answer", "answer">>
    BY DEF AnswerInv
  <2>2. pc = "done" => (har_fejlet <=> notat \in Errors)
    <3>1. "notat" \notin Errors
      BY DEF Errors
    <3> QED
      BY <3>1, Zenon DEF AnswerInv
  <2> QED
    BY <2>1, <2>2 DEF NoteFromTwoAnswers
<1> QED
  BY <1>1, AnswerAlways, PTL

(***************************************************************************)
(* So no call begins too late.                                             *)
(***************************************************************************)
LEMMA TimeAlways == Spec => []TimeInv
<1> USE PredictionAssumption
<1>1. Init => TimeInv
  <2> SUFFICES ASSUME Init PROVE TimeInv
    OBVIOUS
  <2>1. spent = 0 /\ pc = "idle"
    BY DEF Init
  <2>2. PICK t : t \in CallTimes
    BY Zenon
  <2>3. t \in Nat /\ spent <= GlobalTimeout + t + 1
    BY <2>1, <2>2
  <2> QED
    BY <2>1, <2>2, <2>3 DEF TimeInv, QuestionTakesOneCallMore
<1>2. TimeInv /\ [Next]_vars => TimeInv'
  <2> SUFFICES ASSUME TimeInv, [Next]_vars PROVE TimeInv'
    OBVIOUS
  <2>1. CASE spent' = spent /\ (pc' = "call" => pc = "call" \/ spent <= GlobalTimeout)
    BY <2>1 DEF TimeInv, QuestionTakesOneCallMore
  <2>2. CASE Begin \/ ReadConfig \/ ReadPrompts \/ Ask \/ GiveUp \/ Format
    BY <2>1, <2>2 DEF Begin, InitializeModel, ReadConfig, ReadPrompts, Ask, GiveUp, Format, Fail
  <2>3. CASE Validate
    <3>1. spent' = 0 /\ pc' = "ask"
      BY <2>3 DEF Validate
    <3> QED
      BY <3>1 DEF TimeInv, QuestionTakesOneCallMore
  <2>4. ASSUME NEW t \in CallTimes, Answer(t) \/ Raise(t) \/ TimeOut(t) PROVE TimeInv'
    <3>1. /\ pc = "call" /\ pc' # "call"
          /\ spent' = spent + t \/ spent' = spent + t + 1
      BY <2>4 DEF Answer, Raise, TimeOut, Fail
    <3>2. t \in Nat /\ spent \in Nat /\ spent <= GlobalTimeout
      BY <3>1 DEF TimeInv
    <3>3. spent' \in Nat /\ spent' <= GlobalTimeout + t + 1
      BY <3>1, <3>2
    <3> QED
      BY <3>1, <3>3 DEF TimeInv, QuestionTakesOneCallMore
  <2>5. CASE ChangeConfig \/ ChangePrompts \/ UNCHANGED vars
    BY <2>1, <2>5 DEF ChangeConfig, ChangePrompts, vars, requestVars
  <2> QED
    BY <2>2, <2>3, <2>4, <2>5 DEF Next, Predict
<1> QED
  BY <1>1, <1>2, PTL DEF Spec

(***************************************************************************)
(* QuestionTakesOneCallMore: for any limits and however long the calls of  *)
(* the model may take, a question ends within the global limit, one call   *)
(* and the pause after it (_prompt_llm).                                   *)
(***************************************************************************)
THEOREM QuestionEnds == Spec => []QuestionTakesOneCallMore
<1>1. TimeInv => QuestionTakesOneCallMore
  BY DEF TimeInv
<1> QED
  BY <1>1, TimeAlways, PTL

-----------------------------------------------------------------------------
(* The table of prompts *)

SomeRows == Range(Seed) \cup NewRows
Waits(s) == saving[s] # NoRow

(* No two rows have the same time, also if one of them is not inserted yet. *)
TableInv ==
    /\ clock \in Nat
    /\ prompts \in Seq(SomeRows)
    /\ times \in Seq(Nat) /\ Len(times) = Len(prompts)
    /\ \A i \in DOMAIN prompts : times[i] \in 1 .. clock
    /\ \A i, j \in DOMAIN prompts : times[i] = times[j] => i = j
    /\ saving = [s \in Savers |-> saving[s]]
    /\ \A s \in Savers : Waits(s) =>
        /\ saving[s].row \in NewRows /\ saving[s].time \in 1 .. clock
        /\ \A i \in DOMAIN prompts : times[i] # saving[s].time
    /\ \A s, r \in Savers : Waits(s) /\ Waits(r) /\ saving[s].time = saving[r].time => s = r

(***************************************************************************)
(* The rows of the seed have the times 1 and 2.                            *)
(***************************************************************************)
LEMMA TableInitially == PromptsInit => TableInv
<1> SUFFICES ASSUME PromptsInit PROVE TableInv
  OBVIOUS
<1>1. /\ prompts = <<>> \/ prompts = Seed
      /\ times = [i \in DOMAIN prompts |-> i] /\ clock = Len(prompts)
      /\ saving = [s \in Savers |-> NoRow]
  BY DEF PromptsInit
<1>2. <<>> \in Seq(SomeRows) /\ Seed \in Seq(SomeRows)
  <2>1. PICK a, b : Seed = <<a, b>>
    BY DEF Seed
  <2>2. 1 \in DOMAIN Seed /\ 2 \in DOMAIN Seed
    BY DEF Seed
  <2>3. Seed[1] \in SomeRows /\ Seed[2] \in SomeRows
    BY <2>2 DEF SomeRows, Range
  <2>4. a \in SomeRows /\ b \in SomeRows
    BY <2>1, <2>3
  <2> QED
    BY <2>1, <2>4
<1>3. prompts \in Seq(SomeRows) /\ clock \in Nat /\ DOMAIN prompts = 1 .. clock
  BY <1>1, <1>2
<1>4. times \in Seq(Nat) /\ Len(times) = Len(prompts) /\ \A i \in DOMAIN prompts : times[i] = i
  BY <1>1, <1>3
<1> QED
  BY <1>1, <1>3, <1>4 DEF TableInv, Waits

(***************************************************************************)
(* A row that is to be inserted gets a time of its own.                    *)
(***************************************************************************)
LEMMA GemKeepsTable ==
  ASSUME TableInv, NEW s \in Savers, NEW row \in NewRows, GemPrompt(s, row)
  PROVE  TableInv'
<1>1. /\ prompts' = prompts /\ times' = times /\ clock' = clock + 1 /\ clock \in Nat
      /\ 1 .. clock \subseteq 1 .. clock' /\ clock' \notin 1 .. clock /\ clock' \in 1 .. clock'
  BY DEF GemPrompt, TableInv
<1>2. CASE saving' = [saving EXCEPT ![s] = [ordning |-> row.ordning, time |-> clock + 1, row |-> row]]
  <2>1. /\ saving'[s].row = row /\ saving'[s].time = clock'
        /\ \A r \in Savers \ {s} : saving'[r] = saving[r]
        /\ saving' = [r \in Savers |-> saving'[r]]
    BY <1>1, <1>2 DEF TableInv
  <2>2. ASSUME NEW r \in Savers, Waits(r)'
        PROVE  /\ saving'[r].row \in NewRows /\ saving'[r].time \in 1 .. clock'
               /\ \A i \in DOMAIN prompts' : times'[i] # saving'[r].time
    <3>1. CASE r = s
      BY <1>1, <2>1, <3>1 DEF TableInv
    <3>2. CASE r # s
      BY <1>1, <2>1, <2>2, <3>2 DEF TableInv, Waits
    <3> QED
      BY <3>1, <3>2
  <2>3. ASSUME NEW r \in Savers, NEW q \in Savers, Waits(r)', Waits(q)',
               saving'[r].time = saving'[q].time
        PROVE  r = q
    BY <1>1, <2>1, <2>3 DEF TableInv, Waits
  <2> QED
    BY <1>1, <2>1, <2>2, <2>3 DEF TableInv
<1>3. CASE UNCHANGED saving
  BY <1>1, <1>3 DEF TableInv, Waits
<1> QED
  BY <1>2, <1>3 DEF GemPrompt

(***************************************************************************)
(* The row that is inserted takes its time along.                          *)
(***************************************************************************)
LEMMA InsertKeepsTable ==
  ASSUME TableInv, NEW s \in Savers, InsertPrompt(s)
  PROVE  TableInv'
<1>1. /\ Waits(s) /\ clock' = clock
      /\ ~Waits(s)' /\ \A r \in Savers \ {s} : saving'[r] = saving[r]
      /\ saving' = [r \in Savers |-> saving'[r]]
  BY DEF InsertPrompt, TableInv, Waits
<1>2. \A r \in Savers : Waits(r)' => r # s /\ Waits(r) /\ saving'[r] = saving[r]
  BY <1>1 DEF Waits
<1>3. CASE UNCHANGED <<prompts, times>>
  BY <1>1, <1>2, <1>3 DEF TableInv
<1>4. CASE prompts' = Append(prompts, saving[s].row) /\ times' = Append(times, saving[s].time)
  <2> DEFINE n == Len(prompts)
             row == saving[s].row
             time == saving[s].time
  <2>1. row \in SomeRows /\ time \in 1 .. clock /\ time \in Nat /\ clock \in Nat
        /\ \A i \in DOMAIN prompts : times[i] # time
    BY <1>1 DEF TableInv, SomeRows
  <2>2. prompts \in Seq(SomeRows) /\ times \in Seq(Nat) /\ Len(times) = n
    BY DEF TableInv
  <2> HIDE DEF row, time
  <2>3. /\ prompts' \in Seq(SomeRows) /\ times' \in Seq(Nat) /\ n \in Nat
        /\ Len(prompts') = n + 1 /\ Len(times') = n + 1
        /\ DOMAIN prompts = 1 .. n /\ DOMAIN prompts' = 1 .. n + 1
        /\ times'[n + 1] = time /\ \A i \in 1 .. n : times'[i] = times[i]
    BY <1>4, <2>1, <2>2 DEF row, time
  <2>10. \A i \in DOMAIN prompts' : i = n + 1 \/ (i \in DOMAIN prompts /\ times'[i] = times[i])
    BY <2>3
  <2>4. \A i \in DOMAIN prompts' : times'[i] \in 1 .. clock
    BY <2>1, <2>3, <2>10 DEF TableInv
  <2>5. \A i, j \in DOMAIN prompts' : times'[i] = times'[j] => i = j
    <3> SUFFICES ASSUME NEW i \in DOMAIN prompts', NEW j \in DOMAIN prompts', times'[i] = times'[j]
                 PROVE  i = j
      OBVIOUS
    <3>1. CASE i = n + 1
      BY <2>1, <2>3, <2>10, <3>1
    <3>2. CASE j = n + 1
      BY <2>1, <2>3, <2>10, <3>2
    <3>3. CASE i # n + 1 /\ j # n + 1
      BY <2>10, <3>3 DEF TableInv
    <3> QED
      BY <3>1, <3>2, <3>3
  <2>6. ASSUME NEW r \in Savers, Waits(r)' PROVE \A i \in DOMAIN prompts' : times'[i] # saving'[r].time
    <3>1. r # s /\ Waits(r) /\ saving'[r] = saving[r] /\ saving[r].time # time
      BY <1>1, <1>2, <2>6 DEF TableInv, time
    <3>2. \A i \in 1 .. n : times[i] # saving[r].time
      BY <2>3, <3>1 DEF TableInv
    <3> QED
      BY <2>3, <3>1, <3>2
  <2>7. \A r \in Savers : Waits(r)' => saving'[r].row \in NewRows /\ saving'[r].time \in 1 .. clock
    BY <1>2 DEF TableInv
  <2>8. \A r, q \in Savers : Waits(r)' /\ Waits(q)' /\ saving'[r].time = saving'[q].time => r = q
    BY <1>2 DEF TableInv
  <2>9. clock' \in Nat /\ clock' = clock /\ Len(times') = Len(prompts')
    BY <1>1, <2>1, <2>3
  <2> QED
    BY <1>1, <2>3, <2>4, <2>5, <2>6, <2>7, <2>8, <2>9 DEF TableInv
<1> QED
  BY <1>3, <1>4 DEF InsertPrompt

(***************************************************************************)
(* So the rows can always be told apart by their times.                    *)
(***************************************************************************)
LEMMA TableAlways == Spec => []TableInv
<1>1. TableInv /\ [Next]_vars => TableInv'
  <2> SUFFICES ASSUME TableInv, [Next]_vars PROVE TableInv'
    OBVIOUS
  <2>1. CASE UNCHANGED promptVars
    BY <2>1 DEF promptVars, TableInv, Waits
  <2>2. CASE Begin \/ Predict
    <3>1. UNCHANGED promptVars
      BY <2>2 DEF Begin, Predict, ReadConfig, ReadPrompts, Ask, GiveUp, Answer, Raise, TimeOut,
                  Validate, Format
    <3> QED
      BY <2>1, <3>1
  <2>3. CASE ChangeConfig
    BY <2>1, <2>3 DEF ChangeConfig
  <2>4. CASE ChangePrompts
    BY <2>4, GemKeepsTable, InsertKeepsTable DEF ChangePrompts
  <2>5. CASE UNCHANGED vars
    BY <2>1, <2>5 DEF vars
  <2> QED
    BY <2>2, <2>3, <2>4, <2>5 DEF Next
<1> QED
  BY TableInitially, <1>1, PTL DEF Spec, Init

(***************************************************************************)
(* Among the rows of an area and a number one is the newest.               *)
(***************************************************************************)
LEMMA OneNewest ==
  ASSUME TableInv, NEW o, NEW nr, Rows(o, nr) # {}
  PROVE  \E i \in Rows(o, nr) : Newest(o, nr) = {i}
<1> DEFINE S == {times[i] : i \in Rows(o, nr)}
<1>1. Rows(o, nr) \subseteq DOMAIN prompts
  BY DEF Rows
<1>2. S \in SUBSET Int /\ S # {} /\ clock \in Int /\ \A m \in S : m <= clock
  BY <1>1 DEF TableInv
<1>3. PICK x \in S : \A y \in S : y <= x
  <2> HIDE DEF S
  <2> QED
    BY <1>2, GreatestNumber
<1>4. PICK i \in Rows(o, nr) : x = times[i]
  OBVIOUS
<1>5. \A j \in Rows(o, nr) : times[j] <= times[i]
  BY <1>3, <1>4
<1>6. \A j \in Rows(o, nr) : times[i] <= times[j] => j = i
  BY <1>1, <1>5, SMTT(40) DEF TableInv
<1>7. Newest(o, nr) = {i}
  BY <1>5, <1>6 DEF Newest
<1> QED
  BY <1>7

(***************************************************************************)
(* Two rows are the top, if no others come before them.                    *)
(***************************************************************************)
LEMMA TopTwo ==
  ASSUME NEW R, IsFiniteSet(R), NEW top \in SUBSET R, NEW i \in R, NEW j \in R, i # j,
         Cardinality(top) <= 2,
         i \notin top => Cardinality(top) = 2 /\ top \subseteq {i, j},
         j \notin top => Cardinality(top) = 2 /\ top \subseteq {i, j}
  PROVE  top = {i, j}
<1>1. IsFiniteSet(top)
  BY FS_Subset
<1>2. \A x : Cardinality({x}) = 1 /\ IsFiniteSet({x})
  BY FS_Singleton
<1>3. \A x, S : S \subseteq {x} => Cardinality(S) # 2
  <2> SUFFICES ASSUME NEW x, NEW S, S \subseteq {x} PROVE Cardinality(S) # 2
    OBVIOUS
  <2>1. S = {} \/ S = {x}
    OBVIOUS
  <2> QED
    BY <1>2, <2>1, FS_EmptySet
<1>4. i \in top
  <2> SUFFICES ASSUME i \notin top PROVE FALSE
    OBVIOUS
  <2>1. top \subseteq {j}
    OBVIOUS
  <2> QED
    BY <1>3, <2>1
<1>5. j \in top
  <2> SUFFICES ASSUME j \notin top PROVE FALSE
    OBVIOUS
  <2>1. top \subseteq {i}
    OBVIOUS
  <2> QED
    BY <1>3, <2>1
<1>6. Cardinality({i} \cup {j}) = 2
  <2>1. IsFiniteSet({i}) /\ Cardinality({i}) = 1 /\ j \notin {i}
    BY <1>2
  <2>2. Cardinality({i} \cup {j}) = IF j \in {i} THEN Cardinality({i}) ELSE Cardinality({i}) + 1
    BY <2>1, FS_AddElement
  <2> QED
    BY <2>1, <2>2
<1>7. {i, j} \subseteq top /\ Cardinality({i, j}) = 2
  <2>1. {i} \cup {j} = {i, j}
    OBVIOUS
  <2> QED
    BY <1>4, <1>5, <1>6, <2>1
<1>8. Cardinality({i, j}) <= Cardinality(top) /\ (Cardinality({i, j}) = Cardinality(top) => {i, j} = top)
  BY <1>1, <1>7, FS_Subset
<1>9. Cardinality(top) \in Nat
  BY <1>1, FS_CardinalityType
<1> QED
  BY <1>7, <1>8, <1>9

(***************************************************************************)
(* The first row of a number is one of them, if there is any.              *)
(***************************************************************************)
LEMMA FirstOfTop ==
  ASSUME NEW top, NEW o, NEW nr
  PROVE  \/ (\A i \in top : prompts[i].nr # nr) /\ First(top, o, nr) = NoPrompt
         \/ First(top, o, nr) \in top /\ prompts[First(top, o, nr)].nr = nr
<1> DEFINE rows == {i \in top : prompts[i].nr = nr}
<1>1. CASE rows = {}
  BY <1>1 DEF First
<1>2. CASE rows # {}
  <2>1. \E i \in rows : \A j \in rows : Priority(i, o) <= Priority(j, o)
    <3>1. CASE \E i \in rows : prompts[i].ordning = o
      BY <3>1 DEF Priority
    <3>2. CASE \A i \in rows : prompts[i].ordning # o
      BY <1>2, <3>2 DEF Priority
    <3> QED
      BY <3>1, <3>2
  <2>2. First(top, o, nr) = CHOOSE i \in rows : \A j \in rows : Priority(i, o) <= Priority(j, o)
    BY <1>2 DEF First
  <2>3. First(top, o, nr) \in rows
    <3> HIDE DEF rows
    <3> QED
      BY <2>1, <2>2
  <2> QED
    BY <2>3
<1> QED
  BY <1>1, <1>2

(***************************************************************************)
(* What the query ranks are rows of the area or standard rows.             *)
(***************************************************************************)
LEMMA RankedRows ==
  ASSUME TableInv, NEW o
  PROVE  /\ Ranked(o) \subseteq 1 .. Len(prompts) /\ IsFiniteSet(Ranked(o))
         /\ \A i \in Ranked(o) :
                /\ prompts[i].ordning \in {o, "standard"} /\ prompts[i].nr \in {1, 2}
                /\ i \in Newest(prompts[i].ordning, prompts[i].nr)
<1>1. \A i \in Ranked(o) : \E a \in {o, "standard"}, nr \in {1, 2} : i \in Newest(a, nr)
  BY DEF Ranked
<1>2. ASSUME NEW i \in Ranked(o)
      PROVE  /\ i \in DOMAIN prompts
             /\ prompts[i].ordning \in {o, "standard"} /\ prompts[i].nr \in {1, 2}
             /\ i \in Newest(prompts[i].ordning, prompts[i].nr)
  <2>1. PICK a \in {o, "standard"}, nr \in {1, 2} : i \in Newest(a, nr)
    BY <1>1
  <2>2. i \in DOMAIN prompts /\ prompts[i].ordning = a /\ prompts[i].nr = nr
    BY <2>1 DEF Newest, Rows
  <2> QED
    BY <2>1, <2>2
<1>3. DOMAIN prompts = 1 .. Len(prompts) /\ Len(prompts) \in Nat
  BY DEF TableInv
<1>4. Ranked(o) \subseteq 1 .. Len(prompts)
  BY <1>2, <1>3
<1>5. IsFiniteSet(1 .. Len(prompts))
  BY <1>3, FS_Interval
<1>6. IsFiniteSet(Ranked(o))
  BY <1>4, <1>5, FS_Subset
<1> QED
  BY <1>2, <1>4, <1>6

(***************************************************************************)
(* An area with both prompts, else the standard area with both: the query  *)
(* answers the two newest.                                                 *)
(***************************************************************************)
LEMMA TopIsNewest ==
  ASSUME TableInv, NEW o, NEW has,
         has = IF Rows(o, 1) \cup Rows(o, 2) = {} THEN "standard" ELSE o,
         NEW i \in Rows(has, 1), Newest(has, 1) = {i},
         NEW j \in Rows(has, 2), Newest(has, 2) = {j},
         NEW top \in Top(o)
  PROVE  top = {i, j}
<1>1. /\ prompts[i].ordning = has /\ prompts[i].nr = 1
      /\ prompts[j].ordning = has /\ prompts[j].nr = 2 /\ i # j
  BY DEF Rows
<1>2. i \in Ranked(o) /\ j \in Ranked(o)
  BY DEF Ranked
<1>3. ASSUME NEW k \in Ranked(o), prompts[k].ordning = has PROVE k \in {i, j}
  BY <1>3, RankedRows
<1>4. ASSUME NEW k \in Ranked(o), Priority(k, o) <= Priority(i, o) PROVE prompts[k].ordning = has
  <2>1. CASE Rows(o, 1) \cup Rows(o, 2) = {}
    <3>1. prompts[k].ordning # o
      BY <2>1, RankedRows DEF Newest
    <3> QED
      BY <2>1, <3>1, RankedRows
  <2>2. CASE Rows(o, 1) \cup Rows(o, 2) # {}
    BY <1>1, <1>4, <2>2 DEF Priority
  <2> QED
    BY <2>1, <2>2
<1>5. Priority(i, o) = Priority(j, o)
  BY <1>1 DEF Priority
<1>6. /\ top \in SUBSET Ranked(o) /\ Cardinality(top) <= 2
      /\ \A k \in Ranked(o) \ top :
            Cardinality(top) = 2 /\ \A l \in top : Priority(l, o) <= Priority(k, o)
  BY DEF Top
<1>7. \A k \in {i, j} : k \notin top => Cardinality(top) = 2 /\ top \subseteq {i, j}
  BY <1>2, <1>3, <1>4, <1>5, <1>6
<1>8. IsFiniteSet(Ranked(o))
  BY RankedRows
<1> QED
  BY <1>1, <1>2, <1>6, <1>7, <1>8, TopTwo

(***************************************************************************)
(* NewestOfArea holds for any scripts, rows and areas, however saves       *)
(* overlap and fail: an agent whose area has both prompts gets the newest  *)
(* of each, one whose area has none the newest standard prompts            *)
(* (hent_notat_prompts and gem_prompt).                                    *)
(***************************************************************************)
THEOREM NewestPrompts == Spec => []NewestOfArea
<1>1. TableInv => NewestOfArea
  <2> SUFFICES ASSUME TableInv, NEW o \in Areas, NEW has,
                      has = IF Rows(o, 1) \cup Rows(o, 2) = {} THEN "standard" ELSE o,
                      Complete(has),
                      NEW p \in HentNotatPrompts(o), p # <<NoPrompt, NoPrompt>>,
                      NEW nr \in {1, 2}
               PROVE  /\ p[nr] \in Rows(has, nr)
                      /\ \A i \in Rows(has, nr) : times[i] <= times[p[nr]]
    BY DEF NewestOfArea
  <2>1. PICK top \in Top(o) : p = <<First(top, o, 1), First(top, o, 2)>>
    BY DEF HentNotatPrompts
  <2>2. PICK i \in Rows(has, 1) : Newest(has, 1) = {i}
    BY OneNewest DEF Complete
  <2>3. PICK j \in Rows(has, 2) : Newest(has, 2) = {j}
    BY OneNewest DEF Complete
  <2>4. top = {i, j}
    BY <2>2, <2>3, TopIsNewest
  <2>5. prompts[i].nr = 1 /\ prompts[j].nr = 2
    BY DEF Rows
  <2>6. First(top, o, 1) = i /\ First(top, o, 2) = j
    BY <2>4, <2>5, FirstOfTop
  <2>7. p[1] = i /\ p[2] = j
    BY <2>1, <2>6
  <2> QED
    BY <2>2, <2>3, <2>7 DEF Newest
<1> QED
  BY <1>1, TableAlways, PTL

-----------------------------------------------------------------------------
(* The configurations *)

AllConfigs == [Agents -> FormAreas \cup {NoConfig}]
AllForms == [agents : SUBSET Agents, area : FormAreas \cup {""}]
AllRuns == [agents : SUBSET Agents, area : FormAreas, left : SUBSET Agents, failed : SUBSET Agents]
AllDialogs == [input : Agents \cup {NoAgent}, asked : SUBSET Agents,
               shown : Agents \cup {NoAgent, Placeholder}]

(* An agent that a run has asked for failed in it, has no configuration by *)
(* now, or has that of one of the runs that have asked for it.             *)
Settled(table, runs, n, a) ==
    \/ a \in runs[n].failed
    \/ table[a] = NoConfig
    \/ \E m \in DOMAIN runs : a \in runs[m].agents \ runs[m].left /\ table[a] = runs[m].area

RunsOK(table, runs) ==
    \A n \in DOMAIN runs :
        /\ runs[n].left \subseteq runs[n].agents
        /\ \A a \in runs[n].agents \ runs[n].left : Settled(table, runs, n, a)

ConfigInv ==
    /\ config \in AllConfigs
    /\ form \in AllForms
    /\ saves \in Seq(AllRuns)
    /\ dialog \in AllDialogs
    /\ RunsOK(config, saves)

SavedOrLeft ==
    \A n \in DOMAIN saves : Returns(n) =>
        \A a \in saves[n].agents :
            \/ a \in form'.agents
            \/ config'[a] \in {NoConfig} \cup {saves[m].area : m \in AskedFor(a, n)}

(***************************************************************************)
(* No configurations and an empty form at first.                           *)
(***************************************************************************)
LEMMA ConfigInitially == ConfigInit => ConfigInv
<1> SUFFICES ASSUME ConfigInit PROVE ConfigInv
  OBVIOUS
<1>1. form = EmptyForm /\ saves = <<>> /\ dialog = NoDialog
  BY DEF ConfigInit
<1>2. config \in AllConfigs
  BY DEF ConfigInit, AllConfigs
<1>3. EmptyForm \in AllForms
  BY DEF EmptyForm, AllForms
<1>4. <<>> \in Seq(AllRuns) /\ RunsOK(config, <<>>)
  BY DEF RunsOK
<1>5. NoDialog \in AllDialogs
  BY DEF NoDialog, AllDialogs
<1> QED
  BY <1>1, <1>2, <1>3, <1>4, <1>5 DEF ConfigInv

(***************************************************************************)
(* As long as the runs stay as they are, none returns.                     *)
(***************************************************************************)
LEMMA NoneReturns ==
  ASSUME ConfigInv, \A n \in DOMAIN saves : n \in DOMAIN saves' /\ saves'[n] = saves[n]
  PROVE  SavedOrLeft
  BY DEF SavedOrLeft, Returns

(***************************************************************************)
(* What the user writes in the form concerns no run.                       *)
(***************************************************************************)
LEMMA EditKeepsConfig ==
  ASSUME ConfigInv, NEW agents \in SUBSET Agents, NEW a \in FormAreas \cup {""}, EditForm(agents, a)
  PROVE  ConfigInv' /\ SavedOrLeft
<1>1. /\ form' = [agents |-> agents, area |-> a]
      /\ saves' = saves /\ config' = config /\ dialog' = dialog
  BY DEF EditForm
<1>2. form' \in AllForms
  BY <1>1 DEF AllForms
<1>3. ConfigInv'
  BY <1>1, <1>2 DEF ConfigInv
<1> QED
  BY <1>1, <1>3, NoneReturns

(***************************************************************************)
(* A run that begins has asked for no agent yet.                           *)
(***************************************************************************)
LEMMA SaveKeepsConfig ==
  ASSUME ConfigInv, NEW agents \in SUBSET Agents, NEW a \in FormAreas, SaveConfig(agents, a)
  PROVE  ConfigInv' /\ SavedOrLeft
<1> DEFINE run == [agents |-> agents, area |-> a, left |-> agents, failed |-> {}]
           k == Len(saves)
<1>1. /\ form' = [agents |-> agents, area |-> a] /\ saves' = Append(saves, run)
      /\ config' = config /\ dialog' = dialog
  BY DEF SaveConfig
<1>2. form' \in AllForms
  BY <1>1 DEF AllForms
<1>3. run \in AllRuns /\ run.agents = agents /\ run.left = agents
  BY DEF AllRuns
<1> HIDE DEF run
<1>4. /\ saves' \in Seq(AllRuns) /\ k \in Nat
      /\ DOMAIN saves = 1 .. k /\ DOMAIN saves' = 1 .. k + 1
      /\ saves'[k + 1] = run
      /\ \A n \in 1 .. k : saves'[n] = saves[n]
  BY <1>1, <1>3 DEF ConfigInv
<1> HIDE DEF k
<1>5. \A n \in DOMAIN saves : n \in DOMAIN saves' /\ saves'[n] = saves[n]
  BY <1>4
<1>6. RunsOK(config', saves')
  <2> SUFFICES ASSUME NEW n \in 1 .. k + 1
               PROVE  /\ saves'[n].left \subseteq saves'[n].agents
                      /\ \A b \in saves'[n].agents \ saves'[n].left : Settled(config', saves', n, b)
    BY <1>4 DEF RunsOK
  <2>1. CASE n = k + 1
    BY <1>3, <1>4, <2>1
  <2>2. CASE n # k + 1
    <3>1. n \in DOMAIN saves /\ saves'[n] = saves[n]
      BY <1>4, <2>2
    <3>2. saves[n].left \subseteq saves[n].agents
      BY <3>1 DEF ConfigInv, RunsOK
    <3>3. ASSUME NEW b \in saves[n].agents \ saves[n].left
          PROVE  Settled(config', saves', n, b)
      <4>1. Settled(config, saves, n, b)
        BY <3>1, <3>3 DEF ConfigInv, RunsOK
      <4> QED
        BY <1>1, <1>5, <3>1, <4>1 DEF Settled
    <3> QED
      BY <3>1, <3>2, <3>3
  <2> QED
    BY <2>1, <2>2
<1>7. ConfigInv'
  BY <1>1, <1>2, <1>4, <1>6 DEF ConfigInv
<1> QED
  BY <1>5, <1>7, NoneReturns

(***************************************************************************)
(* Each run has its type, and asks for its own agents only.                *)
(***************************************************************************)
LEMMA RunsTyped ==
  ASSUME ConfigInv
  PROVE  \A n \in DOMAIN saves :
            /\ saves[n] \in AllRuns /\ saves[n].area \in FormAreas
            /\ saves[n].agents \subseteq Agents /\ saves[n].left \subseteq saves[n].agents
<1> SUFFICES ASSUME NEW n \in DOMAIN saves
             PROVE  /\ saves[n] \in AllRuns /\ saves[n].area \in FormAreas
                    /\ saves[n].agents \subseteq Agents /\ saves[n].left \subseteq saves[n].agents
  OBVIOUS
<1>1. saves \in Seq(AllRuns) /\ saves[n].left \subseteq saves[n].agents
  BY DEF ConfigInv, RunsOK
<1>2. saves[n] \in AllRuns
  BY <1>1
<1> QED
  BY <1>1, <1>2 DEF AllRuns

(* The runs with the result for an agent, noted in the run that asked. *)
Noted(runs, n, a, ok) ==
    /\ runs \in Seq(AllRuns) /\ DOMAIN runs = DOMAIN saves /\ runs[n] \in AllRuns
    /\ \A m \in DOMAIN saves : m # n => runs[m] = saves[m]
    /\ runs[n].agents = saves[n].agents /\ runs[n].area = saves[n].area
    /\ runs[n].left = saves[n].left \ {a}
    /\ runs[n].failed = IF ok THEN saves[n].failed ELSE saves[n].failed \cup {a}

(***************************************************************************)
(* The result for an agent is noted in the run that asked for it.          *)
(***************************************************************************)
LEMMA ResultNoted ==
  ASSUME ConfigInv, NEW n \in DOMAIN saves, NEW a \in saves[n].left, NEW ok \in BOOLEAN
  PROVE  Noted(WithResult(n, a, ok), n, a, ok)
<1> DEFINE run == [saves[n] EXCEPT !.left = @ \ {a}, !.failed = IF ok THEN @ ELSE @ \cup {a}]
<1>1. saves \in Seq(AllRuns) /\ saves[n] \in AllRuns
  BY RunsTyped DEF ConfigInv
<1>2. /\ run \in AllRuns
      /\ run.agents = saves[n].agents /\ run.area = saves[n].area
      /\ run.left = saves[n].left \ {a}
      /\ run.failed = IF ok THEN saves[n].failed ELSE saves[n].failed \cup {a}
  BY <1>1 DEF AllRuns
<1>3. WithResult(n, a, ok) = [saves EXCEPT ![n] = run]
  BY DEF WithResult
<1> HIDE DEF run
<1>4. /\ WithResult(n, a, ok) \in Seq(AllRuns)
      /\ DOMAIN WithResult(n, a, ok) = DOMAIN saves
      /\ WithResult(n, a, ok)[n] = run
      /\ \A m \in DOMAIN saves : m # n => WithResult(n, a, ok)[m] = saves[m]
  BY <1>1, <1>2, <1>3
<1> QED
  BY <1>2, <1>4 DEF Noted

(***************************************************************************)
(* Whatever the answer for one agent is, every run is in order then ...    *)
(***************************************************************************)
LEMMA ResultSettled ==
  ASSUME ConfigInv, NEW n \in DOMAIN saves, NEW a \in saves[n].left, NEW ok \in BOOLEAN,
         \/ config' = [config EXCEPT ![a] = saves[n].area]
         \/ config' = config /\ ok = FALSE
  PROVE  RunsOK(config', WithResult(n, a, ok))
<1> DEFINE runs == WithResult(n, a, ok)
<1>0. Noted(runs, n, a, ok)
  BY ResultNoted
<1> HIDE DEF runs
<1>1. /\ DOMAIN runs = DOMAIN saves
      /\ \A m \in DOMAIN saves : m # n => runs[m] = saves[m]
      /\ runs[n].agents = saves[n].agents /\ runs[n].area = saves[n].area
      /\ runs[n].left = saves[n].left \ {a}
      /\ runs[n].failed = IF ok THEN saves[n].failed ELSE saves[n].failed \cup {a}
  BY <1>0 DEF Noted
<1>2. a \in saves[n].agents /\ a \in Agents /\ config \in AllConfigs
  BY RunsTyped DEF ConfigInv
<1>3. \A m \in DOMAIN saves :
         /\ runs[m].agents = saves[m].agents /\ runs[m].area = saves[m].area
         /\ runs[m].left \subseteq saves[m].left /\ saves[m].left \subseteq saves[m].agents
         /\ saves[m].failed \subseteq runs[m].failed
  BY <1>1, RunsTyped
<1>4. ASSUME NEW m \in DOMAIN saves, NEW b \in runs[m].agents \ runs[m].left
      PROVE  Settled(config', runs, m, b)
  <2>1. CASE b \in saves[m].agents \ saves[m].left /\ config'[b] = config[b]
    <3>1. Settled(config, saves, m, b)
      BY <2>1 DEF ConfigInv, RunsOK
    <3> QED
      BY <1>1, <1>3, <2>1, <3>1 DEF Settled
  <2>2. CASE b = a /\ config' = [config EXCEPT ![a] = saves[n].area]
    <3>1. config'[b] = runs[n].area
      BY <1>1, <1>2, <2>2 DEF AllConfigs
    <3>2. b \in runs[n].agents \ runs[n].left
      BY <1>1, <1>2, <2>2
    <3> QED
      BY <1>1, <3>1, <3>2 DEF Settled
  <2>3. CASE b = a /\ m = n /\ ok = FALSE
    BY <1>1, <2>3 DEF Settled
  <2>4. CASE b # a \/ (config' = config /\ m # n)
    <3>1. b \in saves[m].agents \ saves[m].left
      BY <1>1, <1>3, <1>4, <2>4
    <3>2. config'[b] = config[b]
      <4>1. CASE config' = config
        BY <4>1
      <4>2. CASE b # a /\ config' = [config EXCEPT ![a] = saves[n].area]
        <5>1. b \in Agents
          BY <1>4, <3>1, RunsTyped
        <5> QED
          BY <1>2, <4>2, <5>1 DEF AllConfigs
      <4> QED
        BY <2>4, <4>1, <4>2
    <3> QED
      BY <2>1, <3>1, <3>2
  <2> QED
    BY <2>2, <2>3, <2>4
<1> QED
  BY <1>1, <1>3, <1>4 DEF RunsOK, runs

(***************************************************************************)
(* ... and only the run that asked can return, with its failures in the    *)
(* form.                                                                   *)
(***************************************************************************)
LEMMA ResultReturned ==
  ASSUME ConfigInv, NEW n \in DOMAIN saves, NEW a \in saves[n].left, NEW ok \in BOOLEAN,
         Answered(n, a, ok), RunsOK(config', WithResult(n, a, ok))
  PROVE  SavedOrLeft
<1> DEFINE runs == WithResult(n, a, ok)
           bad == runs[n].failed
<1>1. Noted(runs, n, a, ok)
  BY ResultNoted
<1>2. /\ saves' = IF \A m \in DOMAIN runs : runs[m].left = {} THEN <<>> ELSE runs
      /\ form' = IF runs[n].left # {} THEN form
                 ELSE IF bad = {} THEN EmptyForm ELSE [form EXCEPT !.agents = bad]
  BY DEF Answered, Finish
<1>3. RunsOK(config', runs)
  OBVIOUS
<1> HIDE DEF runs
<1>4. /\ DOMAIN runs = DOMAIN saves
      /\ \A m \in DOMAIN saves : m # n => runs[m] = saves[m]
      /\ runs[n].agents = saves[n].agents /\ runs[n].area = saves[n].area
      /\ runs[n].left = saves[n].left \ {a}
  BY <1>1 DEF Noted
<1> SUFFICES ASSUME NEW k \in DOMAIN saves, Returns(k), NEW b \in saves[k].agents
             PROVE  \/ b \in form'.agents
                    \/ config'[b] \in {NoConfig} \cup {saves[m].area : m \in AskedFor(b, k)}
  BY DEF SavedOrLeft
<1>5. k = n /\ runs[n].left = {}
  <2>1. saves[k].left # {} /\ (k \in DOMAIN saves' => saves'[k].left = {})
    BY DEF Returns
  <2>2. runs[k].left = {}
    <3>1. CASE \A m \in DOMAIN runs : runs[m].left = {}
      BY <1>4, <3>1
    <3>2. CASE ~ \A m \in DOMAIN runs : runs[m].left = {}
      BY <1>4, <1>2, <2>1, <3>2
    <3> QED
      BY <3>1, <3>2
  <2>3. k = n
    BY <1>4, <2>1, <2>2
  <2> QED
    BY <2>2, <2>3
<1>6. Settled(config', runs, n, b)
  BY <1>4, <1>3, <1>5 DEF RunsOK
<1>7. CASE b \in runs[n].failed
  <2>1. form' = [form EXCEPT !.agents = bad] /\ form \in AllForms
    BY <1>2, <1>5, <1>7 DEF ConfigInv
  <2>2. form'.agents = bad
    BY <2>1 DEF AllForms
  <2> QED
    BY <1>7, <2>2
<1>8. CASE \E m \in DOMAIN runs : b \in runs[m].agents \ runs[m].left /\ config'[b] = runs[m].area
  <2>1. PICK m \in DOMAIN runs : b \in runs[m].agents \ runs[m].left /\ config'[b] = runs[m].area
    BY <1>8
  <2>2. m \in DOMAIN saves /\ runs[m].agents = saves[m].agents /\ runs[m].area = saves[m].area
    BY <1>4, <2>1
  <2>3. m = n \/ b \notin saves[m].left
    BY <1>4, <2>1, <2>2
  <2>4. m \in AskedFor(b, k)
    BY <1>5, <2>1, <2>2, <2>3 DEF AskedFor
  <2> QED
    BY <2>1, <2>2, <2>4
<1> QED
  BY <1>6, <1>7, <1>8 DEF Settled

(***************************************************************************)
(* So an answer keeps the runs and the form in order.                      *)
(***************************************************************************)
LEMMA InsertKeepsConfig ==
  ASSUME ConfigInv, NEW n \in DOMAIN saves, NEW a \in Agents, InsertConfig(n, a)
  PROVE  ConfigInv' /\ SavedOrLeft
<1>1. /\ a \in saves[n].left /\ dialog' = dialog
      /\ \E ok \in BOOLEAN :
            /\ Answered(n, a, ok)
            /\ \/ config' = [config EXCEPT ![a] = saves[n].area]
               \/ config' = config /\ ok = FALSE
  BY DEF InsertConfig, Insert
<1>2. PICK ok \in BOOLEAN :
            /\ Answered(n, a, ok)
            /\ \/ config' = [config EXCEPT ![a] = saves[n].area]
               \/ config' = config /\ ok = FALSE
  BY <1>1
<1> DEFINE runs == WithResult(n, a, ok)
           bad == runs[n].failed
<1>3. RunsOK(config', runs)
  BY <1>1, <1>2, ResultSettled
<1>4. SavedOrLeft
  BY <1>1, <1>2, <1>3, ResultReturned
<1>5. Noted(runs, n, a, ok)
  BY <1>1, ResultNoted
<1>6. /\ saves' = <<>> \/ saves' = runs
      /\ form' \in {form, EmptyForm, [form EXCEPT !.agents = bad]}
  BY <1>2 DEF Answered, Finish
<1> HIDE DEF runs
<1>7. runs \in Seq(AllRuns) /\ runs[n] \in AllRuns
  BY <1>5 DEF Noted
<1>8. saves' \in Seq(AllRuns) /\ RunsOK(config', saves')
  <2>1. <<>> \in Seq(AllRuns) /\ RunsOK(config', <<>>)
    BY DEF RunsOK
  <2> QED
    BY <1>3, <1>7, <1>6, <2>1
<1>9. form' \in AllForms
  <2>1. form \in AllForms /\ EmptyForm \in AllForms /\ bad \in SUBSET Agents
    BY <1>7 DEF ConfigInv, EmptyForm, AllForms, AllRuns
  <2>2. [form EXCEPT !.agents = bad] \in AllForms
    BY <2>1 DEF AllForms
  <2> QED
    BY <1>6, <2>1, <2>2
<1>10. config' \in AllConfigs
  <2>1. config \in AllConfigs /\ saves[n].area \in FormAreas
    BY RunsTyped DEF ConfigInv
  <2> QED
    BY <1>2, <2>1 DEF AllConfigs
<1> QED
  BY <1>1, <1>4, <1>8, <1>9, <1>10 DEF ConfigInv

(***************************************************************************)
(* The dialog takes configurations away and changes nothing else.          *)
(***************************************************************************)
LEMMA DialogKeepsConfig ==
  ASSUME ConfigInv,
         ConfirmDelete \/ \E a \in Agents : FetchForDeletion(a) \/ EditDeletion(a) \/ ShowDeletion(a)
  PROVE  ConfigInv' /\ SavedOrLeft
<1>1. UNCHANGED <<form, saves>>
  BY DEF ConfirmDelete, FetchForDeletion, EditDeletion, ShowDeletion
<1>2. config' = config \/ config' = [config EXCEPT ![dialog.input] = NoConfig]
  BY DEF ConfirmDelete, SletKrKonfiguration, FetchForDeletion, EditDeletion, ShowDeletion
<1>3. config' \in AllConfigs /\ \A a \in Agents : config'[a] = config[a] \/ config'[a] = NoConfig
  BY <1>2 DEF ConfigInv, AllConfigs
<1>4. dialog' \in AllDialogs
  <2>1. dialog \in AllDialogs
    BY DEF ConfigInv
  <2>2. CASE ConfirmDelete
    <3>1. NoDialog \in AllDialogs
      BY DEF NoDialog, AllDialogs
    <3> QED
      BY <2>1, <2>2, <3>1 DEF ConfirmDelete
  <2>3. ASSUME NEW a \in Agents, FetchForDeletion(a) \/ EditDeletion(a) \/ ShowDeletion(a)
        PROVE  dialog' \in AllDialogs
    <3>1. CASE FetchForDeletion(a)
      BY <2>1, <3>1 DEF FetchForDeletion, AllDialogs
    <3>2. CASE EditDeletion(a)
      BY <2>1, <3>2 DEF EditDeletion, AllDialogs
    <3>3. CASE ShowDeletion(a)
      BY <2>1, <3>3 DEF ShowDeletion, AllDialogs
    <3> QED
      BY <2>3, <3>1, <3>2, <3>3
  <2> QED
    BY <2>2, <2>3
<1>5. RunsOK(config', saves)
  <2> SUFFICES ASSUME NEW n \in DOMAIN saves, NEW a \in saves[n].agents \ saves[n].left
               PROVE  Settled(config', saves, n, a)
    BY DEF ConfigInv, RunsOK
  <2>1. a \in Agents /\ Settled(config, saves, n, a)
    BY RunsTyped DEF ConfigInv, RunsOK
  <2> QED
    BY <1>3, <2>1 DEF Settled
<1>6. ConfigInv'
  BY <1>1, <1>3, <1>4, <1>5 DEF ConfigInv
<1> QED
  BY <1>1, <1>6, NoneReturns

(***************************************************************************)
(* Every step keeps the invariant, and none forgets an agent.              *)
(***************************************************************************)
LEMMA ConfigSteps == ConfigInv /\ [Next]_vars => ConfigInv' /\ SavedOrLeft
<1> SUFFICES ASSUME ConfigInv, [Next]_vars PROVE ConfigInv' /\ SavedOrLeft
  OBVIOUS
<1>1. CASE UNCHANGED configVars
  <2>1. ConfigInv'
    BY <1>1 DEF configVars, ConfigInv
  <2> QED
    BY <1>1, <2>1, NoneReturns DEF configVars
<1>2. CASE Begin \/ Predict
  <2>1. UNCHANGED configVars
    BY <1>2 DEF Begin, Predict, ReadConfig, ReadPrompts, Ask, GiveUp, Answer, Raise, TimeOut,
                Validate, Format
  <2> QED
    BY <1>1, <2>1
<1>3. CASE ChangeConfig
  BY <1>3, EditKeepsConfig, SaveKeepsConfig, InsertKeepsConfig, DialogKeepsConfig
  DEF ChangeConfig, PageStep
<1>4. CASE ChangePrompts
  BY <1>1, <1>4 DEF ChangePrompts
<1>5. CASE UNCHANGED vars
  BY <1>1, <1>5 DEF vars
<1> QED
  BY <1>2, <1>3, <1>4, <1>5 DEF Next

(***************************************************************************)
(* So the configurations and the runs go together in every state.          *)
(***************************************************************************)
LEMMA ConfigAlways == Spec => []ConfigInv
<1>1. Init => ConfigInv
  BY ConfigInitially DEF Init
<1>2. ConfigInv /\ [Next]_vars => ConfigInv'
  BY ConfigSteps
<1> QED
  BY <1>1, <1>2, PTL DEF Spec

(***************************************************************************)
(* SavedOrLeftInForm holds for any agents and areas, any number of saves   *)
(* that overlap and every failure: when a save returns, an agent of it     *)
(* without its configuration or that of a save that overlaps it is in the  *)
(* form again, or it was deleted (saveConfig of JNConfigView.vue,          *)
(* insertConfig of JNapi.ts and its endpoint).                             *)
(***************************************************************************)
THEOREM NoAgentForgotten == Spec => SavedOrLeftInForm
<1>1. ConfigInv /\ [Next]_vars => [SavedOrLeft]_configVars
  BY ConfigSteps
<1>2. [][SavedOrLeft]_configVars => SavedOrLeftInForm
  <2>1. [SavedOrLeft]_configVars =>
          [\A n \in DOMAIN saves : Returns(n) =>
             \A a \in saves[n].agents :
                 \/ a \in form'.agents
                 \/ config'[a] \in {NoConfig} \cup {saves[m].area : m \in AskedFor(a, n)}]_configVars
    BY DEF SavedOrLeft
  <2> QED
    BY <2>1, PTL DEF SavedOrLeftInForm
<1> QED
  BY <1>1, <1>2, ConfigAlways, PTL DEF Spec

-----------------------------------------------------------------------------
(* The prompts a note is made with *)

PromptIds == (0 .. Len(prompts)) \X (0 .. Len(prompts))

(* The prompts are read once, after the area. *)
PickedInv ==
    /\ agent \in Agents /\ area \in Areas
    /\ promptIds \in PromptIds
    /\ pc \in {"idle", "config", "prompts"} => promptIds = <<NoPrompt, NoPrompt>>
    /\ PromptsOfArea

(***************************************************************************)
(* The query answers rows of the table: of the area, or standard ones.     *)
(***************************************************************************)
LEMMA FoundPrompts ==
  ASSUME TableInv, NEW o, NEW p \in HentNotatPrompts(o)
  PROVE  /\ p \in PromptIds
         /\ \A nr \in {1, 2} : p[nr] # NoPrompt =>
                prompts[p[nr]].nr = nr /\ prompts[p[nr]].ordning \in {o, "standard"}
<1>1. Len(prompts) \in Nat
  BY DEF TableInv
<1>2. CASE p = <<NoPrompt, NoPrompt>>
  BY <1>1, <1>2 DEF PromptIds, NoPrompt
<1>3. CASE \E top \in Top(o) : p = <<First(top, o, 1), First(top, o, 2)>>
  <2>1. PICK top \in Top(o) : p = <<First(top, o, 1), First(top, o, 2)>>
    BY <1>3
  <2>2. top \subseteq Ranked(o)
    BY DEF Top
  <2>3. ASSUME NEW nr \in {1, 2}
        PROVE  /\ First(top, o, nr) \in 0 .. Len(prompts)
               /\ First(top, o, nr) # NoPrompt =>
                    /\ prompts[First(top, o, nr)].nr = nr
                    /\ prompts[First(top, o, nr)].ordning \in {o, "standard"}
    BY <1>1, <2>2, FirstOfTop, RankedRows DEF NoPrompt
  <2> QED
    BY <2>1, <2>3 DEF PromptIds
<1> QED
  BY <1>2, <1>3 DEF HentNotatPrompts

(***************************************************************************)
(* The area is that of a configuration, or the standard one.               *)
(***************************************************************************)
LEMMA AreaRead ==
  ASSUME PickedInv, ConfigInv, ReadConfig
  PROVE  PickedInv'
<1>1. /\ pc = "config" /\ pc' \in {"prompts", "raised"}
      /\ UNCHANGED <<prompts, agent, promptIds>>
  BY DEF ReadConfig, promptVars
<1>2. area' \in Areas
  <2>1. "standard" \in Areas /\ FormAreas \subseteq Areas
    BY PredictionAssumption
  <2>2. config[agent] \in FormAreas \cup {NoConfig}
    BY DEF ConfigInv, AllConfigs, PickedInv
  <2>3. HentKrKonfiguration(agent) = Placeholder \/ HentKrKonfiguration(agent) \in Areas
    BY <2>1, <2>2 DEF HentKrKonfiguration
  <2>4. area' \in {area, "standard"} \/ (area' = HentKrKonfiguration(agent) /\ area' # Placeholder)
    BY DEF ReadConfig
  <2> QED
    BY <2>1, <2>3, <2>4 DEF PickedInv
<1>3. promptIds = <<NoPrompt, NoPrompt>>
  BY <1>1 DEF PickedInv
<1>4. promptIds' = <<NoPrompt, NoPrompt>> /\ PromptsOfArea'
  BY <1>1, <1>3 DEF PromptsOfArea
<1> QED
  BY <1>1, <1>2, <1>4 DEF PickedInv, PromptIds

(***************************************************************************)
(* What is read is of the area, and stays what it is.                      *)
(***************************************************************************)
LEMMA PickedSteps == PickedInv /\ ConfigInv /\ TableInv /\ AnswerInv /\ [Next]_vars => PickedInv'
<1> SUFFICES ASSUME PickedInv, ConfigInv, TableInv, AnswerInv, [Next]_vars PROVE PickedInv'
  OBVIOUS
<1>1. CASE UNCHANGED <<prompts, agent, area, promptIds>>
           /\ (pc' \in {"idle", "config", "prompts"} => pc \in {"idle", "config", "prompts"})
  BY <1>1 DEF PickedInv, PromptsOfArea, PromptIds
<1>2. CASE ReadConfig
  BY <1>2, AreaRead
<1>3. CASE ReadPrompts
  <2>1. UNCHANGED <<prompts, agent, area>> /\ pc' \in {"ask", "done"}
    BY <1>3 DEF ReadPrompts, Fail, promptVars
  <2>2. promptIds' = promptIds \/ promptIds' \in HentNotatPrompts(area)
    BY <1>3 DEF ReadPrompts
  <2>3. CASE promptIds' = promptIds
    BY <2>1, <2>3 DEF PickedInv, PromptsOfArea, PromptIds
  <2>4. CASE promptIds' \in HentNotatPrompts(area)
    BY <2>1, <2>4, FoundPrompts DEF PickedInv, PromptsOfArea, PromptIds
  <2> QED
    BY <2>2, <2>3, <2>4
<1>4. CASE Begin \/ Ask \/ GiveUp \/ Validate \/ Format
           \/ \E t \in CallTimes : Answer(t) \/ Raise(t) \/ TimeOut(t)
  BY <1>1, <1>4 DEF Begin, Ask, GiveUp, Validate, Format, Answer, Raise, TimeOut, Fail, promptVars
<1>5. CASE ChangeConfig
  BY <1>1, <1>5 DEF ChangeConfig, promptVars, requestVars
<1>6. CASE ChangePrompts
  <2>1. UNCHANGED <<pc, agent, area, promptIds>>
    BY <1>6 DEF ChangePrompts, requestVars
  <2>2. CASE UNCHANGED prompts
    BY <1>1, <2>1, <2>2
  <2>3. ASSUME NEW row, prompts' = Append(prompts, row) PROVE PickedInv'
    <3>1. /\ prompts \in Seq(SomeRows) /\ Len(prompts) \in Nat
      BY DEF TableInv
    <3>2. /\ Len(prompts') = Len(prompts) + 1
          /\ \A i \in 1 .. Len(prompts) : prompts'[i] = prompts[i]
      BY <2>3, <3>1
    <3>3. promptIds' \in PromptIds'
      BY <2>1, <3>1, <3>2 DEF PickedInv, PromptIds
    <3>4. \A nr \in {1, 2} : promptIds[nr] \in 0 .. Len(prompts)
      BY DEF PickedInv, PromptIds
    <3>5. PromptsOfArea'
      <4> SUFFICES ASSUME NEW nr \in {1, 2}, promptIds[nr] # NoPrompt
                   PROVE  /\ prompts'[promptIds[nr]].nr = nr
                          /\ prompts'[promptIds[nr]].ordning \in {area, "standard"}
        BY <2>1 DEF PromptsOfArea
      <4>1. promptIds[nr] \in 1 .. Len(prompts)
        BY <3>1, <3>4 DEF NoPrompt
      <4> QED
        BY <3>2, <4>1 DEF PickedInv, PromptsOfArea
    <3> QED
      BY <2>1, <3>3, <3>5 DEF PickedInv
  <2>4. UNCHANGED prompts \/ \E row : prompts' = Append(prompts, row)
    BY <1>6 DEF ChangePrompts, GemPrompt, InsertPrompt
  <2> QED
    BY <2>2, <2>3, <2>4
<1>7. CASE UNCHANGED vars
  BY <1>1, <1>7 DEF vars, promptVars, requestVars
<1> QED
  BY <1>2, <1>3, <1>4, <1>5, <1>6, <1>7 DEF Next, Predict

(***************************************************************************)
(* So the prompts are of the area in every state.                          *)
(***************************************************************************)
LEMMA PickedAlways == Spec => []PickedInv
<1>1. Init => PickedInv
  <2> SUFFICES ASSUME Init PROVE PickedInv
    OBVIOUS
  <2>1. agent \in Agents /\ area = "standard" /\ promptIds = <<NoPrompt, NoPrompt>>
    BY DEF Init
  <2>2. Len(prompts) \in Nat
    BY TableInitially DEF Init, TableInv
  <2> QED
    BY <2>1, <2>2, PromptsAssumption DEF PickedInv, PromptIds, PromptsOfArea, NoPrompt
<1> QED
  BY <1>1, PickedSteps, ConfigAlways, TableAlways, AnswerAlways, PTL DEF Spec

(***************************************************************************)
(* PromptsOfArea holds for any areas and prompts, whatever is saved while  *)
(* the request runs: the ids that are stored with a note are those of      *)
(* prompts for its two questions and its area, or standard ones (predict   *)
(* and hent_notat_prompts).                                                *)
(***************************************************************************)
THEOREM NoteHasItsPrompts == Spec => []PromptsOfArea
<1>1. PickedInv => PromptsOfArea
  BY DEF PickedInv
<1> QED
  BY <1>1, PickedAlways, PTL

-----------------------------------------------------------------------------
(* Types *)

CountsInv ==
    /\ operations \in 0 .. MaxOperations
    /\ attempts \in 0 .. MaxRetries
    /\ har_fejlet \in BOOLEAN
    /\ \A i \in {1, 2} : response[i] \in {"none", "answer", "fejl_notat"}

(***************************************************************************)
(* The bounds hold, and a response is one of three.                        *)
(***************************************************************************)
LEMMA CountsAlways == Spec => []CountsInv
<1>1. Init => CountsInv
  <2> SUFFICES ASSUME Init PROVE CountsInv
    OBVIOUS
  <2>1. operations = 0 /\ attempts = 0 /\ response = <<"none", "none">>
    BY DEF Init
  <2>2. har_fejlet \in BOOLEAN
    BY DEF Init
  <2> QED
    BY <2>1, <2>2, PredictionAssumption DEF CountsInv
<1>2. CountsInv /\ AnswerInv /\ [Next]_vars => CountsInv'
  <2> SUFFICES ASSUME CountsInv, AnswerInv, [Next]_vars PROVE CountsInv'
    OBVIOUS
  <2>1. operations' \in 0 .. MaxOperations
    <3>1. operations' = operations \/ Operation
      BY DEF Next, vars, Begin, Predict, ReadConfig, ReadPrompts, Ask, GiveUp, Answer, Raise,
             TimeOut, Validate, Format, ChangeConfig, ChangePrompts
    <3> QED
      BY <3>1, PredictionAssumption DEF Operation, CountsInv
  <2>2. attempts' \in 0 .. MaxRetries
    <3>1. attempts' = attempts \/ attempts' = 0 \/ (attempts < MaxRetries /\ attempts' = attempts + 1)
      BY DEF Next, vars, Begin, Predict, ReadConfig, ReadPrompts, Ask, GiveUp, Answer, Raise,
             TimeOut, Validate, Format, ChangeConfig, ChangePrompts, requestVars
    <3> QED
      BY <3>1, PredictionAssumption DEF CountsInv
  <2>3. har_fejlet' \in BOOLEAN
    BY DEF Next, vars, Begin, Predict, ReadConfig, ReadPrompts, Ask, GiveUp, Answer, Raise,
           TimeOut, Validate, Format, Fail, ChangeConfig, ChangePrompts, requestVars, CountsInv
  <2>4. \A i \in {1, 2} : response'[i] \in {"none", "answer", "fejl_notat"}
    <3>1. UNCHANGED response \/ Respond("answer") \/ Respond("fejl_notat")
      BY DEF Next, vars, Begin, Predict, ReadConfig, ReadPrompts, Ask, GiveUp, Answer, Raise,
             TimeOut, Validate, Format, ChangeConfig, ChangePrompts, requestVars
    <3>2. ASSUME NEW r \in {"none", "answer", "fejl_notat"}, Respond(r)
          PROVE  \A i \in {1, 2} : response'[i] \in {"none", "answer", "fejl_notat"}
      BY <3>2, Responds DEF AnswerInv, CountsInv
    <3> QED
      BY <3>1, <3>2 DEF CountsInv
  <2> QED
    BY <2>1, <2>2, <2>3, <2>4 DEF CountsInv
<1> QED
  BY <1>1, <1>2, AnswerAlways, PTL DEF Spec

(***************************************************************************)
(* TypeOK holds for all values of the constants.                           *)
(***************************************************************************)
THEOREM TypeCorrect == Spec => []TypeOK
<1>1. ConfigInv => ConfigTypeOK
  BY DEF ConfigInv, ConfigTypeOK, AllConfigs, AllForms, AllRuns, AllDialogs
<1>2. TableInv => PromptsTypeOK
  <2> SUFFICES ASSUME TableInv PROVE PromptsTypeOK
    OBVIOUS
  <2>1. times \in Seq(1 .. clock) /\ Len(times) = Len(prompts)
    <3>1. times \in Seq(Nat) /\ \A i \in 1 .. Len(times) : times[i] \in 1 .. clock
      BY DEF TableInv
    <3> QED
      BY <3>1, SMTT(40) DEF TableInv
  <2>2. \A s \in Savers : saving[s] = NoRow \/ saving[s].row \in NewRows
    BY DEF TableInv, Waits
  <2> QED
    BY <2>1, <2>2 DEF TableInv, PromptsTypeOK, SomeRows
<1>3. PickedInv /\ CountsInv /\ TimeInv /\ AnswerInv /\ ConfigTypeOK /\ PromptsTypeOK => TypeOK
  <2> SUFFICES ASSUME PickedInv, CountsInv, TimeInv, AnswerInv, ConfigTypeOK, PromptsTypeOK
               PROVE  TypeOK
    OBVIOUS
  <2>1. pc \in {"idle", "config", "prompts", "ask", "call", "evaluate", "done", "raised"}
    BY DEF AnswerInv, Before
  <2>2. notat \in Errors \cup {"none", "notat"}
    BY <2>1 DEF AnswerInv, Before
  <2>3. response \in [{1, 2} -> {"none", "answer", "fejl_notat"}]
    BY DEF AnswerInv, CountsInv
  <2>4. har_fejlet \in BOOLEAN
    BY DEF CountsInv
  <2> QED
    BY <2>1, <2>2, <2>3, <2>4 DEF TypeOK, PickedInv, PromptIds, CountsInv, TimeInv, AnswerInv
<1> QED
  BY <1>1, <1>2, <1>3, PickedAlways, CountsAlways, TimeAlways, AnswerAlways, ConfigAlways,
     TableAlways, PTL

-----------------------------------------------------------------------------
(* The text of the note *)

(* A sequence that is not empty, as what comes before its last element.    *)
LEMMA FrontLast ==
  ASSUME NEW S, NEW s \in Seq(S), s # <<>>
  PROVE  /\ Front(s) \in Seq(S) /\ Last(s) \in S
         /\ Len(s) \in Nat \ {0} /\ Len(Front(s)) = Len(s) - 1
         /\ Last(s) = s[Len(s)]
         /\ \A i \in 1 .. Len(s) - 1 : Front(s)[i] = s[i]
         /\ s = Append(Front(s), Last(s))
<1> DEFINE n == Len(s)
<1>1. n \in Nat \ {0} /\ \A i \in 1 .. n : s[i] \in S
  BY EmptySeq, ElementOfSeq
<1>2. Last(s) = s[n] /\ Last(s) \in S
  BY <1>1 DEF Last
<1>3. Front(s) = SubSeq(s, 1, n - 1)
  BY DEF Front
<1> HIDE DEF n
<1>4. /\ Front(s) \in Seq(S)
      /\ Len(Front(s)) = IF 1 <= n - 1 THEN (n - 1) - 1 + 1 ELSE 0
      /\ \A i \in 1 .. (n - 1) - 1 + 1 : Front(s)[i] = s[1 + i - 1]
  <2>1. 1 \in Int /\ n - 1 \in Int /\ \A i \in 1 .. n - 1 : s[i] \in S
    BY <1>1
  <2>2. QED
    BY <1>3, <2>1, SubSeqProperties
<1>5. Len(Front(s)) = n - 1 /\ \A i \in 1 .. n - 1 : Front(s)[i] = s[i]
  BY <1>1, <1>4
<1> DEFINE f == Front(s)
           l == Last(s)
<1>6. f \in Seq(S) /\ Len(f) = n - 1 /\ l \in S /\ l = s[n] /\ \A i \in 1 .. n - 1 : f[i] = s[i]
  BY <1>2, <1>4, <1>5
<1> HIDE DEF f, l
<1>7. /\ Append(f, l) \in Seq(S) /\ Len(Append(f, l)) = Len(f) + 1
      /\ \A i \in 1 .. Len(f) : Append(f, l)[i] = f[i]
      /\ Append(f, l)[Len(f) + 1] = l
  BY <1>6, AppendProperties
<1>8. (n - 1) + 1 = n /\ \A i \in 1 .. n : i \in 1 .. n - 1 \/ i = n
  BY <1>1
<1>9. \A i \in 1 .. n : s[i] = Append(f, l)[i]
  BY <1>6, <1>7, <1>8
<1>10. s = Append(f, l)
  BY <1>6, <1>7, <1>8, <1>9, SeqEqual DEF n
<1>11. QED
  BY <1>1, <1>2, <1>5, <1>6, <1>10 DEF n, f, l

(* The function by which Combine is defined.                               *)
LEMMA CombineDef ==
  ASSUME NEW S, NEW text \in Seq(S)
  PROVE  \E f : /\ f = [n \in 0 .. Len(text) |-> IF n = 0 THEN <<>> ELSE Join(f[n - 1], text[n])]
                /\ Combine(text) = f[Len(text)]
<1> DEFINE Combines(f, m) == f = [n \in 0 .. m |-> IF n = 0 THEN <<>> ELSE Join(f[n - 1], text[n])]
           Numbers == {m \in Nat : \E f : Combines(f, m)}
<1>1. 0 \in Numbers
  <2>1. Combines([n \in 0 .. 0 |-> <<>>], 0)
    OBVIOUS
  <2>2. QED
    BY <2>1
<1>2. ASSUME NEW m \in Numbers PROVE m + 1 \in Numbers
  <2>1. PICK f : Combines(f, m)
    OBVIOUS
  <2> DEFINE g == [n \in 0 .. m + 1 |-> IF n = m + 1 THEN Join(f[m], text[n]) ELSE f[n]]
  <2>2. ASSUME NEW n \in 0 .. m + 1
        PROVE  g[n] = IF n = 0 THEN <<>> ELSE Join(g[n - 1], text[n])
    <3>1. CASE n = m + 1
      <4>1. n # 0 /\ n - 1 = m /\ m \in 0 .. m + 1 /\ m # m + 1
        BY <3>1
      <4>2. g[n] = Join(f[m], text[n]) /\ g[m] = f[m]
        BY <3>1, <4>1
      <4>3. QED
        BY <4>1, <4>2
    <3>2. CASE n # m + 1
      <4>1. n \in 0 .. m /\ (n # 0 => n - 1 \in 0 .. m + 1 /\ n - 1 # m + 1)
        BY <3>2
      <4>2. g[n] = f[n] /\ (n # 0 => g[n - 1] = f[n - 1])
        BY <3>2, <4>1
      <4>3. f[n] = IF n = 0 THEN <<>> ELSE Join(f[n - 1], text[n])
        BY <2>1, <4>1
      <4>4. QED
        BY <4>2, <4>3
    <3>3. QED
      BY <3>1, <3>2
  <2>3. Combines(g, m + 1)
    BY <2>2
  <2>4. QED
    <3> HIDE DEF g, Combines
    <3>1. \E h : Combines(h, m + 1)
      BY <2>3
    <3>2. QED
      BY <3>1
<1>3. Numbers = Nat
  <2> HIDE DEF Numbers
  <2>1. Numbers \in SUBSET Nat
    BY DEF Numbers
  <2>2. QED
    BY <1>1, <1>2, <2>1, NumberInduction
<1>4. \E f : Combines(f, Len(text))
  BY <1>3, LenProperties
<1>5. Combines(CHOOSE f : Combines(f, Len(text)), Len(text))
  BY <1>4
<1>6. QED
  BY <1>5 DEF Combine

(* Of no sentence, and of one sentence more.                               *)
LEMMA CombineEmpty == Combine(<<>>) = <<>>
<1>1. <<>> \in Seq({}) /\ Len(<<>>) = 0
  BY EmptySeq
<1>2. PICK f : /\ f = [n \in 0 .. 0 |-> IF n = 0 THEN <<>> ELSE Join(f[n - 1], <<>>[n])]
               /\ Combine(<<>>) = f[0]
  BY <1>1, CombineDef
<1>3. QED
  BY <1>2

LEMMA CombineAppend ==
  ASSUME NEW S, NEW text \in Seq(S), NEW s \in S
  PROVE  Combine(Append(text, s)) = Join(Combine(text), s)
<1> DEFINE more == Append(text, s)
           m == Len(text)
<1>1. /\ more \in Seq(S) /\ m \in Nat /\ Len(more) = m + 1
      /\ \A n \in 1 .. m : more[n] = text[n]
      /\ more[m + 1] = s
  BY AppendProperties, LenProperties
<1> HIDE DEF more, m
<1>2. PICK f : /\ f = [n \in 0 .. m |-> IF n = 0 THEN <<>> ELSE Join(f[n - 1], text[n])]
               /\ Combine(text) = f[m]
  BY CombineDef DEF m
<1>3. PICK g : /\ g = [n \in 0 .. m + 1 |-> IF n = 0 THEN <<>> ELSE Join(g[n - 1], more[n])]
               /\ Combine(more) = g[m + 1]
  BY <1>1, CombineDef
<1> DEFINE Same == {n \in Nat : n <= m => g[n] = f[n]}
<1>4. 0 \in Same
  BY <1>1, <1>2, <1>3
<1>5. ASSUME NEW n \in Same PROVE n + 1 \in Same
  <2>1. SUFFICES ASSUME n + 1 <= m PROVE g[n + 1] = f[n + 1]
    OBVIOUS
  <2>2. g[n] = f[n]
    BY <1>1, <2>1
  <2>3. /\ n + 1 \in 0 .. m + 1 /\ n + 1 \in 0 .. m /\ n + 1 \in 1 .. m
        /\ n + 1 # 0 /\ (n + 1) - 1 = n
    BY <1>1, <2>1
  <2>4. g[n + 1] = Join(g[(n + 1) - 1], more[n + 1])
    BY <1>3, <2>3
  <2>5. f[n + 1] = Join(f[(n + 1) - 1], text[n + 1])
    BY <1>2, <2>3
  <2>6. QED
    BY <1>1, <2>2, <2>3, <2>4, <2>5
<1>6. Same = Nat
  <2> HIDE DEF Same
  <2>1. Same \in SUBSET Nat
    BY DEF Same
  <2>2. QED
    BY <1>4, <1>5, <2>1, NumberInduction
<1>7. g[m] = f[m]
  <2>1. m \in Same
    BY <1>1, <1>6
  <2>2. QED
    BY <1>1, <2>1
<1>8. g[m + 1] = Join(g[m], s)
  <2>1. m + 1 \in 0 .. m + 1 /\ m + 1 # 0 /\ (m + 1) - 1 = m
    BY <1>1
  <2>2. g[m + 1] = Join(g[(m + 1) - 1], more[m + 1])
    BY <1>3, <2>1
  <2>3. QED
    BY <1>1, <2>1, <2>2
<1>9. QED
  BY <1>2, <1>3, <1>7, <1>8 DEF more

(***************************************************************************)
(* The joined sentences are the sentences of the text.  A full stop ends   *)
(* every group but perhaps the last, and is nowhere else.                  *)
(***************************************************************************)
StopsAtEnd(group) == group # <<>> /\ \A j \in 1 .. Len(group) - 1 : ~group[j].stop
Grouped(text, groups) ==
    /\ groups \in Seq(Seq(Sentence))
    /\ FlattenSeq(groups) = text
    /\ \A k \in 1 .. Len(groups) : StopsAtEnd(groups[k])
    /\ \A k \in 1 .. Len(groups) - 1 : Ends(groups[k])

LEMMA JoinGroups ==
  ASSUME NEW text \in Seq(Sentence), NEW groups, Grouped(text, groups), NEW s \in Sentence
  PROVE  Grouped(Append(text, s), Join(groups, s))
<1>1. /\ groups \in Seq(Seq(Sentence)) /\ FlattenSeq(groups) = text
      /\ \A k \in 1 .. Len(groups) : StopsAtEnd(groups[k])
      /\ \A k \in 1 .. Len(groups) - 1 : Ends(groups[k])
  BY DEF Grouped
<1>2. Append(text, s) = text \o <<s>>
  BY AppendIsConcat
<1>3. CASE groups # <<>> /\ ~Ends(Last(groups))
  <2> DEFINE h == Front(groups)
             l == Last(groups)
             ls == Append(l, s)
             n == Len(h)
  <2>1. /\ h \in Seq(Seq(Sentence)) /\ l \in Seq(Sentence) /\ n \in Nat
        /\ Len(groups) = n + 1 /\ l = groups[n + 1]
        /\ \A k \in 1 .. n : h[k] = groups[k]
        /\ groups = Append(h, l)
    <3>1. /\ h \in Seq(Seq(Sentence)) /\ l \in Seq(Sentence)
          /\ Len(groups) \in Nat \ {0} /\ n = Len(groups) - 1
          /\ l = groups[Len(groups)]
          /\ \A k \in 1 .. Len(groups) - 1 : h[k] = groups[k]
          /\ groups = Append(h, l)
      BY <1>1, <1>3, FrontLast
    <3> HIDE DEF h, l, n
    <3>2. QED
      BY <3>1
  <2>2. Join(groups, s) = Append(h, ls)
    BY <1>3 DEF Join
  <2>3. ~Ends(l)
    BY <1>3
  <2> HIDE DEF h, l, n
  <2>4. StopsAtEnd(l) /\ \A k \in 1 .. n : StopsAtEnd(h[k]) /\ Ends(h[k])
    <3>1. \A k \in 1 .. n : k \in 1 .. n + 1 /\ k \in 1 .. (n + 1) - 1
      BY <2>1
    <3>2. n + 1 \in 1 .. n + 1
      BY <2>1
    <3>3. QED
      BY <1>1, <2>1, <3>1, <3>2
  <2>5. /\ ls \in Seq(Sentence) /\ Len(l) \in Nat /\ Len(ls) = Len(l) + 1 /\ ls # <<>>
        /\ \A j \in 1 .. Len(l) : ls[j] = l[j]
    <3>1. l \in Seq(Sentence)
      BY <2>1
    <3>2. Len(l) \in Nat
      BY <3>1, LenProperties
    <3>3. QED
      BY <3>1, <3>2, AppendProperties
  <2>6. StopsAtEnd(ls)
    <3>1. ASSUME NEW j \in 1 .. Len(ls) - 1 PROVE ~ls[j].stop
      <4>1. j \in 1 .. Len(l) - 1 \/ j = Len(l)
        BY <2>5
      <4>2. ls[j] = l[j]
        BY <2>5
      <4>3. CASE j \in 1 .. Len(l) - 1
        BY <2>4, <4>2, <4>3 DEF StopsAtEnd
      <4>4. CASE j = Len(l)
        BY <2>3, <4>2, <4>4 DEF Ends, Last
      <4>5. QED
        BY <4>1, <4>3, <4>4
    <3>2. QED
      BY <2>5, <3>1 DEF StopsAtEnd
  <2> HIDE DEF ls
  <2>7. /\ Append(h, ls) \in Seq(Seq(Sentence)) /\ Len(Append(h, ls)) = n + 1
        /\ \A k \in 1 .. n : Append(h, ls)[k] = h[k]
        /\ Append(h, ls)[n + 1] = ls
    BY <2>1, <2>5, AppendProperties DEF n
  <2>8. FlattenSeq(Append(h, ls)) = Append(text, s)
    <3> DEFINE f == FlattenSeq(h)
    <3>1. f \in Seq(Sentence)
      BY <2>1, FlattenType
    <3>2. FlattenSeq(Append(h, ls)) = f \o ls /\ text = f \o l
      BY <1>1, <2>1, <2>5, FlattenAppend
    <3> HIDE DEF f
    <3>3. f \o Append(l, s) = Append(f \o l, s)
      <4>1. l \in Seq(Sentence)
        BY <2>1
      <4>2. QED
        BY <3>1, <4>1, ConcatAppend
    <3>4. QED
      BY <3>2, <3>3 DEF ls
  <2>9. ASSUME NEW k \in 1 .. n + 1
        PROVE  StopsAtEnd(Append(h, ls)[k]) /\ (k \in 1 .. (n + 1) - 1 => Ends(Append(h, ls)[k]))
    <3>1. k \in 1 .. n \/ (k = n + 1 /\ k \notin 1 .. (n + 1) - 1)
      BY <2>1
    <3>2. CASE k \in 1 .. n
      BY <2>4, <2>7, <3>2
    <3>3. CASE k = n + 1 /\ k \notin 1 .. (n + 1) - 1
      BY <2>6, <2>7, <3>3
    <3>4. QED
      BY <3>1, <3>2, <3>3
  <2>10. \A k \in 1 .. (n + 1) - 1 : k \in 1 .. n + 1
    BY <2>1
  <2>11. QED
    BY <2>2, <2>7, <2>8, <2>9, <2>10 DEF Grouped
<1>4. CASE ~ (groups # <<>> /\ ~Ends(Last(groups)))
  <2> DEFINE n == Len(groups)
             ls == <<s>>
  <2>1. Join(groups, s) = Append(groups, ls)
    BY <1>4 DEF Join
  <2>2. ls \in Seq(Sentence) /\ Len(ls) = 1 /\ ls # <<>> /\ n \in Nat
    BY <1>1, LenProperties
  <2>3. StopsAtEnd(ls)
    BY <2>2 DEF StopsAtEnd
  <2>4. \A k \in 1 .. n : Ends(groups[k])
    <3>1. CASE groups = <<>>
      BY <3>1
    <3>2. CASE groups # <<>>
      <4>1. Ends(groups[n])
        BY <1>4, <3>2 DEF Last
      <4> HIDE DEF n
      <4>2. \A k \in 1 .. n : k \in 1 .. n - 1 \/ k = n
        BY <2>2
      <4>3. QED
        BY <1>1, <4>1, <4>2 DEF n
    <3>3. QED
      BY <3>1, <3>2
  <2> HIDE DEF ls
  <2>5. /\ Append(groups, ls) \in Seq(Seq(Sentence)) /\ Len(Append(groups, ls)) = n + 1
        /\ \A k \in 1 .. n : Append(groups, ls)[k] = groups[k]
        /\ Append(groups, ls)[n + 1] = ls
    BY <1>1, <2>2, AppendProperties
  <2>6. FlattenSeq(Append(groups, ls)) = text \o ls
    BY <1>1, <2>2, FlattenAppend
  <2>7. \A k \in 1 .. n : StopsAtEnd(groups[k])
    BY <1>1
  <2> HIDE DEF n
  <2>8. ASSUME NEW k \in 1 .. n + 1
        PROVE  StopsAtEnd(Append(groups, ls)[k]) /\ (k \in 1 .. (n + 1) - 1 => Ends(Append(groups, ls)[k]))
    <3>1. k \in 1 .. n \/ (k = n + 1 /\ k \notin 1 .. (n + 1) - 1)
      BY <2>2
    <3>2. CASE k \in 1 .. n
      BY <2>4, <2>5, <2>7, <3>2
    <3>3. CASE k = n + 1 /\ k \notin 1 .. (n + 1) - 1
      BY <2>3, <2>5, <3>3
    <3>4. QED
      BY <3>1, <3>2, <3>3
  <2>9. \A k \in 1 .. (n + 1) - 1 : k \in 1 .. n + 1
    BY <2>2
  <2>10. QED
    BY <1>2, <2>1, <2>5, <2>6, <2>8, <2>9 DEF Grouped, ls
<1>5. QED
  BY <1>3, <1>4

LEMMA CombineGroups ==
  ASSUME NEW text \in Seq(Sentence)
  PROVE  Grouped(text, Combine(text))
<1> DEFINE Good == {t \in Seq(Sentence) : Grouped(t, Combine(t))}
<1>1. <<>> \in Good
  <2>1. <<>> \in Seq(Seq(Sentence)) /\ <<>> \in Seq(Sentence) /\ Len(<<>>) = 0
    BY EmptySeq
  <2>2. 1 .. 0 = {} /\ 1 .. 0 - 1 = {}
    OBVIOUS
  <2>3. Grouped(<<>>, <<>>)
    BY <2>1, <2>2, FlattenEmpty DEF Grouped
  <2>4. QED
    BY <2>1, <2>3, CombineEmpty
<1>2. ASSUME NEW t \in Good, NEW s \in Sentence PROVE Append(t, s) \in Good
  <2>1. Combine(Append(t, s)) = Join(Combine(t), s) /\ Append(t, s) \in Seq(Sentence)
    BY CombineAppend, AppendProperties
  <2>2. Grouped(Append(t, s), Join(Combine(t), s))
    BY JoinGroups
  <2>3. QED
    BY <2>1, <2>2
<1>3. Good = Seq(Sentence)
  <2> HIDE DEF Good
  <2>1. Good \in SUBSET Seq(Sentence)
    BY DEF Good
  <2>2. QED
    BY <1>1, <1>2, <2>1, SequenceInduction
<1>4. QED
  BY <1>3

(* What the groups before the k-th, and it, amount to.                     *)
LEMMA PrefixFlatten ==
  ASSUME NEW S, NEW ss \in Seq(Seq(S)), NEW k \in 1 .. Len(ss)
  PROVE  /\ SubSeq(ss, 1, k - 1) \in Seq(Seq(S)) /\ ss[k] \in Seq(S)
         /\ SubSeq(ss, 1, k) = Append(SubSeq(ss, 1, k - 1), ss[k])
         /\ FlattenSeq(SubSeq(ss, 1, k)) = FlattenSeq(SubSeq(ss, 1, k - 1)) \o ss[k]
<1>1. ss[k] \in Seq(S) /\ Len(ss) \in Nat
  BY ElementOfSeq, LenProperties
<1>2. SubSeq(ss, 1, k - 1) \in Seq(Seq(S))
  <2>1. 1 \in Int /\ k - 1 \in Int /\ \A i \in 1 .. k - 1 : ss[i] \in Seq(S)
    BY <1>1, ElementOfSeq
  <2>2. QED
    BY <2>1, SubSeqProperties
<1>3. SubSeq(ss, 1, k) = SubSeq(ss, 1, k - 1) \o <<ss[k]>>
  <2>1. 1 \in 1 .. Len(ss) /\ k \in 1 .. Len(ss)
    BY <1>1
  <2>2. QED
    BY <2>1, SubSeqRecursiveSecond
<1> DEFINE before == SubSeq(ss, 1, k - 1)
           s == ss[k]
<1>4. before \in Seq(Seq(S)) /\ s \in Seq(S) /\ SubSeq(ss, 1, k) = before \o <<s>>
  BY <1>1, <1>2, <1>3
<1> HIDE DEF before, s
<1>5. before \o <<s>> = Append(before, s) /\ FlattenSeq(Append(before, s)) = FlattenSeq(before) \o s
  BY <1>4, AppendIsConcat, FlattenAppend
<1>6. QED
  BY <1>4, <1>5 DEF before, s

(* Where a group of the text's sentences is in the text.                   *)
Start(groups, k) == Len(FlattenSeq(SubSeq(groups, 1, k - 1)))

LEMMA GroupPlace ==
  ASSUME NEW text \in Seq(Sentence), NEW groups, Grouped(text, groups),
         NEW k \in 1 .. Len(groups)
  PROVE  /\ Start(groups, k) \in Nat /\ Len(groups[k]) \in Nat \ {0}
         /\ groups[k] \in Seq(Sentence)
         /\ Start(groups, k + 1) = Start(groups, k) + Len(groups[k])
         /\ Start(groups, k + 1) <= Len(text)
         /\ \A j \in 1 .. Len(groups[k]) : text[Start(groups, k) + j] = groups[k][j]
         /\ k = 1 => Start(groups, k) = 0
         /\ k = Len(groups) => Start(groups, k + 1) = Len(text)
<1> DEFINE n == Len(groups)
           before == SubSeq(groups, 1, k - 1)
           upto == SubSeq(groups, 1, k)
           after == SubSeq(groups, k + 1, n)
           g == groups[k]
<1>1. /\ groups \in Seq(Seq(Sentence)) /\ FlattenSeq(groups) = text /\ n \in Nat
      /\ StopsAtEnd(g)
  BY LenProperties DEF Grouped
<1>2. /\ before \in Seq(Seq(Sentence)) /\ g \in Seq(Sentence)
      /\ FlattenSeq(upto) = FlattenSeq(before) \o g
      /\ upto = Append(before, g)
  BY <1>1, PrefixFlatten
<1>3. upto \in Seq(Seq(Sentence)) /\ after \in Seq(Seq(Sentence))
  <2>1. \A i \in 1 .. n : groups[i] \in Seq(Sentence)
    BY <1>1, ElementOfSeq
  <2>2. 1 \in Int /\ k \in Int /\ k + 1 \in Int /\ n \in Int
    BY <1>1
  <2>3. (\A i \in 1 .. k : groups[i] \in Seq(Sentence)) /\ (\A i \in k + 1 .. n : groups[i] \in Seq(Sentence))
    BY <1>1, <2>1, SMTT(40)
  <2>4. QED
    BY <2>2, <2>3, SubSeqProperties
<1>4. upto \o after = groups
  <2>1. 1 \in 1 .. n + 1 /\ k \in 1 - 1 .. n /\ n \in k .. n
    BY <1>1
  <2>2. SubSeq(groups, 1, k) \o SubSeq(groups, k + 1, n) = SubSeq(groups, 1, n)
    BY <1>1, <2>1, ConcatAdjacentSubSeq
  <2>3. SubSeq(groups, 1, n) = groups
    BY <1>1, SubSeqFull
  <2>4. QED
    BY <2>2, <2>3
<1>5. Len(g) \in Nat \ {0}
  BY <1>1, <1>2, EmptySeq DEF StopsAtEnd
<1>6. k = 1 => before = <<>>
  <2>1. SUFFICES ASSUME k = 1 PROVE SubSeq(groups, 1, 0) = <<>>
    OBVIOUS
  <2>2. QED
    BY SubSeqEmpty
<1>7. k = n => after = <<>>
  <2>1. n \in Int /\ n + 1 \in Int /\ n < n + 1
    BY <1>1
  <2>2. SubSeq(groups, n + 1, n) = <<>>
    BY <2>1, SubSeqEmpty
  <2>3. QED
    BY <2>2
<1>8. Start(groups, k) = Len(FlattenSeq(before)) /\ Start(groups, k + 1) = Len(FlattenSeq(upto))
  <2>1. (k + 1) - 1 = k
    OBVIOUS
  <2>2. QED
    BY <2>1 DEF Start
<1> HIDE DEF before, upto, after, g, n
<1> DEFINE fb == FlattenSeq(before)
           fu == FlattenSeq(upto)
           fa == FlattenSeq(after)
<1>9. fb \in Seq(Sentence) /\ fu \in Seq(Sentence) /\ fa \in Seq(Sentence)
  BY <1>2, <1>3, FlattenType
<1>10. fu = fb \o g /\ text = fu \o fa
  <2>1. FlattenSeq(upto \o after) = fu \o fa
    BY <1>3, FlattenConcat
  <2>2. QED
    BY <1>1, <1>2, <1>4, <2>1
<1>11. (k = 1 => fb = <<>>) /\ (k = n => fa = <<>>)
  BY <1>6, <1>7, FlattenEmpty
<1> HIDE DEF fb, fu, fa
<1>12. /\ Len(fb) \in Nat /\ Len(fu) = Len(fb) + Len(g)
       /\ \A i \in 1 .. Len(fb) + Len(g) : fu[i] = IF i <= Len(fb) THEN fb[i] ELSE g[i - Len(fb)]
  BY <1>2, <1>9, <1>10, ConcatProperties, LenProperties
<1>13. /\ Len(fa) \in Nat /\ Len(text) = Len(fu) + Len(fa)
       /\ \A i \in 1 .. Len(fu) + Len(fa) : text[i] = IF i <= Len(fu) THEN fu[i] ELSE fa[i - Len(fu)]
  BY <1>9, <1>10, ConcatProperties, LenProperties
<1>14. ASSUME NEW j \in 1 .. Len(g) PROVE text[Len(fb) + j] = g[j]
  <2>1. /\ Len(fb) + j \in 1 .. Len(fb) + Len(g) /\ ~ (Len(fb) + j <= Len(fb)) /\ (Len(fb) + j) - Len(fb) = j
        /\ Len(fb) + j \in 1 .. Len(fu) + Len(fa) /\ Len(fb) + j <= Len(fu)
    BY <1>5, <1>12, <1>13
  <2>2. text[Len(fb) + j] = fu[Len(fb) + j] /\ fu[Len(fb) + j] = g[(Len(fb) + j) - Len(fb)]
    BY <1>12, <1>13, <2>1
  <2>3. QED
    BY <2>1, <2>2
<1>15. /\ k = 1 => Len(fb) = 0
       /\ k = n => Len(fu) = Len(text)
       /\ Len(fu) <= Len(text)
  <2>1. k = 1 => Len(fb) = 0
    BY <1>11, EmptySeq
  <2>2. k = n => Len(fa) = 0
    BY <1>11, EmptySeq
  <2>3. Len(fu) \in Nat
    BY <1>5, <1>12
  <2>4. (k = n => Len(fu) = Len(text)) /\ Len(fu) <= Len(text)
    BY <1>13, <2>2, <2>3
  <2>5. QED
    BY <2>1, <2>4
<1>16. Start(groups, k) = Len(fb) /\ Start(groups, k + 1) = Len(fu)
  BY <1>8 DEF fb, fu
<1>17. QED
  BY <1>2, <1>5, <1>12, <1>14, <1>15, <1>16 DEF g, n

(***************************************************************************)
(* The sentences joined with one of the text are those of its group.       *)
(***************************************************************************)
BetweenStops(text, m, w) ==
    /\ m \in Nat /\ w \in Nat \ {0} /\ m + w <= Len(text)
    /\ \A j \in m + 1 .. m + w - 1 : ~text[j].stop
    /\ m > 0 => text[m].stop
    /\ m + w < Len(text) => text[m + w].stop

LEMMA AroundGroup ==
  ASSUME NEW text \in Seq(Sentence), NEW m, NEW w, BetweenStops(text, m, w),
         NEW i \in m + 1 .. m + w
  PROVE  Around(text, i) = m + 1 .. m + w
<1> USE DEF BetweenStops
<1>1. DOMAIN text = 1 .. Len(text) /\ Len(text) \in Nat
  BY LenProperties
<1>2. ASSUME NEW j \in m + 1 .. m + w PROVE j \in Around(text, i)
  <2>1. j \in DOMAIN text
    BY <1>1
  <2>2. ASSUME NEW k \in DOMAIN text, (i <= k /\ k < j) \/ (j <= k /\ k < i)
        PROVE  ~text[k].stop
    <3>1. k \in m + 1 .. m + w - 1
      BY <1>1, <2>2
    <3>2. QED
      BY <3>1
  <2>3. QED
    BY <2>1, <2>2 DEF Around
<1>3. ASSUME NEW j \in Around(text, i), j \notin m + 1 .. m + w PROVE FALSE
  <2>1. j \in 1 .. Len(text)
    BY <1>1 DEF Around
  <2>2. \A k \in 1 .. Len(text) : (i <= k /\ k < j) \/ (j <= k /\ k < i) => ~text[k].stop
    BY <1>1 DEF Around
  <2>3. CASE j <= m
    <3>1. m \in 1 .. Len(text) /\ j <= m /\ m < i /\ m > 0
      BY <1>1, <2>1, <2>3
    <3>2. QED
      BY <2>2, <3>1
  <2>4. CASE m + w < j
    <3>1. m + w \in 1 .. Len(text) /\ i <= m + w /\ m + w < j /\ m + w < Len(text)
      BY <1>1, <2>1, <2>4
    <3>2. QED
      BY <2>2, <3>1
  <2>5. QED
    BY <1>3, <2>1, <2>3, <2>4
<1>4. QED
  BY <1>2, <1>3

(* What the property says of one sentence, and of a group of them.         *)
Kept(text, i) ==
    /\ ~Found(text, Around(text, i))
    /\ (\E j \in Around(text, i) : text[j].stop) \/ Around(text, i) = DOMAIN text
KeptPlaces(text) == {i \in DOMAIN text : Kept(text, i)}
KeptGroups(groups) == {g \in Seq(Sentence) : ~HasPhrase(g) /\ (Ends(g) \/ Len(groups) = 1)}

(* A phrase in the sentences of a group is a phrase of the group.          *)
LEMMA PhraseOfGroup ==
  ASSUME NEW text, NEW g, NEW m \in Nat, NEW w \in Nat,
         \A j \in 1 .. w : text[m + j] = g[j]
  PROVE  Found(text, m + 1 .. m + w) <=> Found(g, 1 .. w)
<1>1. Words \subseteq Int
  BY TextProcessorAssumption DEF Words
<1>2. ASSUME Found(text, m + 1 .. m + w) PROVE Found(g, 1 .. w)
  <2>1. PICK at \in [Words -> m + 1 .. m + w] :
          /\ \A u, v \in Words : u <= v => at[u] <= at[v]
          /\ \A u \in Words : u \in text[at[u]].words
    BY <1>2 DEF Found
  <2> DEFINE in == [u \in Words |-> at[u] - m]
  <2>2. \A u \in Words : at[u] \in Nat /\ at[u] - m \in 1 .. w /\ m + (at[u] - m) = at[u]
    BY <2>1
  <2>3. in \in [Words -> 1 .. w] /\ \A u \in Words : in[u] = at[u] - m
    BY <2>2
  <2>4. ASSUME NEW u \in Words, NEW v \in Words, u <= v PROVE in[u] <= in[v]
    BY <2>1, <2>2, <2>3, <2>4
  <2>5. ASSUME NEW u \in Words PROVE u \in g[in[u]].words
    <3>1. text[at[u]] = g[at[u] - m]
      BY <2>2
    <3> QED
      BY <2>1, <2>3, <3>1
  <2> HIDE DEF in
  <2> QED
    BY <2>3, <2>4, <2>5 DEF Found
<1>3. ASSUME Found(g, 1 .. w) PROVE Found(text, m + 1 .. m + w)
  <2>1. PICK at \in [Words -> 1 .. w] :
          /\ \A u, v \in Words : u <= v => at[u] <= at[v]
          /\ \A u \in Words : u \in g[at[u]].words
    BY <1>3 DEF Found
  <2> DEFINE in == [u \in Words |-> m + at[u]]
  <2>2. \A u \in Words : at[u] \in 1 .. w /\ at[u] \in Nat /\ m + at[u] \in m + 1 .. m + w
    BY <2>1
  <2>3. in \in [Words -> m + 1 .. m + w] /\ \A u \in Words : in[u] = m + at[u]
    BY <2>2
  <2>4. ASSUME NEW u \in Words, NEW v \in Words, u <= v PROVE in[u] <= in[v]
    BY <2>1, <2>2, <2>3, <2>4
  <2>5. ASSUME NEW u \in Words PROVE u \in text[in[u]].words
    <3>1. text[m + at[u]] = g[at[u]]
      BY <2>2
    <3> QED
      BY <2>1, <2>3, <3>1
  <2> HIDE DEF in
  <2> QED
    BY <2>3, <2>4, <2>5 DEF Found
<1> QED
  BY <1>2, <1>3

(* A sentence is to be kept exactly if its group is.                       *)
LEMMA KeptGroup ==
  ASSUME NEW text \in Seq(Sentence), NEW groups, Grouped(text, groups),
         NEW k \in 1 .. Len(groups),
         NEW i \in Start(groups, k) + 1 .. Start(groups, k) + Len(groups[k])
  PROVE  i \in KeptPlaces(text) <=> groups[k] \in KeptGroups(groups)
<1> DEFINE n == Len(groups)
           g == groups[k]
           m == Start(groups, k)
           w == Len(g)
<1>1. /\ groups \in Seq(Seq(Sentence)) /\ n \in Nat
      /\ \A l \in 1 .. n : StopsAtEnd(groups[l])
      /\ \A l \in 1 .. n - 1 : Ends(groups[l])
  BY LenProperties DEF Grouped
<1>2. ASSUME NEW l \in 1 .. n
      PROVE  /\ Start(groups, l) \in Nat /\ Len(groups[l]) \in Nat \ {0}
             /\ groups[l] \in Seq(Sentence)
             /\ Start(groups, l + 1) = Start(groups, l) + Len(groups[l])
             /\ Start(groups, l + 1) <= Len(text)
             /\ \A j \in 1 .. Len(groups[l]) : text[Start(groups, l) + j] = groups[l][j]
             /\ l = 1 => Start(groups, l) = 0
             /\ l = n => Start(groups, l + 1) = Len(text)
  BY GroupPlace, SMTT(40)
<1>3. /\ m \in Nat /\ w \in Nat \ {0} /\ g \in Seq(Sentence)
      /\ Start(groups, k + 1) = m + w /\ m + w <= Len(text)
      /\ \A j \in 1 .. w : text[m + j] = g[j]
      /\ k = 1 => m = 0
      /\ k = n => m + w = Len(text)
      /\ StopsAtEnd(g)
  BY <1>1, <1>2
<1>4. Len(text) \in Nat /\ DOMAIN text = 1 .. Len(text)
  BY LenProperties
<1>5. k > 1 => m > 0 /\ text[m].stop
  <2> SUFFICES ASSUME k > 1 PROVE m > 0 /\ text[m].stop
    OBVIOUS
  <2> DEFINE l == k - 1
  <2>1. l \in 1 .. n /\ l \in 1 .. n - 1 /\ l + 1 = k
    BY <1>1
  <2> HIDE DEF l
  <2>2. m = Start(groups, l) + Len(groups[l]) /\ Start(groups, l) \in Nat /\ Len(groups[l]) \in Nat \ {0}
    BY <1>2, <2>1
  <2>3. text[Start(groups, l) + Len(groups[l])] = groups[l][Len(groups[l])]
    <3>1. Len(groups[l]) \in 1 .. Len(groups[l])
      BY <2>2
    <3>2. \A j \in 1 .. Len(groups[l]) : text[Start(groups, l) + j] = groups[l][j]
      BY <1>2, <2>1
    <3>3. QED
      BY <3>1, <3>2
  <2>4. groups[l][Len(groups[l])].stop
    BY <1>1, <2>1 DEF Ends, Last
  <2> HIDE DEF m
  <2>5. QED
    BY <2>2, <2>3, <2>4
<1>6. text[m + w].stop <=> Ends(g)
  BY <1>3, SMTT(40) DEF Ends, Last
<1>7. k < n => Ends(g) /\ m + w < Len(text)
  <2> SUFFICES ASSUME k < n PROVE Ends(g) /\ m + w < Len(text)
    OBVIOUS
  <2>1. k \in 1 .. n - 1 /\ k + 1 \in 1 .. n
    BY <1>1
  <2>2. /\ Start(groups, (k + 1) + 1) = Start(groups, k + 1) + Len(groups[k + 1])
        /\ Start(groups, (k + 1) + 1) <= Len(text)
        /\ Len(groups[k + 1]) \in Nat \ {0}
        /\ Start(groups, k + 1) = m + w /\ m \in Nat /\ w \in Nat
    BY <1>2, <1>3, <2>1
  <2> HIDE DEF m, w
  <2>3. m + w < Len(text)
    BY <1>4, <2>2
  <2>4. QED
    BY <1>1, <2>1, <2>3
<1> HIDE DEF n, g, m, w
<1>8. i \in m + 1 .. m + w /\ k \in 1 .. n /\ n \in Nat
  BY <1>1 DEF m, w, n, g
<1>9. m \in Nat /\ w \in Nat \ {0} /\ Len(text) \in Nat /\ m + w <= Len(text)
      /\ (k = 1 => m = 0) /\ (k = n => m + w = Len(text))
  BY <1>3, <1>4
<1>10. \A j \in m + 1 .. m + w - 1 : ~text[j].stop
  <2> TAKE j \in m + 1 .. m + w - 1
  <2>1. j - m \in 1 .. w - 1 /\ j - m \in 1 .. w /\ m + (j - m) = j
    BY <1>3
  <2>2. text[m + (j - m)] = g[j - m] /\ ~g[j - m].stop
    BY <1>3, <2>1 DEF StopsAtEnd, w
  <2>3. QED
    BY <2>1, <2>2
<1>11. Around(text, i) = m + 1 .. m + w
  <2>1. m > 0 => text[m].stop
    BY <1>5, <1>8, <1>9
  <2>2. m + w < Len(text) => text[m + w].stop
    BY <1>6, <1>7, <1>8, <1>9
  <2>3. m \in Nat /\ w \in Nat \ {0} /\ m + w <= Len(text) /\ i \in m + 1 .. m + w
    BY <1>8, <1>9
  <2>4. BetweenStops(text, m, w)
    BY <1>10, <2>1, <2>2, <2>3 DEF BetweenStops
  <2>5. QED
    BY <2>3, <2>4, AroundGroup
<1>12. Found(text, m + 1 .. m + w) <=> HasPhrase(g)
  <2>1. DOMAIN g = 1 .. w
    BY <1>3, LenProperties DEF w
  <2>2. m \in Nat /\ w \in Nat /\ \A j \in 1 .. w : text[m + j] = g[j]
    BY <1>3
  <2>3. Found(text, m + 1 .. m + w) <=> Found(g, 1 .. w)
    BY <2>2, PhraseOfGroup
  <2>4. QED
    BY <2>1, <2>3 DEF HasPhrase
<1>13. (\E j \in m + 1 .. m + w : text[j].stop) <=> Ends(g)
  <2>1. m + w \in m + 1 .. m + w /\ \A j \in m + 1 .. m + w : j = m + w \/ j \in m + 1 .. m + w - 1
    BY <1>3
  <2>2. QED
    BY <1>6, <1>10, <2>1
<1>14. (m + 1 .. m + w = DOMAIN text) <=> n = 1
  <2>1. CASE n = 1
    <3>1. m = 0 /\ m + w = Len(text)
      BY <1>8, <1>9, <2>1
    <3>2. m + 1 = 1
      BY <3>1
    <3>3. QED
      BY <1>4, <2>1, <3>1, <3>2
  <2>2. CASE n # 1
    <3>1. m > 0 \/ m + w < Len(text)
      BY <1>1, <1>5, <1>7, <1>8, <2>2
    <3>2. CASE m > 0
      <4>1. 1 \in 1 .. Len(text) /\ 1 \notin m + 1 .. m + w
        BY <1>9, <3>2
      <4>2. QED
        BY <1>4, <2>2, <4>1
    <3>3. CASE m + w < Len(text)
      <4>1. m + w + 1 \in 1 .. Len(text) /\ m + w + 1 \notin m + 1 .. m + w
        BY <1>9, <3>3
      <4>2. QED
        BY <1>4, <2>2, <4>1
    <3>4. QED
      BY <3>1, <3>2, <3>3
  <2>3. QED
    BY <2>1, <2>2
<1>15. i \in DOMAIN text
  <2>1. i \in 1 .. Len(text)
    BY <1>8, <1>9
  <2>2. QED
    BY <1>4, <2>1
<1>16. Kept(text, i) <=> (~HasPhrase(g) /\ (Ends(g) \/ n = 1))
  BY <1>11, <1>12, <1>13, <1>14 DEF Kept
<1>17. g \in KeptGroups(groups) <=> (~HasPhrase(g) /\ (Ends(g) \/ n = 1))
  BY <1>3 DEF KeptGroups, n
<1>18. QED
  BY <1>15, <1>16, <1>17 DEF KeptPlaces, g

(* Consecutive places, and the sentences of a text at some of its places.  *)
Places(m, w) == [j \in 1 .. w |-> m + j]
At(text, places) == [k \in DOMAIN places |-> text[places[k]]]

LEMMA PlacesType ==
  ASSUME NEW m \in Nat, NEW w \in Nat, NEW n \in Nat, m + w <= n
  PROVE  /\ Places(m, w) \in Seq(1 .. n) /\ Len(Places(m, w)) = w
         /\ \A j \in 1 .. w : Places(m, w)[j] = m + j
BY DEF Places

LEMMA PlacesConcat ==
  ASSUME NEW m \in Nat, NEW w \in Nat
  PROVE  Places(0, m + w) = Places(0, m) \o Places(m, w)
<1> DEFINE n == m + w
           a == Places(0, m)
           b == Places(m, w)
           c == Places(0, m + w)
<1>1. /\ a \in Seq(1 .. n) /\ Len(a) = m /\ \A j \in 1 .. m : a[j] = 0 + j
      /\ b \in Seq(1 .. n) /\ Len(b) = w /\ \A j \in 1 .. w : b[j] = m + j
  <2>1. 0 \in Nat /\ n \in Nat /\ 0 + m <= n /\ m + w <= n
    OBVIOUS
  <2>2. QED
    BY <2>1, PlacesType
<1>2. c \in Seq(1 .. n) /\ Len(c) = m + w /\ \A j \in 1 .. m + w : c[j] = 0 + j
  <2>1. m + w \in Nat /\ 0 \in Nat /\ 0 + (m + w) <= n /\ n \in Nat
    OBVIOUS
  <2>2. QED
    BY <2>1, PlacesType
<1> HIDE DEF n, a, b, c
<1>3. /\ a \o b \in Seq(1 .. n) /\ Len(a \o b) = m + w
      /\ \A j \in 1 .. m + w : (a \o b)[j] = IF j <= m THEN a[j] ELSE b[j - m]
  BY <1>1, ConcatProperties, ZenonT(60)
<1>4. ASSUME NEW j \in 1 .. m + w PROVE c[j] = (a \o b)[j]
  <2>1. CASE j <= m
    BY <1>1, <1>2, <1>3, <2>1
  <2>2. CASE ~ (j <= m)
    <3>1. j - m \in 1 .. w /\ m + (j - m) = 0 + j
      BY <2>2
    <3>2. (a \o b)[j] = b[j - m] /\ b[j - m] = m + (j - m)
      BY <1>1, <1>3, <2>2, <3>1
    <3>3. QED
      BY <1>2, <3>1, <3>2
  <2>3. QED
    BY <2>1, <2>2
<1>5. QED
  BY <1>2, <1>3, <1>4, SeqEqual DEF a, b, c

Maps(text, S, T) == \A x \in S : text[x] \in T

LEMMA AtType ==
  ASSUME NEW text, NEW S, NEW T, Maps(text, S, T), NEW a \in Seq(S)
  PROVE  /\ At(text, a) \in Seq(T) /\ Len(At(text, a)) = Len(a)
         /\ \A k \in 1 .. Len(a) : At(text, a)[k] = text[a[k]]
<1>1. DOMAIN a = 1 .. Len(a) /\ Len(a) \in Nat /\ \A k \in 1 .. Len(a) : a[k] \in S
  BY LenProperties, ElementOfSeq
<1> DEFINE n == Len(a)
<1>2. At(text, a) = [k \in 1 .. n |-> text[a[k]]]
  BY <1>1 DEF At
<1> HIDE DEF n
<1>3. n \in Nat /\ \A k \in 1 .. n : text[a[k]] \in T
  BY <1>1 DEF n, Maps
<1>4. [k \in 1 .. n |-> text[a[k]]] \in Seq(T)
  BY <1>3
<1>5. QED
  BY <1>2, <1>3, <1>4 DEF n

LEMMA AtConcat ==
  ASSUME NEW text, NEW S, NEW T, Maps(text, S, T),
         NEW a \in Seq(S), NEW b \in Seq(S)
  PROVE  At(text, a \o b) = At(text, a) \o At(text, b)
<1> DEFINE c == a \o b
           ta == At(text, a)
           tb == At(text, b)
           tc == At(text, c)
           m == Len(a)
           w == Len(b)
<1>1. /\ m \in Nat /\ w \in Nat /\ c \in Seq(S) /\ Len(c) = m + w
      /\ \A j \in 1 .. m + w : c[j] = IF j <= m THEN a[j] ELSE b[j - m]
  BY ConcatProperties, LenProperties
<1>2. ta \in Seq(T) /\ Len(ta) = m /\ \A j \in 1 .. m : ta[j] = text[a[j]]
  BY AtType
<1>3. tb \in Seq(T) /\ Len(tb) = w /\ \A j \in 1 .. w : tb[j] = text[b[j]]
  BY AtType
<1> HIDE DEF c
<1>4. tc \in Seq(T) /\ Len(tc) = m + w /\ \A j \in 1 .. m + w : tc[j] = text[c[j]]
  BY <1>1, AtType, SMTT(40)
<1> HIDE DEF ta, tb, tc, m, w
<1>5. /\ ta \o tb \in Seq(T) /\ Len(ta \o tb) = m + w
      /\ \A j \in 1 .. m + w : (ta \o tb)[j] = IF j <= m THEN ta[j] ELSE tb[j - m]
  <2>1. ta \in Seq(T) /\ tb \in Seq(T)
    BY <1>2, <1>3
  <2>2. /\ ta \o tb \in Seq(T) /\ Len(ta \o tb) = Len(ta) + Len(tb)
        /\ \A j \in 1 .. Len(ta) + Len(tb) : (ta \o tb)[j] = IF j <= Len(ta) THEN ta[j] ELSE tb[j - Len(ta)]
    BY <2>1, ConcatProperties
  <2>3. Len(ta) = m /\ Len(tb) = w
    BY <1>2, <1>3
  <2>4. QED
    BY <2>2, <2>3
<1>6. ASSUME NEW j \in 1 .. m + w PROVE tc[j] = (ta \o tb)[j]
  <2>1. CASE j <= m
    <3>1. j \in 1 .. m
      BY <1>1, <2>1
    <3>2. (ta \o tb)[j] = text[a[j]] /\ c[j] = a[j]
      BY <1>1, <1>2, <1>5, <2>1, <3>1
    <3>3. QED
      BY <1>4, <3>2
  <2>2. CASE ~ (j <= m)
    <3>1. j - m \in 1 .. w
      BY <1>1, <2>2
    <3>2. (ta \o tb)[j] = text[b[j - m]] /\ c[j] = b[j - m]
      BY <1>1, <1>3, <1>5, <2>2, <3>1
    <3>3. QED
      BY <1>4, <3>2
  <2>3. QED
    BY <2>1, <2>2
<1>7. tc = ta \o tb
  BY <1>4, <1>5, <1>6, SeqEqual
<1>8. QED
  BY <1>7 DEF tc, ta, tb, c

(***************************************************************************)
(* The sentences of the kept ones among the first k groups are those at    *)
(* the kept places before the next group.                                  *)
(***************************************************************************)
LEMMA GroupSentences ==
  ASSUME NEW text \in Seq(Sentence), NEW groups, Grouped(text, groups), NEW k \in 1 .. Len(groups)
  PROVE  /\ At(text, Places(Start(groups, k), Len(groups[k]))) = groups[k]
         /\ Only(Places(Start(groups, k), Len(groups[k])), KeptPlaces(text)) =
               IF groups[k] \in KeptGroups(groups)
               THEN Places(Start(groups, k), Len(groups[k]))
               ELSE <<>>
<1> DEFINE m == Start(groups, k)
           g == groups[k]
           w == Len(g)
           p == Places(m, w)
<1>1. /\ m \in Nat /\ w \in Nat \ {0} /\ g \in Seq(Sentence) /\ m + w <= Len(text)
      /\ \A j \in 1 .. w : text[m + j] = g[j]
  BY GroupPlace
<1>2. \A i \in m + 1 .. m + w : i \in KeptPlaces(text) <=> g \in KeptGroups(groups)
  BY KeptGroup
<1>3. Len(text) \in Nat /\ \A i \in 1 .. Len(text) : text[i] \in Sentence
  BY LenProperties, ElementOfSeq
<1> HIDE DEF m, g, w
<1>4. p \in Seq(1 .. Len(text)) /\ Len(p) = w /\ \A j \in 1 .. w : p[j] = m + j
  BY <1>1, <1>3, PlacesType
<1> HIDE DEF p
<1>5. Maps(text, 1 .. Len(text), Sentence)
  BY <1>3 DEF Maps
<1>6. /\ At(text, p) \in Seq(Sentence) /\ Len(At(text, p)) = Len(p)
      /\ \A j \in 1 .. Len(p) : At(text, p)[j] = text[p[j]]
  BY <1>4, <1>5, AtType
<1>7. \A j \in 1 .. w : At(text, p)[j] = g[j]
  BY <1>1, <1>4, <1>6
<1>8. At(text, p) = g
  BY <1>1, <1>4, <1>6, <1>7, SeqEqual DEF w
<1>9. \A j \in 1 .. w : m + j \in m + 1 .. m + w
  BY <1>1
<1>10. \A j \in 1 .. Len(p) : p[j] \in KeptPlaces(text) <=> g \in KeptGroups(groups)
  BY <1>2, <1>4, <1>9
<1>11. CASE g \in KeptGroups(groups)
  <2>1. Only(p, KeptPlaces(text)) = p
    BY <1>4, <1>10, <1>11, OnlyAll
  <2>2. QED
    BY <1>8, <1>11, <2>1 DEF p, g, m, w
<1>12. CASE g \notin KeptGroups(groups)
  <2>1. Only(p, KeptPlaces(text)) = <<>>
    BY <1>4, <1>10, <1>12, OnlyNone
  <2>2. QED
    BY <1>8, <1>12, <2>1 DEF p, g, m, w
<1>13. QED
  BY <1>11, <1>12

KeptBefore(groups, k) == FlattenSeq(Only(SubSeq(groups, 1, k - 1), KeptGroups(groups)))
KeptPrefix(text, m) == At(text, Only(Places(0, m), KeptPlaces(text)))

LEMMA KeptStep ==
  ASSUME NEW text \in Seq(Sentence), NEW groups, Grouped(text, groups), NEW k \in 1 .. Len(groups),
         KeptBefore(groups, k) = KeptPrefix(text, Start(groups, k))
  PROVE  KeptBefore(groups, k + 1) = KeptPrefix(text, Start(groups, k + 1))
<1> DEFINE m == Start(groups, k)
           g == groups[k]
           w == Len(g)
           p == Places(m, w)
           q == Places(0, m)
           before == SubSeq(groups, 1, k - 1)
           kg == KeptGroups(groups)
           kp == KeptPlaces(text)
<1>1. /\ m \in Nat /\ w \in Nat /\ g \in Seq(Sentence) /\ m + w <= Len(text)
      /\ Start(groups, k + 1) = m + w
  BY GroupPlace
<1>2. Len(text) \in Nat /\ \A i \in 1 .. Len(text) : text[i] \in Sentence
  BY LenProperties, ElementOfSeq
<1>3. At(text, p) = g /\ Only(p, kp) = IF g \in kg THEN p ELSE <<>>
  BY GroupSentences
<1>4. /\ before \in Seq(Seq(Sentence))
      /\ SubSeq(groups, 1, k) = Append(before, g)
  <2>1. groups \in Seq(Seq(Sentence))
    BY DEF Grouped
  <2>2. QED
    BY <2>1, PrefixFlatten
<1>5. KeptBefore(groups, k + 1) = FlattenSeq(Only(Append(before, g), kg))
  <2>1. (k + 1) - 1 = k
    OBVIOUS
  <2>2. QED
    BY <1>4, <2>1 DEF KeptBefore
<1>6. FlattenSeq(Only(before, kg)) = At(text, Only(q, kp))
  BY DEF KeptBefore, KeptPrefix
<1>7. KeptPrefix(text, Start(groups, k + 1)) = At(text, Only(Places(0, m + w), kp))
  BY <1>1 DEF KeptPrefix
<1> HIDE DEF m, g, w, before, kg, kp
<1>8. Places(0, m + w) = q \o p
  BY <1>1, PlacesConcat
<1>9. p \in Seq(1 .. Len(text)) /\ q \in Seq(1 .. Len(text))
  <2>1. 0 \in Nat /\ 0 + m <= Len(text)
    BY <1>1, <1>2
  <2>2. QED
    BY <1>1, <1>2, <2>1, PlacesType
<1> HIDE DEF p, q
<1>10. Only(q \o p, kp) = Only(q, kp) \o Only(p, kp) /\ Only(q, kp) \in Seq(1 .. Len(text))
  <2>1. Only(q \o p, kp) = Only(q, kp) \o Only(p, kp)
    BY <1>9, OnlyConcat
  <2>2. Only(q, kp) \in Seq(1 .. Len(text))
    BY <1>9, OnlyType
  <2>3. QED
    BY <2>1, <2>2
<1>11. /\ Only(before, kg) \in Seq(Seq(Sentence))
       /\ Only(Append(before, g), kg) = IF g \in kg THEN Append(Only(before, kg), g) ELSE Only(before, kg)
  BY <1>1, <1>4, OnlyType, OnlyAppend
<1> DEFINE b == Only(before, kg)
           o == Only(q, kp)
<1>12. b \in Seq(Seq(Sentence)) /\ o \in Seq(1 .. Len(text)) /\ FlattenSeq(b) = At(text, o)
  BY <1>6, <1>10, <1>11
<1>13. /\ Only(q \o p, kp) = o \o Only(p, kp)
       /\ Only(Append(before, g), kg) = IF g \in kg THEN Append(b, g) ELSE b
  BY <1>10, <1>11
<1> HIDE DEF b, o
<1>14. CASE g \in kg
  <2>1. FlattenSeq(Append(b, g)) = FlattenSeq(b) \o g
    BY <1>1, <1>12, FlattenAppend
  <2>2. Maps(text, 1 .. Len(text), Sentence)
    BY <1>2 DEF Maps
  <2>3. At(text, o \o p) = At(text, o) \o At(text, p)
    BY <1>9, <1>12, <2>2, AtConcat
  <2>4. QED
    BY <1>3, <1>5, <1>7, <1>8, <1>12, <1>13, <1>14, <2>1, <2>3
<1>15. CASE g \notin kg
  <2>1. o \o <<>> = o
    BY <1>12, ConcatEmptySeq
  <2>2. QED
    BY <1>3, <1>5, <1>7, <1>8, <1>12, <1>13, <1>15, <2>1
<1>16. QED
  BY <1>14, <1>15

LEMMA KeptSentences ==
  ASSUME NEW text \in Seq(Sentence), NEW groups, Grouped(text, groups)
  PROVE  FlattenSeq(Only(groups, KeptGroups(groups))) = KeptPrefix(text, Len(text))
<1> DEFINE n == Len(groups)
           Good == {k \in Nat : k <= n => KeptBefore(groups, k + 1) = KeptPrefix(text, Start(groups, k + 1))}
<1>1. n \in Nat /\ groups \in Seq(Seq(Sentence)) /\ FlattenSeq(groups) = text
  BY LenProperties DEF Grouped
<1>2. KeptBefore(groups, 1) = <<>> /\ Start(groups, 1) = 0
  <2>1. 1 - 1 = 0 /\ SubSeq(groups, 1, 0) = <<>> /\ Len(<<>>) = 0
    BY SubSeqEmpty, EmptySeq
  <2>2. QED
    BY <2>1, OnlyEmpty, FlattenEmpty DEF KeptBefore, Start
<1>3. KeptPrefix(text, 0) = <<>>
  <2> DEFINE p == Places(0, 0)
  <2>1. p \in Seq(1 .. 0) /\ Len(p) = 0
    <3>1. 0 \in Nat /\ 0 + 0 <= 0
      OBVIOUS
    <3>2. QED
      BY <3>1, PlacesType
  <2> HIDE DEF p
  <2>2. p = <<>>
    BY <2>1, EmptySeq
  <2>3. KeptPrefix(text, 0) = At(text, <<>>)
    BY <2>2, OnlyEmpty DEF KeptPrefix, p
  <2>4. <<>> \in Seq({}) /\ Len(<<>>) = 0 /\ Maps(text, {}, {})
    BY EmptySeq DEF Maps
  <2>5. At(text, <<>>) \in Seq({}) /\ Len(At(text, <<>>)) = 0
    BY <2>4, AtType
  <2>6. QED
    BY <2>3, <2>5, EmptySeq
<1>4. 0 \in Good
  <2>1. 0 + 1 = 1
    OBVIOUS
  <2>2. QED
    BY <1>2, <1>3, <2>1
<1>5. ASSUME NEW k \in Good PROVE k + 1 \in Good
  <2>1. SUFFICES ASSUME k + 1 <= n
                 PROVE  KeptBefore(groups, (k + 1) + 1) = KeptPrefix(text, Start(groups, (k + 1) + 1))
    OBVIOUS
  <2>2. k + 1 \in 1 .. n /\ k <= n
    BY <1>1, <2>1
  <2>3. KeptBefore(groups, k + 1) = KeptPrefix(text, Start(groups, k + 1))
    BY <2>2
  <2>4. QED
    BY <2>2, <2>3, KeptStep
<1>6. Good = Nat
  <2> HIDE DEF Good
  <2>1. Good \in SUBSET Nat
    BY DEF Good
  <2>2. QED
    BY <1>4, <1>5, <2>1, NumberInduction
<1>7. KeptBefore(groups, n + 1) = KeptPrefix(text, Start(groups, n + 1))
  <2>1. n \in Good /\ n <= n
    BY <1>1, <1>6
  <2>2. QED
    BY <2>1
<1>8. (n + 1) - 1 = n /\ SubSeq(groups, 1, n) = groups
  BY <1>1, SubSeqFull
<1> HIDE DEF n
<1>9. QED
  BY <1>1, <1>7, <1>8 DEF KeptBefore, Start

(* What FormatSentences and Postprocess leave are the groups to be kept.   *)
LEMMA ProcessedGroups ==
  ASSUME NEW text \in Seq(Sentence)
  PROVE  Postprocess(FormatSentences(text)) = Only(Combine(text), KeptGroups(Combine(text)))
<1> DEFINE g == Combine(text)
           n == Len(g)
           kg == KeptGroups(g)
           Clean(s) == {x \in Range(s) : ~HasPhrase(x)}
<1>1. /\ g \in Seq(Seq(Sentence)) /\ n \in Nat
      /\ \A k \in 1 .. n - 1 : Ends(g[k])
      /\ \A k \in 1 .. n : g[k] \in Seq(Sentence)
  BY CombineGroups, LenProperties, ElementOfSeq DEF Grouped
<1>2. /\ FormatSentences(text) = IF n > 1 /\ ~Ends(Last(g)) THEN Front(g) ELSE g
      /\ \A s : Postprocess(s) = Only(s, Clean(s))
  BY DEF FormatSentences, Postprocess
<1>3. \A x : x \in kg <=> x \in Seq(Sentence) /\ ~HasPhrase(x) /\ (Ends(x) \/ n = 1)
  BY DEF KeptGroups
<1>4. Last(g) = g[n]
  BY DEF Last
<1> HIDE DEF g, n, kg
<1>5. ASSUME NEW s \in Seq(Seq(Sentence)), \A k \in 1 .. Len(s) : Ends(s[k]) \/ n = 1
      PROVE  Only(s, Clean(s)) = Only(s, kg)
  <2>1. \A k \in 1 .. Len(s) : s[k] \in Range(s) /\ s[k] \in Seq(Sentence)
    BY LenProperties, ElementOfSeq DEF Range
  <2>2. \A k \in 1 .. Len(s) : s[k] \in Clean(s) <=> s[k] \in kg
    BY <1>3, <1>5, <2>1
  <2> HIDE DEF Clean
  <2>3. QED
    BY <2>2, OnlySame
<1>6. CASE n > 1 /\ ~Ends(Last(g))
  <2> DEFINE h == Front(g)
             l == Last(g)
  <2>1. g # <<>>
    BY <1>6, EmptySeq DEF n
  <2>2. /\ h \in Seq(Seq(Sentence)) /\ l \in Seq(Sentence)
        /\ Len(h) = n - 1 /\ \A k \in 1 .. n - 1 : h[k] = g[k]
        /\ g = Append(h, l)
    BY <1>1, <2>1, FrontLast DEF n
  <2>3. l \notin kg
    BY <1>1, <1>3, <1>6
  <2>4. Postprocess(FormatSentences(text)) = Only(h, Clean(h))
    BY <1>2, <1>6
  <2> HIDE DEF h, l, Clean
  <2>5. \A k \in 1 .. Len(h) : Ends(h[k]) \/ n = 1
    BY <1>1, <2>2
  <2>6. Only(h, Clean(h)) = Only(h, kg)
    BY <1>5, <2>2, <2>5
  <2>7. Only(Append(h, l), kg) = Only(h, kg)
    BY <2>2, <2>3, OnlyAppend
  <2>8. QED
    BY <2>2, <2>4, <2>6, <2>7 DEF kg, g
<1>7. CASE ~ (n > 1 /\ ~Ends(Last(g)))
  <2>1. Postprocess(FormatSentences(text)) = Only(g, Clean(g))
    BY <1>2, <1>7
  <2>2. \A k \in 1 .. n : Ends(g[k]) \/ n = 1
    <3>1. \A k \in 1 .. n : k \in 1 .. n - 1 \/ k = n
      BY <1>1
    <3>2. n \in Nat /\ (n > 1 => Ends(g[n]))
      BY <1>1, <1>4, <1>7
    <3>3. QED
      BY <1>1, <3>1, <3>2
  <2> HIDE DEF Clean
  <2>3. Only(g, Clean(g)) = Only(g, kg)
    BY <1>1, <1>5, <2>2 DEF n
  <2>4. QED
    BY <2>1, <2>3 DEF kg, g
<1>8. QED
  BY <1>6, <1>7

(***************************************************************************)
(* The note is the sentences of the model's answer that are to be kept,    *)
(* each once and in order, whatever the length of the answer.              *)
(***************************************************************************)
LEMMA ProcessedText ==
  ASSUME NEW text \in Seq(Sentence)
  PROVE  FlattenSeq(Postprocess(FormatSentences(text)))
            = At(text, Only([i \in DOMAIN text |-> i], KeptPlaces(text)))
<1>1. Places(0, Len(text)) = [i \in DOMAIN text |-> i]
  <2>1. DOMAIN text = 1 .. Len(text) /\ Len(text) \in Nat
    BY LenProperties
  <2>2. \A i \in 1 .. Len(text) : 0 + i = i
    BY <2>1
  <2>3. QED
    BY <2>1, <2>2 DEF Places
<1>2. QED
  BY <1>1, CombineGroups, ProcessedGroups, KeptSentences DEF KeptPrefix

(* NoteKeepsSentences, of the text processor alone.                        *)
LEMMA TextKeepsSentences == KeepsSentences
<1>1. SUFFICES ASSUME NEW text \in Texts
               PROVE  FlattenSeq(Postprocess(FormatSentences(text)))
                         = LET kept == Only([i \in DOMAIN text |-> i], KeptPlaces(text))
                           IN [n \in DOMAIN kept |-> text[kept[n]]]
  BY DEF KeepsSentences, KeptPlaces, Kept
<1>2. text \in Seq(Sentence)
  <2>1. PICK n \in 0 .. MaxSentences : text \in [1 .. n -> Sentence]
    BY DEF Texts
  <2>2. n \in Nat
    BY TextProcessorAssumption
  <2>3. QED
    BY <2>1, <2>2, SeqDef
<1>3. QED
  BY <1>2, ProcessedText DEF At

(* The note holds the kept sentences, for every bound on the answer's      *)
(* length (get_notat_as_json).                                             *)
THEOREM NoteKeepsTheText == Spec => []NoteKeepsSentences
<1>1. NoteKeepsSentences
  BY TextKeepsSentences DEF NoteKeepsSentences
<1>2. QED
  BY <1>1, PTL
=============================================================================
