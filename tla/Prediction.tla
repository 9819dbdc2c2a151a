------------------------------ MODULE Prediction ------------------------------
(***************************************************************************)
(* JNModelBusinessComponent.predict for one request: the agent's           *)
(* configuration, the prompts of its area, and the two questions to the    *)
(* model, each repeated by _prompt_llm, while configurations and prompts   *)
(* are changed.  Time is counted in half seconds.                          *)
(***************************************************************************)
EXTENDS AgentConfig, Prompts, TextProcessor

CONSTANTS
    MaxRetries,     \* max_retries
    GlobalTimeout,  \* global_timeout
    CallTimeout,    \* model_kald_timeout
    CallTimes,      \* how long a call of the model may take
    MaxOperations   \* bound: operations of users, scripts and the request

ASSUME PredictionAssumption ==
    /\ MaxRetries \in Nat \ {0} /\ GlobalTimeout \in Nat /\ CallTimeout \in Nat
    /\ CallTimes \subseteq Nat /\ CallTimes # {}
    /\ MaxOperations \in Nat
    /\ FormAreas \cup {"standard"} = Areas

VARIABLES
    operations,
    pc,          \* the next step of the request
    agent,       \* agent_id
    area,        \* forretningsomraade
    promptIds,   \* notat_prompt_id, notat_val_prompt_id
    question,    \* 1: generation, 2: validation
    attempts,    \* of the question
    spent,       \* time since the question began
    har_fejlet,
    response,    \* response_notat, response_val_notat
    notat        \* the answer of predict

requestVars == <<pc, agent, area, promptIds, question, attempts, spent, har_fejlet, response, notat>>
vars == <<configVars, promptVars, operations, requestVars>>

Errors == {"no prompts", "no conversation", "fejl_notat"}

Init ==
    /\ ConfigInit
    /\ PromptsInit
    /\ operations = 0
    /\ pc = "idle"
    /\ agent \in Agents
    /\ area = "standard"
    /\ promptIds = <<NoPrompt, NoPrompt>>
    /\ question = 1
    /\ attempts = 0
    /\ spent = 0
    /\ har_fejlet = FALSE
    /\ response = <<"none", "none">>
    /\ notat = "none"

Operation ==
    /\ operations < MaxOperations
    /\ operations' = operations + 1

(* Without credentials or the model's settings __init__ raises. *)
InitializeModel == pc' \in {"config", "raised"}

Begin ==
    /\ Operation
    /\ pc = "idle"
    /\ InitializeModel
    /\ UNCHANGED <<configVars, promptVars, agent, area, promptIds, question, attempts, spent,
                   har_fejlet, response, notat>>

(* Mutant: an empty answer is read like a configuration. *)
ReadConfigOrNone ==
    /\ pc = "config"
    /\ area' = HentKrKonfiguration(agent)
    /\ pc' = "prompts"
    /\ UNCHANGED <<configVars, promptVars, operations, agent, promptIds, question, attempts, spent,
                   har_fejlet, response, notat>>

(* The default area is "standard", also if the component cannot be made;   *)
(* a failing query answers None, on which predict raises.                  *)
ReadConfig ==
    /\ pc = "config"
    /\ \/ /\ LET found == HentKrKonfiguration(agent)
             IN area' = IF found = Placeholder THEN "standard" ELSE found
          /\ pc' = "prompts"
       \/ "read" \in DbFaults /\ area' = "standard" /\ pc' = "prompts"
       \/ "read" \in DbFaults /\ pc' = "raised" /\ UNCHANGED area
    /\ UNCHANGED <<configVars, promptVars, operations, agent, promptIds, question, attempts, spent,
                   har_fejlet, response, notat>>

Fail(error) == har_fejlet' = TRUE /\ notat' = error /\ pc' = "done"

(* Then the conversation is looked at: it may be empty. *)
ReadPrompts ==
    /\ pc = "prompts"
    /\ \/ "read" \in DbFaults /\ Fail("no prompts") /\ UNCHANGED promptIds
       \/ promptIds' \in HentNotatPrompts(area) /\ Fail("no conversation")
       \/ promptIds' \in HentNotatPrompts(area) /\ pc' = "ask" /\ UNCHANGED <<har_fejlet, notat>>
    /\ UNCHANGED <<configVars, promptVars, operations, agent, area, question, attempts, spent, response>>

(* Mutant: only the number of attempts is limited. *)
AskUntilRetries ==
    /\ pc = "ask"
    /\ attempts < MaxRetries
    /\ attempts' = attempts + 1
    /\ pc' = "call"
    /\ UNCHANGED <<configVars, promptVars, operations, agent, area, promptIds, question, spent,
                   har_fejlet, response, notat>>

(* The next attempt, unless the time is up. *)
Ask ==
    /\ pc = "ask"
    /\ attempts < MaxRetries /\ spent <= GlobalTimeout
    /\ attempts' = attempts + 1
    /\ pc' = "call"
    /\ UNCHANGED <<configVars, promptVars, operations, agent, area, promptIds, question, spent,
                   har_fejlet, response, notat>>

Respond(r) == response' = [response EXCEPT ![question] = r]

(* Mutant: the error text of the first question is taken for an answer. *)
GiveUpOnQuestion ==
    /\ pc = "ask"
    /\ attempts = MaxRetries \/ spent > GlobalTimeout
    /\ Respond("fejl_notat")
    /\ har_fejlet' = TRUE
    /\ pc' = "evaluate"
    /\ UNCHANGED <<configVars, promptVars, operations, agent, area, promptIds, question, attempts,
                   spent, notat>>

GiveUp ==
    /\ pc = "ask"
    /\ attempts = MaxRetries \/ spent > GlobalTimeout
    /\ Respond("fejl_notat")
    /\ Fail("fejl_notat")
    /\ UNCHANGED <<configVars, promptVars, operations, agent, area, promptIds, question, attempts,
                   spent>>

(* A call that answers in time, ... *)
Answer(t) ==
    /\ pc = "call"
    /\ t <= CallTimeout
    /\ spent' = spent + t
    /\ Respond("answer")
    /\ pc' = "evaluate"
    /\ UNCHANGED <<configVars, promptVars, operations, agent, area, promptIds, question, attempts,
                   har_fejlet, notat>>

(* ... or raises; the next attempt starts half a second later. *)
Raise(t) ==
    /\ pc = "call"
    /\ t <= CallTimeout
    /\ spent' = spent + t + 1
    /\ pc' = "ask"
    /\ UNCHANGED <<configVars, promptVars, operations, agent, area, promptIds, question, attempts,
                   har_fejlet, response, notat>>

(* After CallTimeout the question has failed, but the executor waits for   *)
(* the call's thread all the same.                                         *)
TimeOut(t) ==
    /\ pc = "call"
    /\ t > CallTimeout
    /\ spent' = spent + t
    /\ Respond("fejl_notat")
    /\ Fail("fejl_notat")
    /\ UNCHANGED <<configVars, promptVars, operations, agent, area, promptIds, question, attempts>>

(* The first answer is the second question ... *)
Validate ==
    /\ pc = "evaluate" /\ question = 1
    /\ question' = 2
    /\ attempts' = 0
    /\ spent' = 0
    /\ pc' = "ask"
    /\ UNCHANGED <<configVars, promptVars, operations, agent, area, promptIds, har_fejlet, response,
                   notat>>

(* ... and the second one the note, if it is JSON with the right keys.     *)
(* Other keys raise.                                                       *)
Format ==
    /\ pc = "evaluate" /\ question = 2
    /\ \/ notat' = "notat" /\ pc' = "done" /\ UNCHANGED har_fejlet
       \/ Fail("fejl_notat")
       \/ pc' = "raised" /\ UNCHANGED <<har_fejlet, notat>>
    /\ UNCHANGED <<configVars, promptVars, operations, agent, area, promptIds, question, attempts,
                   spent, response>>

Predict ==
    \/ ReadConfig \/ ReadPrompts \/ Ask \/ GiveUp \/ Validate \/ Format
    \/ \E t \in CallTimes : Answer(t) \/ Raise(t) \/ TimeOut(t)

ChangeConfig ==
    /\ \/ /\ Operation
          /\ \/ \E agents \in (SUBSET Agents) \ {{}}, a \in FormAreas : SaveConfig(agents, a)
             \/ \E agents \in SUBSET Agents, a \in FormAreas \cup {""} : EditForm(agents, a)
             \/ \E a \in Agents : FetchForDeletion(a)
       \/ (ConfirmDelete \/ \E a \in Agents : PageStep(a)) /\ UNCHANGED operations
    /\ UNCHANGED <<promptVars, requestVars>>

ChangePrompts ==
    /\ \/ Operation /\ \E s \in Savers, row \in NewRows : GemPrompt(s, row)
       \/ (\E s \in Savers : InsertPrompt(s)) /\ UNCHANGED operations
    /\ UNCHANGED <<configVars, requestVars>>

Next == Begin \/ Predict \/ ChangeConfig \/ ChangePrompts

Spec == Init /\ [][Next]_vars

-----------------------------------------------------------------------------
(* Properties *)

(* Every variable keeps its type. *)
TypeOK ==
    /\ ConfigTypeOK
    /\ PromptsTypeOK
    /\ operations \in 0 .. MaxOperations
    /\ pc \in {"idle", "config", "prompts", "ask", "call", "evaluate", "done", "raised"}
    /\ agent \in Agents
    /\ area \in Areas
    /\ promptIds \in (0 .. Len(prompts)) \X (0 .. Len(prompts))
    /\ question \in {1, 2}
    /\ attempts \in 0 .. MaxRetries
    /\ spent \in Nat
    /\ har_fejlet \in BOOLEAN
    /\ response \in [{1, 2} -> {"none", "answer", "fejl_notat"}]
    /\ notat \in Errors \cup {"none", "notat"}

(* KeepsSentences is a formula without variables: what the text processor  *)
(* makes of every text.  Init is a premise only for TLC to evaluate it in  *)
(* the initial states instead of in each one.                              *)
NoteKeepsSentences == Init => KeepsSentences

(* A note is made of the model's answer to the conversation and its answer *)
(* to that one, never of the error text _prompt_llm returns in their place; *)
(* har_fejlet, on which process_call decides, is set for every other text. *)
NoteFromTwoAnswers ==
    /\ notat = "notat" => response = <<"answer", "answer">>
    /\ pc = "done" => (har_fejlet <=> notat \in Errors)

(* The prompts whose ids are saved with the note are prompts of the        *)
(* agent's area or standard prompts, for generation and for validation,    *)
(* also when prompts are saved meanwhile.                                  *)
PromptsOfArea ==
    \A nr \in {1, 2} :
        promptIds[nr] # NoPrompt =>
            /\ prompts[promptIds[nr]].nr = nr
            /\ prompts[promptIds[nr]].ordning \in {area, "standard"}

(* However the model answers, raises or hangs, a question takes no longer  *)
(* than the global limit and one call: half a minute does not become       *)
(* MaxRetries calls.                                                       *)
QuestionTakesOneCallMore == \E t \in CallTimes : spent <= GlobalTimeout + t + 1
=============================================================================
