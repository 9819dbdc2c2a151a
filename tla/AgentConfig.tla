----------------------------- MODULE AgentConfig -----------------------------
(***************************************************************************)
(* The table jn.config and the page that changes it: a form that saves one *)
(* configuration for several agents, and a dialog that deletes one         *)
(* (JNConfigBusinessComponent, its endpoints, JNapi.ts, JNConfigView.vue). *)
(*                                                                         *)
(* Of a configuration only forretningsomraade is kept.                     *)
(***************************************************************************)
EXTENDS Naturals, FiniteSets, Sequences

CONSTANTS
    Agents,       \* kr_initialer
    FormAreas,    \* what the form's field forretningsomraade may hold
    FormFaults    \* "insert", "delete", or the "answer" to a request may fail

ASSUME AgentConfigAssumption == FormFaults \subseteq {"insert", "delete", "answer"}

VARIABLES
    config,   \* forretningsomraade of each agent, NoConfig without a row
    form,     \* newConfig: the initials and the area
    saves,    \* the runs of saveConfig since the page was last without one
    dialog    \* deleteInitialer, the requests sent, and deleteConfigData

configVars == <<config, form, saves, dialog>>

NoConfig == "no row"
NoAgent == "no agent"
Placeholder == "placeholder"
NoDialog == [input |-> NoAgent, asked |-> {}, shown |-> NoAgent]
EmptyForm == [agents |-> {}, area |-> ""]

ConfigInit ==
    /\ config = [a \in Agents |-> NoConfig]
    /\ form = EmptyForm
    /\ saves = <<>>
    /\ dialog = NoDialog

(* A placeholder, without an area, is answered for an agent without a row. *)
HentKrKonfiguration(a) == IF config[a] = NoConfig THEN Placeholder ELSE config[a]

(* The fields can be edited at any time, and emptied by "Annullér". *)
EditForm(agents, area) ==
    /\ form' = [agents |-> agents, area |-> area]
    /\ UNCHANGED <<config, saves, dialog>>

(* The form is filled in and saved.  Nothing keeps the user from saving    *)
(* again before that is done: the runs then go on side by side, each with  *)
(* the agents it has not asked for yet and those that failed.              *)
SaveConfig(agents, area) ==
    /\ form' = [agents |-> agents, area |-> area]
    /\ saves' = Append(saves, [agents |-> agents, area |-> area, left |-> agents, failed |-> {}])
    /\ UNCHANGED <<config, dialog>>

(* indsaet_kr_konfiguration: an update if there is a row, else an insert. *)
Insert(n, a) == config' = [config EXCEPT ![a] = saves[n].area]

(* The results of run n with the one for a. *)
WithResult(n, a, ok) ==
    LET run == [saves[n] EXCEPT !.left = @ \ {a}, !.failed = IF ok THEN @ ELSE @ \cup {a}]
    IN [saves EXCEPT ![n] = run]

Finish(runs) == saves' = IF \A m \in DOMAIN runs : runs[m].left = {} THEN <<>> ELSE runs

(* Mutant: the form is reset whatever the results. *)
AnsweredAndReset(n, a, ok) ==
    LET runs == WithResult(n, a, ok)
    IN /\ Finish(runs)
       /\ form' = IF runs[n].left = {} THEN EmptyForm ELSE form

(* After the run's last agent the form, whatever it holds by now, is reset *)
(* or left with the run's agents that failed.                              *)
Answered(n, a, ok) ==
    LET runs == WithResult(n, a, ok)
        bad == runs[n].failed
    IN /\ Finish(runs)
       /\ form' = IF runs[n].left # {} THEN form
                  ELSE IF bad = {} THEN EmptyForm ELSE [form EXCEPT !.agents = bad]

(* One agent after the other; a failure does not end the loop. *)
InsertConfig(n, a) ==
    /\ a \in saves[n].left
    /\ \/ Insert(n, a) /\ Answered(n, a, TRUE)
       \/ "answer" \in FormFaults /\ Insert(n, a) /\ Answered(n, a, FALSE)
       \/ "insert" \in FormFaults /\ UNCHANGED config /\ Answered(n, a, FALSE)
    /\ UNCHANGED dialog

(* The dialog asks get_config for the initials in its field, ... *)
FetchForDeletion(a) ==
    /\ dialog' = [input |-> a, asked |-> dialog.asked \cup {a}, shown |-> NoAgent]
    /\ UNCHANGED <<config, form, saves>>

(* ... which stay editable, ... *)
EditDeletion(a) ==
    /\ dialog # NoDialog
    /\ dialog' = [dialog EXCEPT !.input = a]
    /\ UNCHANGED <<config, form, saves>>

(* ... and shows the answer: a placeholder for an agent without a row. *)
ShowDeletion(a) ==
    /\ a \in dialog.asked
    /\ dialog' = [dialog EXCEPT !.asked = @ \ {a},
                               !.shown = IF HentKrKonfiguration(a) = Placeholder THEN Placeholder ELSE a]
    /\ UNCHANGED <<config, form, saves>>

SletKrKonfiguration(a) == config' = [config EXCEPT ![a] = NoConfig]

(* What the field holds by now is deleted. *)
ConfirmDelete ==
    /\ dialog.shown # NoAgent
    /\ \/ /\ SletKrKonfiguration(dialog.input)
          /\ dialog' = NoDialog
       \/ "delete" \in FormFaults /\ UNCHANGED <<config, dialog>>
    /\ UNCHANGED <<form, saves>>

PageStep(a) == (\E n \in DOMAIN saves : InsertConfig(n, a)) \/ EditDeletion(a) \/ ShowDeletion(a)

-----------------------------------------------------------------------------
(* Properties *)

(* Every variable keeps its type. *)
ConfigTypeOK ==
    /\ config \in [Agents -> FormAreas \cup {NoConfig}]
    /\ form \in [agents : SUBSET Agents, area : FormAreas \cup {""}]
    /\ saves \in Seq([agents : SUBSET Agents, area : FormAreas,
                      left : SUBSET Agents, failed : SUBSET Agents])
    /\ dialog.input \in Agents \cup {NoAgent} /\ dialog.asked \subseteq Agents
    /\ dialog.shown \in Agents \cup {NoAgent, Placeholder}

Returns(n) == saves[n].left # {} /\ (n \in DOMAIN saves' => saves'[n].left = {})

(* The runs that have asked for an agent, of those that overlap run n. *)
AskedFor(a, n) == {m \in DOMAIN saves : a \in saves[m].agents /\ (m = n \/ a \notin saves[m].left)}

(* When a run returns, each agent it was called for is left in the form to *)
(* be tried again or has the configuration of this run, or of one that     *)
(* overlaps it, unless it was deleted meanwhile: no failure is forgotten   *)
(* among the successes, also of a run whose form was edited or reset by    *)
(* others while it was going on.                                           *)
SavedOrLeftInForm ==
    [][\A n \in DOMAIN saves : Returns(n) =>
          \A a \in saves[n].agents :
              \/ a \in form'.agents
              \/ config'[a] \in {NoConfig} \cup {saves[m].area : m \in AskedFor(a, n)}]_configVars
=============================================================================
