------------------------------- MODULE Prompts -------------------------------
(***************************************************************************)
(* The table jn.prompts: gem_prompt, called by several scripts, and the    *)
(* selection of a note's two prompts (JNPromptsBusinessComponent).         *)
(*                                                                         *)
(* prompt_id is the position in the table.                                 *)
(***************************************************************************)
EXTENDS Naturals, Sequences, SequencesExt, FiniteSets

CONSTANTS
    Savers,    \* scripts that save prompts
    NewRows,   \* the prompts they save
    Areas,     \* forretningsomraade of an agent
    DbFaults   \* "save", "read": calls of the database that may fail

ASSUME PromptsAssumption ==
    /\ NewRows \subseteq [ordning : STRING, nr : {1, 2}, text : STRING]
    /\ "standard" \in Areas
    /\ DbFaults \subseteq {"save", "read"}

VARIABLES
    prompts,  \* the table
    times,    \* load_time of each row
    clock,    \* the time of the last save
    saving    \* per script, the row it is about to insert, with its time

promptVars == <<prompts, times, clock, saving>>

NoRow == [ordning |-> "none", time |-> 0]
NoPrompt == 0

(* infra/db/03_seed.sql *)
Seed == <<[ordning |-> "standard", nr |-> 1, text |-> "seed"],
          [ordning |-> "standard", nr |-> 2, text |-> "seed"]>>

PromptsInit ==
    /\ prompts \in {<<>>, Seed}
    /\ times = [i \in DOMAIN prompts |-> i]
    /\ clock = Len(prompts)
    /\ saving = [s \in Savers |-> NoRow]

(* Rows that exist are not inserted, nor is any if the query fails; the    *)
(* answer is 200 all the same.                                             *)
GemPrompt(s, row) ==
    /\ saving[s] = NoRow
    /\ clock' = clock + 1
    /\ \/ /\ row \notin Range(prompts)
          /\ saving' = [saving EXCEPT ![s] = [ordning |-> row.ordning, time |-> clock + 1, row |-> row]]
       \/ /\ row \in Range(prompts) \/ "save" \in DbFaults
          /\ UNCHANGED saving
    /\ UNCHANGED <<prompts, times>>

(* The insertion, with the time of before; it may fail, too. *)
InsertPrompt(s) ==
    /\ saving[s] # NoRow
    /\ saving' = [saving EXCEPT ![s] = NoRow]
    /\ \/ /\ prompts' = Append(prompts, saving[s].row)
          /\ times' = Append(times, saving[s].time)
       \/ "save" \in DbFaults /\ UNCHANGED <<prompts, times>>
    /\ UNCHANGED clock

-----------------------------------------------------------------------------
(* hent_notat_prompts *)

Rows(ordning, nr) ==
    {i \in DOMAIN prompts : prompts[i].ordning = ordning /\ prompts[i].nr = nr}

(* rn = 1: the newest row of each ordning and sekvens_nr. *)
Newest(ordning, nr) == {i \in Rows(ordning, nr) : \A j \in Rows(ordning, nr) : times[j] <= times[i]}

(* Mutant: of every area. *)
RankedOfAll(area) == UNION {Newest(prompts[i].ordning, prompts[i].nr) : i \in DOMAIN prompts}

Ranked(area) == UNION {Newest(o, nr) : o \in {area, "standard"}, nr \in {1, 2}}

Priority(i, area) == IF prompts[i].ordning = area THEN 1 ELSE 2

(* Mutant: the two newest rows. *)
TopByTime(area) ==
    {top \in SUBSET Ranked(area) :
        /\ Cardinality(top) <= 2
        /\ \A i \in Ranked(area) \ top : Cardinality(top) = 2 /\ \A j \in top : times[i] <= times[j]}

(* TOP(2) ... ORDER BY priority: the database breaks the ties. *)
Top(area) ==
    {top \in SUBSET Ranked(area) :
        /\ Cardinality(top) <= 2
        /\ \A i \in Ranked(area) \ top :
            Cardinality(top) = 2 /\ \A j \in top : Priority(j, area) <= Priority(i, area)}

(* The first row of each sekvens_nr. *)
First(top, area, nr) ==
    LET rows == {i \in top : prompts[i].nr = nr}
    IN IF rows = {} THEN NoPrompt
       ELSE CHOOSE i \in rows : \A j \in rows : Priority(i, area) <= Priority(j, area)

(* The pairs of prompts it may answer; a failed query yields none. *)
HentNotatPrompts(area) ==
    {<<First(top, area, 1), First(top, area, 2)>> : top \in Top(area)}
        \cup IF "read" \in DbFaults THEN {<<NoPrompt, NoPrompt>>} ELSE {}

-----------------------------------------------------------------------------
(* Properties *)

(* Every variable keeps its type. *)
PromptsTypeOK ==
    /\ prompts \in Seq(Range(Seed) \cup NewRows)
    /\ times \in Seq(1 .. clock) /\ Len(times) = Len(prompts)
    /\ \A s \in Savers : saving[s] = NoRow \/ saving[s].row \in NewRows

Complete(ordning) == \A nr \in {1, 2} : Rows(ordning, nr) # {}

(* The newest prompts of an area that has both, else, if it has none, the  *)
(* newest standard prompts: however many there are, in whatever order they *)
(* were saved, and with duplicates.  An area with one of the two is left   *)
(* to the database's choice.                                               *)
NewestOfArea ==
    \A area \in Areas :
        LET has == IF Rows(area, 1) \cup Rows(area, 2) = {} THEN "standard" ELSE area
        IN Complete(has) =>
              \A p \in HentNotatPrompts(area) : p # <<NoPrompt, NoPrompt>> =>
                  \A nr \in {1, 2} :
                      /\ p[nr] \in Rows(has, nr)
                      /\ \A i \in Rows(has, nr) : times[i] <= times[p[nr]]
=============================================================================
