---------------------------- MODULE TextProcessor ----------------------------
(***************************************************************************)
(* From the model's answer to the text of the note                         *)
(* (JNTextProcessorBusinessComponent).  A sentence, as the tokenizer finds *)
(* it, either ends with a full stop or not, and holds some words of an     *)
(* unwanted phrase, in its order; a text is a sequence of sentences.       *)
(*                                                                         *)
(* The words of a phrase may be apart ("ikke.*?indgået.*?aftale").  The    *)
(* other patterns have no gaps: what they match is one sentence with all   *)
(* the words.                                                              *)
(***************************************************************************)
EXTENDS Naturals, Sequences, SequencesExt, Subsequences

CONSTANTS
    PhraseWords,  \* words of the unwanted phrase
    MaxSentences  \* bound: sentences of a text

ASSUME TextProcessorAssumption == PhraseWords \in Nat \ {0} /\ MaxSentences \in Nat

Words == 1 .. PhraseWords
Sentence == [stop : BOOLEAN, words : SUBSET Words]

Ends(group) == Last(group).stop

(* A sentence is joined to the one before it if that has no full stop. *)
Join(groups, s) ==
    IF groups # <<>> /\ ~Ends(Last(groups))
    THEN Append(Front(groups), Append(Last(groups), s))
    ELSE Append(groups, <<s>>)

(* for sentence in refined_sentences *)
Combine(sentences) ==
    LET groups[n \in 0 .. Len(sentences)] ==
            IF n = 0 THEN <<>> ELSE Join(groups[n - 1], sentences[n])
    IN groups[Len(sentences)]

(* Mutant: the unfinished end is removed even if nothing else is left. *)
FormatToNothing(sentences) ==
    LET groups == Combine(sentences)
    IN IF groups # <<>> /\ ~Ends(Last(groups)) THEN Front(groups) ELSE groups

(* A single sentence is kept as it is; else an unfinished end is removed. *)
FormatSentences(sentences) ==
    LET groups == Combine(sentences)
    IN IF Len(groups) > 1 /\ ~Ends(Last(groups)) THEN Front(groups) ELSE groups

(* The pattern is found if some sentences hold its words in their order. *)
Found(text, places) ==
    \E at \in [Words -> places] :
        /\ \A u, v \in Words : u <= v => at[u] <= at[v]
        /\ \A u \in Words : u \in text[at[u]].words

(* It is searched in the joined sentences, ... *)
HasPhrase(group) == Found(group, DOMAIN group)

(* ... which are removed together. *)
Postprocess(groups) == Only(groups, {g \in Range(groups) : ~HasPhrase(g)})

-----------------------------------------------------------------------------
(* Properties *)

Texts == UNION {[1 .. n -> Sentence] : n \in 0 .. MaxSentences}

(* The sentences from the full stop before sentence i to the next one. *)
Around(text, i) ==
    {j \in DOMAIN text :
        \A k \in DOMAIN text : (i <= k /\ k < j) \/ (j <= k /\ k < i) => ~text[k].stop}

(* A sentence is in the note exactly if there is no unwanted phrase, be it *)
(* in one sentence or spread over several, between the full stops around   *)
(* it and, unless the text is all one sentence, a full stop follows:       *)
(* nothing finished is removed with the unfinished end, no phrase matches  *)
(* across a full stop, and nothing is repeated or reordered.               *)
KeepsSentences ==
    \A text \in Texts :
        LET Kept(i) ==
                /\ ~Found(text, Around(text, i))
                /\ (\E j \in Around(text, i) : text[j].stop) \/ Around(text, i) = DOMAIN text
            note == FlattenSeq(Postprocess(FormatSentences(text)))
            kept == Only([i \in DOMAIN text |-> i], {i \in DOMAIN text : Kept(i)})
        IN note = [n \in DOMAIN kept |-> text[kept[n]]]
=============================================================================
