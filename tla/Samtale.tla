------------------------------- MODULE Samtale -------------------------------
(***************************************************************************)
(* From the two transcripts of a call to the conversation the model is     *)
(* asked about, and to the rows of jn.samtale (read_and_sort_messages,     *)
(* gem_samtale).                                                           *)
(*                                                                         *)
(* A transcript's sentences were transcribed one after the other: asked    *)
(* for, answered and stamped with the time of the answer.  A sentence is a *)
(* sequence of characters, each of them known by its place.                *)
(***************************************************************************)
EXTENDS Naturals, Sequences, SequencesExt, FiniteSets, Subsequences

CONSTANTS
    MaxLen,        \* max_len
    MaxTexts,      \* bound: sentences of a transcript
    Lengths,       \* bound: how many characters a sentence may have
    MaxTime        \* bound: times of answers

ASSUME SamtaleAssumption ==
    MaxLen \in Nat \ {0} /\ {MaxTexts, MaxTime} \cup Lengths \subseteq Nat

(* When a sentence was asked for and when it was answered. *)
Times == {a \in (0 .. MaxTime) \X (0 .. MaxTime) : a[1] <= a[2]}
InTurn(times) == \A i, j \in DOMAIN times : i < j => times[i][2] <= times[j][1]

TranscriptLine(who, n, length, times) ==
    [speaker |-> who, sentence |-> [k \in 1 .. length |-> <<who, n, k>>],
     asked |-> times[1], timestamp |-> times[2]]

(* The transcript's lines: its sentences, which may be empty, each asked   *)
(* for when the one before it was answered, or later.                      *)
Transcripts(who) ==
    UNION {{[n \in 1 .. m |-> TranscriptLine(who, n, sizes[n], times[n])] :
                sizes \in [1 .. m -> Lengths], times \in {t \in [1 .. m -> Times] : InTurn(t)}}
           : m \in 0 .. MaxTexts}

(* Mutant: of two sentences with the same time the later one comes first. *)
InsertBefore(sorted, line) ==
    InsertAt(sorted, Cardinality({i \in DOMAIN sorted : sorted[i].timestamp < line.timestamp}) + 1, line)

(* sorted() is stable. *)
InsertByTime(sorted, line) ==
    InsertAt(sorted, Cardinality({i \in DOMAIN sorted : sorted[i].timestamp <= line.timestamp}) + 1, line)

(* if not (sentence and timestamp): continue *)
WithText(lines) == Only(lines, {line \in Range(lines) : line.sentence # <<>>})

SortByTime(lines) ==
    LET sorted[n \in 0 .. Len(lines)] ==
            IF n = 0 THEN <<>> ELSE InsertByTime(sorted[n - 1], lines[n])
    IN sorted[Len(lines)]

(* The agent's transcript is read first. *)
SortMessages(agent, caller) == SortByTime(WithText(agent \o caller))

(* Mutant: only full chunks. *)
FullChunks(line) ==
    [k \in 1 .. Len(line.sentence) \div MaxLen |->
        [rolle |-> line.speaker,
         tekst |-> SubSeq(line.sentence, (k - 1) * MaxLen + 1, k * MaxLen)]]

(* range(0, len(tekst), max_len) *)
Chunks(line) ==
    LET length == Len(line.sentence)
        End(k) == IF k * MaxLen < length THEN k * MaxLen ELSE length
    IN [k \in 1 .. (length + MaxLen - 1) \div MaxLen |->
           [rolle |-> line.speaker,
            tekst |-> SubSeq(line.sentence, (k - 1) * MaxLen + 1, End(k))]]

(* The rows by sekvens_nr. *)
GemSamtale(conversation) == FlattenSeq([i \in DOMAIN conversation |-> Chunks(conversation[i])])

-----------------------------------------------------------------------------
(* Properties *)

(* The conversation has every sentence of both transcripts once, each      *)
(* speaker's in the order of speaking, also those with the same time; and  *)
(* though it is the time of the answer that orders two speakers, what was  *)
(* answered before the other's sentence was asked for comes before it.     *)
InOrder ==
    \A agent \in Transcripts("agent"), caller \in Transcripts("caller") :
        LET conversation == SortMessages(agent, caller)
            Of(who) == Only(conversation, {line \in Range(conversation) : line.speaker = who})
        IN /\ Of("agent") = WithText(agent)
           /\ Of("caller") = WithText(caller)
           /\ \A i, j \in DOMAIN conversation : conversation[i].timestamp < conversation[j].asked => i < j

(* jn.samtale keeps the conversation in full: the rows fit their column,   *)
(* none is empty, and read by sekvens_nr they give every character back,   *)
(* under the role of who said it.                                          *)
IsStored ==
    \A agent \in Transcripts("agent"), caller \in Transcripts("caller") :
        LET conversation == SortMessages(agent, caller)
            rows == GemSamtale(conversation)
        IN /\ FlattenSeq([i \in DOMAIN rows |-> rows[i].tekst])
                 = FlattenSeq([i \in DOMAIN conversation |-> conversation[i].sentence])
           /\ \A i \in DOMAIN rows :
                 /\ Len(rows[i].tekst) \in 1 .. MaxLen
                 /\ \A k \in DOMAIN rows[i].tekst : rows[i].tekst[k][1] = rows[i].rolle
=============================================================================
