----------------------------- MODULE Subsequences -----------------------------
(* Parts of a sequence.  The model of the conversation and that of the     *)
(* text processor leave out elements with Only instead of SelectSeq, of    *)
(* which the provers know no definition; SequencesExt's FlattenSeq has     *)
(* one.                                                                    *)
EXTENDS SequencesExt

(* The elements of s that are in keep, in the order of s. *)
Only(s, keep) == FlattenSeq([i \in DOMAIN s |-> IF s[i] \in keep THEN <<s[i]>> ELSE <<>>])
=============================================================================
