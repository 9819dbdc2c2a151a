---------------------------- MODULE MCProcessCall ----------------------------
(* Instances of ProcessCall for TLC. *)
EXTENDS ProcessCall, Samtale

CONSTANTS c1, c2, r1, r2

CallsAndRequests == Permutations({c1, c2}) \cup Permutations({r1, r2})

(* InOrder and IsStored are formulas without variables: what becomes of    *)
(* every pair of transcripts.  Init is a premise only for TLC to evaluate  *)
(* them in the initial state instead of in each one.                       *)
ConversationInOrder == Init => InOrder
ConversationIsStored == Init => IsStored
=============================================================================
