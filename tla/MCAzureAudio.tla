----------------------------- MODULE MCAzureAudio -----------------------------
(* The callers of two calls of one agent.  The first one says two buffers, *)
(* and all its calls to Azure may fail, as may its removals of the flag    *)
(* file; the second process shares the file and the status queue with it   *)
(* and may be interrupted.                                                 *)
EXTENDS AzureAudio

TwoCalls == {<<1, "caller">>, <<2, "caller">>}
Buffers == [t \in TwoCalls |-> IF t[1] = 1 THEN 2 ELSE 0]
Failures == [t \in TwoCalls |-> IF t[1] = 1 THEN {"client", "upload", "queue"} ELSE {}]
AllMishaps == <<{"remove", "kill", "slow"}, {"create", "interrupt"}>>
=============================================================================
