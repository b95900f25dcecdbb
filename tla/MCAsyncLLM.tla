----------------------------- MODULE MCAsyncLLM -----------------------------
(* A call with two samples and one with a single sample; their images push *)
(* each other out of a cache of two.                                       *)
EXTENDS AsyncLLM

CONSTANTS g1, g2, g3, ia, ib, ic

MCCalls == {g1, g2}
MCId == g1 :> "a" @@ g2 :> "b"
MCN == g1 :> 2 @@ g2 :> 1
MCKind == g1 :> "delta" @@ g2 :> "final"
MCMaxTokens == "a" :> 2 @@ "b" :> 1
MCImages == g1 :> <<ia, ib>> @@ g2 :> <<ia, ic>>

\* The second call repeats the X-Request-Id of the first while that runs.
RetryCalls == {g1, g2, g3}
RetryId == g1 :> "a" @@ g2 :> "a" @@ g3 :> "b"
RetryN == [g \in RetryCalls |-> 1]
RetryKind == [g \in RetryCalls |-> "delta"]
RetryImages == g1 :> <<ia>> @@ g2 :> <<ib>> @@ g3 :> <<ib>>
=============================================================================
