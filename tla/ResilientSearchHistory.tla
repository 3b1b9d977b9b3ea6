----------------------- MODULE ResilientSearchHistory -----------------------
(***************************************************************************)
(* ResilientSearch with a history variable, for what it promises about all  *)
(* the calls a search makes to its engine.                                 *)
(***************************************************************************)
EXTENDS ResilientSearch

VARIABLE calls  \* engine calls of each request to its current engine

hvars == <<vars, calls>>

HInit == Init /\ calls = [r \in Requests |-> 0]

Calling(r) == req[r].step = "attempt" /\ req'[r].step = "using"
Leaving(r) == req'[r].step \in {"idle", "next"}

Remember ==
  calls' = [r \in Requests |->
    IF Leaving(r) THEN 0 ELSE IF Calling(r) THEN calls[r] + 1 ELSE calls[r]]

HNext == Next /\ Remember

HSpec == HInit /\ [][HNext]_hvars
FairHSpec == HSpec /\ Fairness

-----------------------------------------------------------------------------
(* Properties. *)

\* However network errors, challenges and rotations follow each other, a search
\* calls its engine at most twice the retry budget, and once more than the
\* retries if nothing was rotated.
CallsWithinBudget ==
  \A r \in Requests : calls[r] <= (MaxRetries + 1) * (IF req[r].burned = NoProxy THEN 1 ELSE 2)

\* An engine is not blamed by a request that never called it: neither a rate
\* limiter that outlasts the deadline nor an exhausted pool nor a deadline that
\* passes makes the breaker count a failure.
UncalledEngineNotBlamed ==
  [][\A r \in Requests :
       req[r].step = "failed" /\ calls[r] = 0 /\ req'[r].step # "failed" =>
         UNCHANGED <<state, failureCount, successCount, sinceFailure>>]_hvars
=============================================================================
