--------------------------- MODULE CircuitBreaker ---------------------------
(***************************************************************************)
(* The circuit breakers of core/circuit_breaker.go, and the requests that  *)
(* use them the way core/resilient.go does.                                *)
(*                                                                         *)
(* There is one breaker per key (an engine and a capability), created by   *)
(* CircuitBreakerManager.Get on first use.  A request gets the breaker of  *)
(* its key, asks AllowRequest, runs the engine outside every lock, and     *)
(* reports its outcome when the engine answers, possibly long after other  *)
(* requests have moved the breaker to another state.                       *)
(*                                                                         *)
(* Each method of the breaker runs under the breaker's mutex, hence is one *)
(* step.  Time is the age of the last recorded failure: the code compares  *)
(* it with RecoveryTimeout only, so it saturates there and no clock is     *)
(* needed.  The average latency, by which the fastest mode chooses among   *)
(* the engines, is left out.  Definitions named ...Mutant are broken       *)
(* variants of the code, kept to show that the properties notice such a    *)
(* bug.                                                                    *)
(***************************************************************************)
EXTENDS Integers

CONSTANTS
  Keys,              \* breakerKey values: an engine name and a capability
  Callers,           \* requests served concurrently
  FailureThreshold,  \* CircuitBreakerConfig.FailureThreshold
  SuccessThreshold,  \* CircuitBreakerConfig.SuccessThreshold
  RecoveryTimeout    \* CircuitBreakerConfig.RecoveryTimeout, in ticks

\* The code accepts thresholds below one, and then behaves as with one.
ASSUME BreakerAssumption ==
  /\ FailureThreshold \in Nat \ {0}
  /\ SuccessThreshold \in Nat \ {0}
  /\ RecoveryTimeout \in Nat

VARIABLES
  created,       \* keys present in the manager's map
  state,         \* CircuitBreaker.state
  failureCount,  \* CircuitBreaker.failureCount
  successCount,  \* CircuitBreaker.successCount
  sinceFailure,  \* age of lastFailureTime, saturating at RecoveryTimeout
  call           \* what each request is doing

breakerVars == <<state, failureCount, successCount, sinceFailure>>
vars == <<created, state, failureCount, successCount, sinceFailure, call>>

States == {"closed", "open", "half-open"}
Idle == [step |-> "idle"]
\* missing: Get found no breaker under the read lock, and will create it.
\* ready:   Get has returned.     running: AllowRequest said yes.
BusyCall == [step : {"missing", "ready", "running"}, key : Keys]
CallAt(step, k) == [step |-> step, key |-> k]
Running(k) == {c \in Callers : call[c] = CallAt("running", k)}

TypeOK ==
  /\ created \subseteq Keys
  /\ state \in [Keys -> States]
  /\ failureCount \in [Keys -> Nat]
  /\ successCount \in [Keys -> Nat]
  /\ sinceFailure \in [Keys -> 0 .. RecoveryTimeout]
  /\ call \in [Callers -> {Idle} \cup BusyCall]

\* A new breaker is closed and its zero lastFailureTime is long past.
Init ==
  /\ created = {}
  /\ state = [k \in Keys |-> "closed"]
  /\ failureCount = [k \in Keys |-> 0]
  /\ successCount = [k \in Keys |-> 0]
  /\ sinceFailure = [k \in Keys |-> RecoveryTimeout]
  /\ call = [c \in Callers |-> Idle]

-----------------------------------------------------------------------------
(* The breaker's methods, each one step under cb.mu. *)

Allowed(k) == state[k] = "open" => sinceFailure[k] >= RecoveryTimeout

\* Broken: every admission starts the count of successes afresh.
AllowRequestResetsMutant(k) ==
  /\ state' = [state EXCEPT ![k] = IF @ = "open" /\ Allowed(k)
                                   THEN "half-open" ELSE @]
  /\ successCount' = [successCount EXCEPT ![k] = 0]
  /\ UNCHANGED <<failureCount, sinceFailure>>
\* An open breaker whose recovery timeout has passed becomes half-open; a
\* half-open one lets every request through.
AllowRequest(k) ==
  /\ state' = [state EXCEPT ![k] = IF @ = "open" /\ Allowed(k)
                                   THEN "half-open" ELSE @]
  /\ UNCHANGED <<failureCount, successCount, sinceFailure>>

\* Broken: a success does not end a run of failures.
SuccessKeepsFailuresMutant(k) ==
  /\ state[k] = "closed"
  /\ UNCHANGED <<state, failureCount, successCount>>
SuccessWhileClosed(k) ==
  /\ state[k] = "closed"
  /\ failureCount' = [failureCount EXCEPT ![k] = 0]
  /\ UNCHANGED <<state, successCount>>

SuccessWhileHalfOpen(k) ==
  LET recovered == successCount[k] + 1 >= SuccessThreshold IN
  /\ state[k] = "half-open"
  /\ successCount' = [successCount EXCEPT ![k] = IF recovered THEN 0 ELSE @ + 1]
  /\ state' = [state EXCEPT ![k] = IF recovered THEN "closed" ELSE @]
  /\ failureCount' = [failureCount EXCEPT ![k] = IF recovered THEN 0 ELSE @]

RecordSuccess(k) ==
  /\ \/ SuccessWhileClosed(k)
     \/ SuccessWhileHalfOpen(k)
     \/ state[k] = "open" /\ UNCHANGED <<state, failureCount, successCount>>
  /\ UNCHANGED sinceFailure

FailureWhileClosed(k) ==
  /\ state[k] = "closed"
  /\ failureCount' = [failureCount EXCEPT ![k] = @ + 1]
  /\ state' = [state EXCEPT ![k] = IF failureCount[k] + 1 >= FailureThreshold
                                   THEN "open" ELSE @]
  /\ UNCHANGED successCount

\* Broken: the successes before the failure count in the next recovery.
FailureKeepsSuccessesMutant(k) ==
  /\ state[k] = "half-open"
  /\ state' = [state EXCEPT ![k] = "open"]
  /\ UNCHANGED <<failureCount, successCount>>
FailureWhileHalfOpen(k) ==
  /\ state[k] = "half-open"
  /\ state' = [state EXCEPT ![k] = "open"]
  /\ successCount' = [successCount EXCEPT ![k] = 0]
  /\ UNCHANGED failureCount

\* Broken: a failed probe re-opens the breaker on the old timestamp.
FailedProbeKeepsTimeMutant(k) ==
  /\ \/ FailureWhileClosed(k)
     \/ FailureWhileHalfOpen(k)
     \/ state[k] = "open" /\ UNCHANGED <<state, failureCount, successCount>>
  /\ sinceFailure' = [sinceFailure EXCEPT ![k] = IF state[k] = "half-open"
                                                 THEN @ ELSE 0]
\* lastFailureTime is set in every state: a failure that comes in late, from a
\* request admitted before the breaker opened, restarts the recovery timeout.
RecordFailure(k) ==
  /\ \/ FailureWhileClosed(k)
     \/ FailureWhileHalfOpen(k)
     \/ state[k] = "open" /\ UNCHANGED <<state, failureCount, successCount>>
  /\ sinceFailure' = [sinceFailure EXCEPT ![k] = 0]

-----------------------------------------------------------------------------
(* Requests. *)

\* CircuitBreakerManager.Get up to the release of the read lock.
Get(c, k) ==
  /\ call[c] = Idle
  /\ call' = [call EXCEPT ![c] = CallAt(IF k \in created THEN "ready" ELSE "missing", k)]
  /\ UNCHANGED <<created, breakerVars>>

\* The rest of Get under the write lock.  The map is looked up again: a breaker
\* another request has created meanwhile is used as it is.
Create(c) ==
  /\ call[c].step = "missing"
  /\ created' = created \cup {call[c].key}
  /\ call' = [call EXCEPT ![c] = CallAt("ready", call[c].key)]
  /\ UNCHANGED breakerVars

\* The check at the top of searchWithProtection.
Admit(c) ==
  /\ call[c].step = "ready"
  /\ AllowRequest(call[c].key)
  /\ call' = [call EXCEPT ![c] = IF Allowed(call[c].key)
                                 THEN CallAt("running", call[c].key) ELSE Idle]
  /\ UNCHANGED created

\* AllowRequest asked without a search: searchFastestDetailed asks every engine
\* and searches one, runParallelDetailed asks again before searchWithProtection.
PreCheck(c) ==
  /\ call[c].step = "ready"
  /\ AllowRequest(call[c].key)
  /\ call' = [call EXCEPT ![c] = Idle]
  /\ UNCHANGED created

Succeed(c) ==
  /\ call[c].step = "running"
  /\ RecordSuccess(call[c].key)
  /\ call' = [call EXCEPT ![c] = Idle]
  /\ UNCHANGED created

Fail(c) ==
  /\ call[c].step = "running"
  /\ RecordFailure(call[c].key)
  /\ call' = [call EXCEPT ![c] = Idle]
  /\ UNCHANGED created

\* shouldRecordCircuitFailure is false: the caller's context is done, or the
\* proxy policy failed closed.
Abandon(c) ==
  /\ call[c].step = "running"
  /\ call' = [call EXCEPT ![c] = Idle]
  /\ UNCHANGED <<created, breakerVars>>

\* One tick of the clock.
Tick ==
  /\ \E k \in Keys : sinceFailure[k] < RecoveryTimeout
  /\ sinceFailure' = [k \in Keys |-> IF sinceFailure[k] < RecoveryTimeout
                                     THEN sinceFailure[k] + 1 ELSE RecoveryTimeout]
  /\ UNCHANGED <<created, state, failureCount, successCount, call>>

Next ==
  \/ \E c \in Callers :
       \/ \E k \in Keys : Get(c, k)
       \/ Create(c) \/ Admit(c) \/ PreCheck(c)
       \/ Succeed(c) \/ Fail(c) \/ Abandon(c)
  \/ Tick

Spec == Init /\ [][Next]_vars

-----------------------------------------------------------------------------
(* Fairness: time passes, a goroutine that was started goes on (an engine   *)
(* call returns: every one runs under its page or request timeout), and     *)
(* clients keep asking for each engine.                                     *)

AdmitFor(k) == \E c \in Callers : call[c] = CallAt("ready", k) /\ Admit(c)

Fairness ==
  /\ WF_vars(Tick)
  /\ \A c \in Callers :
       /\ WF_vars(Create(c))
       /\ WF_vars(Admit(c) \/ PreCheck(c))
       /\ WF_vars(Succeed(c) \/ Fail(c) \/ Abandon(c))
  /\ \A k \in Keys :
       /\ SF_vars(\E c \in Callers : Get(c, k))
       /\ SF_vars(AdmitFor(k))

FairSpec == Spec /\ Fairness

-----------------------------------------------------------------------------
(* Properties. *)

\* The counters agree with the state in every interleaving: a breaker that is
\* not closed has seen a full threshold of failures, one that is not half-open
\* carries no recovery evidence over to its next recovery.
CountersFitState ==
  \A k \in Keys :
    /\ state[k] = "closed" <=> failureCount[k] < FailureThreshold
    /\ successCount[k] < SuccessThreshold
    /\ state[k] # "half-open" => successCount[k] = 0

\* A request works on a breaker that exists, and a breaker nobody has created
\* yet is as new: two requests racing in Get never replace a breaker in use.
CallsUseCreatedBreaker ==
  /\ \A c \in Callers : call[c].step \in {"ready", "running"} => call[c].key \in created
  /\ \A k \in Keys \ created :
       /\ state[k] = "closed" /\ failureCount[k] = 0
       /\ sinceFailure[k] = RecoveryTimeout

\* A breaker never goes from open to closed without a half-open phase, and is
\* never half-open without having been open.
LegalTransitions ==
  [][\A k \in Keys :
       /\ state[k] = "open" => state'[k] \in {"open", "half-open"}
       /\ state[k] = "closed" => state'[k] \in {"closed", "open"}]_vars

\* While a breaker stays open no request is admitted, so the failures that can
\* still postpone its recovery are those of requests already running.
OpenAdmitsNobody ==
  [][\A k \in Keys :
       state[k] = "open" /\ state'[k] = "open" => Running(k)' \subseteq Running(k)]_vars

\* An open breaker is eventually tried again, however many failures arrive
\* late, as long as clients keep asking for the engine.
OpenIsRetried == \A k \in Keys : state[k] = "open" ~> state[k] # "open"

Spoil(c, k) == call[c] = CallAt("running", k) /\ (Fail(c) \/ Abandon(c))

\* An engine that has stopped failing gets its breaker closed, from whatever
\* state its failures left it in.
RecoveredEngineCloses ==
  \A k \in Keys :
    <>[][\A c \in Callers : ~Spoil(c, k)]_vars => []<>(state[k] = "closed")
=============================================================================
