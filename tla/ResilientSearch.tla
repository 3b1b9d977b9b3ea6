-------------------------- MODULE ResilientSearch --------------------------
(***************************************************************************)
(* The request pipeline of core/resilient.go and core/retry.go: a search   *)
(* goes through the breaker of its engine, then through retries, each with *)
(* a proxy of its own, at most one rotation away from a challenged proxy,  *)
(* and on failure to the next engine when the endpoint allows fallbacks or *)
(* the mega mode is "any".                                                 *)
(*                                                                         *)
(* The breakers and the registry are those of CircuitBreaker and           *)
(* ProxyRegistry, shared by all requests; only their methods are used      *)
(* here, and the pipeline is shown to implement the two specifications.    *)
(* A request is between two of its own steps wherever the code holds no    *)
(* lock: others may move the breaker and the registry there.               *)
(***************************************************************************)
EXTENDS Integers, Sequences

CONSTANTS
  Engines,            \* the engines that are initialized
  EngineOrder,        \* ResilientSearcher.engines, in configuration order
  Requests,           \* requests served concurrently
  MaxRetries,         \* RetryConfig.MaxRetries
  Modes,              \* subset of {"primary", "fallback", "any"}
  PolicyTag,          \* tag of each engine's proxy policy, NoTag for mode off
  NoTag,
  Proxies, Tags, Layouts, NoProxy, ProxyThreshold, Quarantine, Cooldown,
  BreakerFailures, BreakerSuccesses, RecoveryTimeout

ASSUME PipelineAssumption ==
  /\ MaxRetries \in Nat
  /\ EngineOrder \in Seq(Engines)
  /\ \A e \in Engines : \E i \in DOMAIN EngineOrder : EngineOrder[i] = e
  /\ \A i, j \in DOMAIN EngineOrder : EngineOrder[i] = EngineOrder[j] => i = j
  /\ Modes \subseteq {"primary", "fallback", "any"}
  /\ PolicyTag \in [Engines -> Tags \cup {NoTag}]
  /\ NoTag \notin Tags

\* What CircuitBreaker and ProxyRegistry assume of their constants.
ASSUME PartsAssumption ==
  /\ {BreakerFailures, BreakerSuccesses, ProxyThreshold} \subseteq Nat \ {0}
  /\ {Quarantine, Cooldown} \subseteq Nat \ {0} /\ RecoveryTimeout \in Nat
  /\ NoProxy \notin Proxies
  /\ Layouts \subseteq [Tags -> Seq(Proxies)]

VARIABLES
  created, state, failureCount, successCount, sinceFailure,  \* breakers
  tagIndex, failures, disabled, challenged, cursor, quarantine,
  req  \* what each request is doing

breakers == <<created, state, failureCount, successCount, sinceFailure>>
registry == <<tagIndex, failures, disabled, challenged, cursor, quarantine>>
vars == <<created, state, failureCount, successCount, sinceFailure,
          tagIndex, failures, disabled, challenged, cursor, quarantine,
          req>>

(* Steps of a request. next: about to enter searchWithProtection for the first *)
(* engine of todo. missing, ready: in CircuitBreakerManager.Get, and after it. *)
(* attempt: in RetryableSearch before an engine call, backing off or waiting   *)
(* for the rate limiter. using: in the engine call. challenged: a run ended    *)
(* with a challenge. rotating: another proxy was found healthy. succeeded,     *)
(* failed: the outcome is to be recorded.                                      *)
Steps == {"idle", "next", "missing", "ready", "attempt", "using",
          "challenged", "rotating", "succeeded", "failed"}
\* engine: recorded by the breaker.  context: IsContextDone.
Errors == {"none", "engine", "context", "unavailable", "open"}

Idle == [step |-> "idle", mode |-> "primary", todo |-> <<>>, first |-> TRUE, attempt |-> 0,
         proxy |-> NoProxy, burned |-> NoProxy, err |-> "none", done |-> FALSE]
Engine(r) == Head(req[r].todo)
Tag(r) == PolicyTag[Engine(r)]
InPool(r) == req[r].proxy # NoProxy

\* The request as CircuitBreaker and ProxyRegistry see it.
BreakerCall == [r \in Requests |->
  IF req[r].step \in {"idle", "next"} \/ req[r].err = "open" THEN [step |-> "idle"]
  ELSE [step |-> IF req[r].step \in {"missing", "ready"} THEN req[r].step ELSE "running",
        key |-> Engine(r)]]
ProxyUse == [r \in Requests |->
  IF req[r].step \in {"using", "challenged", "rotating"} /\ InPool(r)
  THEN [step |-> IF req[r].step = "rotating" THEN "rotating" ELSE "using",
        proxy |-> req[r].proxy, tag |-> Tag(r)]
  ELSE [step |-> "idle"]]

Breaker == INSTANCE CircuitBreaker WITH
  Keys <- Engines, Callers <- Requests, FailureThreshold <- BreakerFailures,
  SuccessThreshold <- BreakerSuccesses, call <- BreakerCall
Registry == INSTANCE ProxyRegistry WITH
  Users <- Requests, FailureThreshold <- ProxyThreshold, use <- ProxyUse

Init ==
  /\ created = {}
  /\ state = [e \in Engines |-> "closed"]
  /\ failureCount = [e \in Engines |-> 0]
  /\ successCount = [e \in Engines |-> 0]
  /\ sinceFailure = [e \in Engines |-> RecoveryTimeout]
  /\ tagIndex \in Layouts
  /\ failures = [p \in Proxies |-> 0]
  /\ disabled = [p \in Proxies |-> FALSE]
  /\ challenged = [p \in Proxies |-> 0]
  /\ cursor = [t \in Tags |-> 0]
  /\ quarantine = [t \in Tags |-> Registry!NoQuarantine]
  /\ req = [r \in Requests |-> Idle]

Go(r, step) == req' = [req EXCEPT ![r].step = step]
\* A run of the retries is over, and its last proxy is let go.
Fails(r, err) ==
  req' = [req EXCEPT ![r] = [@ EXCEPT !.step = "failed", !.err = err, !.attempt = 0,
                                      !.proxy = NoProxy]]

-----------------------------------------------------------------------------
(* Entry. *)

\* The fallbacks of an engine.
Others(e) ==
  LET i == CHOOSE i \in DOMAIN EngineOrder : EngineOrder[i] = e
  IN  SubSeq(EngineOrder, 1, i - 1) \o SubSeq(EngineOrder, i + 1, Len(EngineOrder))

\* The engines searched in turn until one answers: the primary engine alone,
\* the primary engine and then the others, or the engines of a mega search.
Plan(mode, e) ==
  CASE mode = "primary"  -> <<e>>
    [] mode = "fallback" -> <<e>> \o Others(e)
    [] mode = "any"      -> EngineOrder

Arrive(r) ==
  /\ req[r].step = "idle"
  /\ \E mode \in Modes, e \in Engines :
       req' = [req EXCEPT ![r] = [Idle EXCEPT !.step = "next", !.mode = mode,
                                              !.todo = Plan(mode, e)]]
  /\ UNCHANGED <<breakers, registry>>

\* The deadline of the request passes (fasthttp does not tell of a client that left).
Cancel(r) ==
  /\ req[r].step # "idle" /\ ~req[r].done
  /\ req' = [req EXCEPT ![r].done = TRUE]
  /\ UNCHANGED <<breakers, registry>>

\* The context is asked before an engine is turned to, at every place that does.
Leave(r) ==
  /\ req[r].step = "next" /\ req[r].done
  /\ req' = [req EXCEPT ![r] = Idle]
  /\ UNCHANGED <<breakers, registry>>

\* CircuitBreakerManager.Get, as in CircuitBreaker: the look-up, then the creation.
GetBreaker(r) ==
  /\ req[r].step = "next" /\ ~req[r].done
  /\ Go(r, IF Engine(r) \in created THEN "ready" ELSE "missing")
  /\ UNCHANGED <<breakers, registry>>

CreateBreaker(r) ==
  /\ req[r].step = "missing"
  /\ created' = created \cup {Engine(r)}
  /\ Go(r, "ready")
  /\ UNCHANGED <<state, failureCount, successCount, sinceFailure, registry>>

Admit(r) ==
  /\ req[r].step = "ready"
  /\ Breaker!AllowRequest(Engine(r))
  /\ IF Breaker!Allowed(Engine(r)) THEN Go(r, "attempt") ELSE Fails(r, "open")
  /\ UNCHANGED <<created, registry>>

-----------------------------------------------------------------------------
(* RetryableSearch and the search function it calls. *)

\* The retryable errors: after the last attempt they are the engine's.
Retry(r) ==
  IF req[r].attempt < MaxRetries
  THEN req' = [req EXCEPT ![r] = [@ EXCEPT !.step = "attempt", !.attempt = req[r].attempt + 1,
                                           !.proxy = NoProxy]]
  ELSE Fails(r, "engine")

\* The context is done, or the limiter says its deadline would pass first.
StopAttempt(r) ==
  /\ req[r].step = "attempt"
  /\ Fails(r, "context")
  /\ UNCHANGED <<breakers, registry>>

\* Broken: the policy fails open, an exhausted pool means a direct call.
CallDirectFailOpenMutant(r) ==
  /\ req[r].step = "attempt" /\ ~req[r].done
  /\ Tag(r) = NoTag \/ Registry!Refused(Tag(r))
  /\ Go(r, "using")
  /\ UNCHANGED <<breakers, registry>>
CallDirect(r) ==
  /\ req[r].step = "attempt" /\ ~req[r].done
  /\ Tag(r) = NoTag
  /\ Go(r, "using")
  /\ UNCHANGED <<breakers, registry>>

CallThrough(r, p) ==
  /\ req[r].step = "attempt" /\ ~req[r].done
  /\ Tag(r) # NoTag
  /\ Registry!NextByTagServed(Tag(r), p)
  /\ req' = [req EXCEPT ![r] = [@ EXCEPT !.step = "using", !.proxy = p]]
  /\ UNCHANGED <<breakers, tagIndex>>

\* The policy fails closed: ErrProxyUnavailable, which is not retried.
NoProxyLeft(r) ==
  /\ req[r].step = "attempt" /\ ~req[r].done
  /\ Tag(r) # NoTag
  /\ Registry!NextByTagRefused(Tag(r))
  /\ Fails(r, "unavailable")
  /\ UNCHANGED <<breakers, tagIndex>>

\* reportProxyAttempt: nothing to report without a proxy.
ReportsFailure(r) ==
  /\ IF InPool(r) THEN Registry!ReportFailure(req[r].proxy)
                  ELSE UNCHANGED <<failures, disabled, challenged, cursor, quarantine>>
  /\ UNCHANGED tagIndex
ReportsSuccess(r) ==
  /\ IF InPool(r) THEN Registry!ReportSuccess(req[r].proxy)
                  ELSE UNCHANGED <<failures, disabled, challenged, cursor, quarantine>>
  /\ UNCHANGED tagIndex

Answer(r) ==
  /\ req[r].step = "using"
  /\ ReportsSuccess(r)
  /\ req' = [req EXCEPT ![r] = [@ EXCEPT !.step = "succeeded", !.attempt = 0,
                                         !.proxy = NoProxy]]
  /\ UNCHANGED breakers

\* ErrProxyConnect, ErrProxyAuth, and an ErrTimeout that wraps no deadline.
ProxyError(r) ==
  /\ req[r].step = "using"
  /\ ReportsFailure(r)
  /\ Retry(r)
  /\ UNCHANGED breakers

\* The attempt's own timeout.  classifyProxyNetworkError keeps the deadline in
\* the error: the proxy is blamed, and the error is not retried nor recorded,
\* as if the request itself were done.
TimeOut(r) ==
  /\ req[r].step = "using"
  /\ ReportsFailure(r)
  /\ Fails(r, "context")
  /\ UNCHANGED breakers

\* ErrSearchTimeout and errors with no sentinel.
RetryableError(r) ==
  /\ req[r].step = "using"
  /\ Retry(r)
  /\ UNCHANGED <<breakers, registry>>

\* ErrParser, and a panic recovered by invokeEngine.
FatalError(r) ==
  /\ req[r].step = "using"
  /\ Fails(r, "engine")
  /\ UNCHANGED <<breakers, registry>>

\* The engine noticed that the request is done.
ContextError(r) ==
  /\ req[r].step = "using" /\ req[r].done
  /\ Fails(r, "context")
  /\ UNCHANGED <<breakers, registry>>

\* ErrCaptcha, ErrBlocked and ErrRateLimited.
Challenge(r) ==
  /\ req[r].step = "using"
  /\ req' = [req EXCEPT ![r] = [@ EXCEPT !.step = "challenged", !.attempt = 0]]
  /\ UNCHANGED <<breakers, registry>>

-----------------------------------------------------------------------------
(* The rest of searchWithProtection. *)

\* Broken: the second run may be rotated again.
CanRotateAgainMutant(r) ==
  /\ InPool(r) /\ ~req[r].done
  /\ \E i, j \in Registry!HealthyCount(Tag(r)) : i # j
CanRotate(r) ==
  /\ InPool(r) /\ req[r].burned = NoProxy /\ ~req[r].done
  /\ \E i, j \in Registry!HealthyCount(Tag(r)) : i # j

Rotate(r) ==
  /\ req[r].step = "challenged"
  /\ CanRotate(r)
  /\ Go(r, "rotating")
  /\ UNCHANGED <<breakers, registry>>

KeepChallenge(r) ==
  /\ req[r].step = "challenged"
  /\ ~CanRotate(r)
  /\ Fails(r, "engine")
  /\ UNCHANGED <<breakers, registry>>

\* Broken: the challenge counts against the breaker although the search goes on.
SecondRunRecordedMutant(r) ==
  /\ req[r].step = "rotating"
  /\ Registry!ReportChallenged(req[r].proxy)
  /\ Breaker!RecordFailure(Engine(r))
  /\ req' = [req EXCEPT ![r] = [@ EXCEPT !.step = "attempt", !.proxy = NoProxy,
                                         !.burned = req[r].proxy]]
  /\ UNCHANGED <<created, tagIndex>>
\* Broken: that a rotation has been made is forgotten.
SecondRunForgetsMutant(r) ==
  /\ req[r].step = "rotating"
  /\ Registry!ReportChallenged(req[r].proxy)
  /\ req' = [req EXCEPT ![r] = [@ EXCEPT !.step = "attempt", !.proxy = NoProxy]]
  /\ UNCHANGED <<breakers, tagIndex>>
\* ReportChallenged, and the second run with retries of its own.
SecondRun(r) ==
  /\ req[r].step = "rotating"
  /\ Registry!ReportChallenged(req[r].proxy)
  /\ req' = [req EXCEPT ![r] = [@ EXCEPT !.step = "attempt", !.proxy = NoProxy,
                                         !.burned = req[r].proxy]]
  /\ UNCHANGED <<breakers, tagIndex>>

Succeed(r) ==
  /\ req[r].step = "succeeded"
  /\ Breaker!RecordSuccess(Engine(r))
  /\ req' = [req EXCEPT ![r] = Idle]
  /\ UNCHANGED <<created, registry>>

\* A fallback endpoint gives up when its primary engine had no proxy.
GivesUp(r) == req[r].mode = "fallback" /\ req[r].first /\ req[r].err = "unavailable"

Fail(r) ==
  /\ req[r].step = "failed"
  /\ IF req[r].err = "engine" THEN Breaker!RecordFailure(Engine(r))
     ELSE UNCHANGED <<state, failureCount, successCount, sinceFailure>>
  /\ req' = [req EXCEPT ![r] =
       IF Len(@.todo) = 1 \/ GivesUp(r) THEN Idle
       ELSE [Idle EXCEPT !.step = "next", !.mode = req[r].mode, !.first = FALSE,
                         !.todo = Tail(req[r].todo), !.done = req[r].done]]
  /\ UNCHANGED <<created, registry>>

\* One tick of the clock the recovery timeouts, cooldowns and quarantines share.
Tick ==
  LET older(x, limit) == IF x < limit THEN x + 1 ELSE x
      less(x) == IF x > 0 THEN x - 1 ELSE x
  IN /\ sinceFailure' = [e \in Engines |-> older(sinceFailure[e], RecoveryTimeout)]
     /\ challenged' = [p \in Proxies |-> less(challenged[p])]
     /\ quarantine' = [t \in Tags |-> less(quarantine[t])]
     /\ <<sinceFailure, challenged, quarantine>>' # <<sinceFailure, challenged, quarantine>>
     /\ UNCHANGED <<created, state, failureCount, successCount,
                    tagIndex, failures, disabled, cursor, req>>

EngineReturns(r) ==
  \/ Answer(r) \/ ProxyError(r) \/ TimeOut(r) \/ RetryableError(r)
  \/ FatalError(r) \/ ContextError(r) \/ Challenge(r)

\* What a request does of its own, as its goroutine runs.
Proceed(r) ==
  \/ Leave(r) \/ GetBreaker(r) \/ CreateBreaker(r) \/ Admit(r)
  \/ StopAttempt(r) \/ CallDirect(r) \/ (\E p \in Proxies : CallThrough(r, p))
  \/ NoProxyLeft(r) \/ EngineReturns(r)
  \/ Rotate(r) \/ KeepChallenge(r) \/ SecondRun(r) \/ Succeed(r) \/ Fail(r)

Next ==
  \/ \E r \in Requests : Arrive(r) \/ Cancel(r) \/ Proceed(r)
  \/ Tick

Spec == Init /\ [][Next]_vars

\* A goroutine that was started goes on: engine calls, backoffs and limiter
\* waits all end under a timeout. Nothing is assumed of clients or of the clock.
Fairness == \A r \in Requests : WF_vars(Proceed(r))

FairSpec == Spec /\ Fairness

-----------------------------------------------------------------------------
(* Properties. *)

TypeOK ==
  /\ Breaker!TypeOK
  /\ Registry!TypeOK
  /\ req \in [Requests ->
       [step : Steps, mode : Modes \cup {"primary"}, todo : Seq(Engines), first : BOOLEAN,
        attempt : 0 .. MaxRetries, proxy : Proxies \cup {NoProxy},
        burned : Proxies \cup {NoProxy}, err : Errors, done : BOOLEAN]]
  /\ \A r \in Requests : (req[r].step = "idle") = (req[r].todo = <<>>)

\* The breakers, used by retrying, rotating and falling-back requests, are those
\* CircuitBreaker specifies: one admission and at most one verdict per search.
BreakersImplemented == Breaker!Spec

\* The registry, used the same way, is that of ProxyRegistry: one report at most
\* for each proxy served, by the request it was served to.
RegistryImplemented == Registry!Spec

\* Every step of the searches is one of the breakers and one of the registry, or
\* none of theirs.
PartsImplemented == BreakersImplemented /\ RegistryImplemented

\* An engine that is to be reached through a pool is never called directly, in
\* no attempt of either run, and one without a pool never through a proxy.
PooledNeverDirect ==
  \A r \in Requests : req[r].step = "using" => (InPool(r) <=> Tag(r) # NoTag)

\* The second run does not come back to the proxy that was challenged while the
\* pool has one that is enabled and not challenged.
BurnedProxyNotReused ==
  [][\A r \in Requests :
       /\ req[r].step = "attempt" /\ req'[r].step = "using"
       /\ InPool(r)' /\ req'[r].proxy = req[r].burned
       => \A q \in Registry!Members(Tag(r)) : disabled[q] \/ challenged[q] > 0
                                              \/ challenged[req[r].burned] = 0]_vars

\* Every request is answered, whatever the engines return and however breakers
\* and pools change under it.
EveryRequestAnswered ==
  \A r \in Requests : req[r].step # "idle" ~> req[r].step = "idle"

\* core/retry.go:39, "CAPTCHA, block, rate-limit, parser, engine-internal, and
\* proxy-unavailable errors are not retried": any other failure, like one the
\* proxy is blamed for, is retried while the budget of a live request lasts.
ProxyFailureIsRetried ==
  [][\A r \in Requests :
       /\ req[r].step = "using" /\ req'[r].step = "failed"
       /\ ~req[r].done /\ req[r].attempt < MaxRetries
       => failures' = failures]_vars
=============================================================================
