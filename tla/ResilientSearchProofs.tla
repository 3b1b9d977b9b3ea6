------------------------ MODULE ResilientSearchProofs ------------------------
(***************************************************************************)
(* Proofs about ResilientSearch and what ResilientSearchHistory says of    *)
(* it, for every set of engines, requests, proxies and pools, and every    *)
(* number of retries.                                                      *)
(***************************************************************************)
EXTENDS ResilientSearchHistory, SequenceTheorems, TLAPS

-----------------------------------------------------------------------------
(* The inductive invariant: what a request holds at each of its steps.       *)

Searching ==
  [step : Steps, mode : Modes \cup {"primary"}, todo : Seq(Engines), first : BOOLEAN,
   attempt : 0 .. MaxRetries, proxy : Proxies \cup {NoProxy},
   burned : Proxies \cup {NoProxy}, err : Errors, done : BOOLEAN]

\* Before its first attempt a search has done nothing; an attempt begins without
\* a proxy; a call has one exactly if the engine has a pool; what is to be
\* rotated has not been rotated before.
Fits(q) ==
  /\ q \in Searching
  /\ q.step = "idle" <=> q.todo = <<>>
  /\ q.step # "failed" => q.err = "none"
  /\ q.step \in {"idle", "next", "missing", "ready"} =>
       q.burned = NoProxy /\ q.attempt = 0 /\ q.proxy = NoProxy
  /\ q.step \in {"attempt", "succeeded", "failed"} => q.proxy = NoProxy
  /\ q.step \in {"using", "challenged", "rotating"} =>
       (q.proxy # NoProxy <=> PolicyTag[Head(q.todo)] # NoTag)
  /\ q.step = "rotating" => q.proxy # NoProxy /\ q.burned = NoProxy

SearchInv == req \in [Requests -> {q \in Searching : Fits(q)}]

BreakerTypes ==
  /\ created \subseteq Engines
  /\ state \in [Engines -> Breaker!States]
  /\ failureCount \in [Engines -> Nat]
  /\ successCount \in [Engines -> Nat]
  /\ sinceFailure \in [Engines -> 0 .. RecoveryTimeout]

RegistryTypes ==
  /\ tagIndex \in Layouts
  /\ failures \in [Proxies -> Nat]
  /\ disabled \in [Proxies -> BOOLEAN]
  /\ challenged \in [Proxies -> 0 .. Cooldown]
  /\ cursor \in [Tags -> Nat]
  /\ quarantine \in [Tags -> Registry!NoQuarantine .. Quarantine]

IInv == SearchInv /\ BreakerTypes /\ RegistryTypes

LEMMA PlanFits ==
  ASSUME NEW mode \in Modes, NEW e \in Engines
  PROVE  Plan(mode, e) \in Seq(Engines) /\ Plan(mode, e) # <<>>
<1>1. EngineOrder \in Seq(Engines) /\ EngineOrder # <<>>
  BY PipelineAssumption
<1>2. Others(e) \in Seq(Engines)
  <2> DEFINE i == CHOOSE i \in DOMAIN EngineOrder : EngineOrder[i] = e
  <2>1. i \in 1 .. Len(EngineOrder)
    BY PipelineAssumption, <1>1
  <2> HIDE DEF i
  <2>2. SubSeq(EngineOrder, 1, i - 1) \in Seq(Engines) /\ SubSeq(EngineOrder, i + 1, Len(EngineOrder)) \in Seq(Engines)
    BY <1>1, <2>1
  <2>3. QED
    BY <2>2 DEF Others, i
<1>3. QED
  BY <1>1, <1>2, PipelineAssumption DEF Plan

\* A request in use, its engine and that engine's tag.
LEMMA Searched ==
  ASSUME SearchInv, NEW r \in Requests
  PROVE  /\ req[r] \in Searching /\ Fits(req[r])
         /\ req[r].step # "idle" => Engine(r) \in Engines /\ Tag(r) \in Tags \cup {NoTag}
BY PipelineAssumption DEF SearchInv, Fits, Searching, Engine, Tag

\* A step of one request.
LEMMA OneMoves ==
  ASSUME SearchInv, NEW r \in Requests, NEW q, Fits(q), req' = [req EXCEPT ![r] = q]
  PROVE  SearchInv'
BY DEF SearchInv, Fits

LEMMA IdleFits ==
  /\ Idle \in Searching /\ Fits(Idle)
  /\ Idle.step = "idle" /\ Idle.todo = <<>> /\ Idle.err = "none" /\ Idle.attempt = 0
  /\ Idle.proxy = NoProxy /\ Idle.burned = NoProxy
<1>1. /\ Idle.step = "idle" /\ Idle.todo = <<>> /\ Idle.err = "none" /\ Idle.attempt = 0
      /\ Idle.proxy = NoProxy /\ Idle.burned = NoProxy
  BY DEF Idle
<1>2. "idle" \in Steps /\ "none" \in Errors /\ 0 \in 0 .. MaxRetries /\ << >> \in Seq(Engines)
  BY PipelineAssumption DEF Steps, Errors
<1>3. Idle \in Searching
  BY <1>2 DEF Idle, Searching
<1>4. QED
  BY <1>1, <1>3 DEF Fits

LEMMA TailFacts ==
  ASSUME NEW S, NEW s \in Seq(S), s # <<>>, Len(s) # 1
  PROVE  Tail(s) \in Seq(S) /\ Tail(s) # <<>>
<1>1. Len(s) \in Nat \ {0} /\ Tail(s) \in Seq(S) /\ Len(Tail(s)) = Len(s) - 1
  BY EmptySeq, HeadTailProperties
<1>2. Len(Tail(s)) # 0
  BY <1>1
<1>3. Len(<< >>) = 0
  BY EmptySeq
<1>4. QED
  BY <1>1, <1>2, <1>3

LEMMA SearchStarts == Init => SearchInv
BY IdleFits DEF Init, SearchInv

-----------------------------------------------------------------------------
LEMMA SearchKept == SearchInv /\ [Next]_vars => SearchInv'
<1> SUFFICES ASSUME SearchInv, [Next]_vars PROVE SearchInv'
  OBVIOUS
<1> USE DEF Steps, Errors
<1>1. ASSUME NEW r \in Requests, Arrive(r) \/ Cancel(r) \/ Proceed(r) PROVE SearchInv'
  <2> DEFINE q == req[r]
  <2>0. /\ q \in Searching /\ Fits(q) /\ MaxRetries \in Nat
        /\ 0 \in 0 .. MaxRetries /\ NoProxy \in Proxies \cup {NoProxy}
    BY Searched, PipelineAssumption
  <2>e. q.step # "idle" => Engine(r) \in Engines /\ Tag(r) \in Tags \cup {NoTag}
    BY Searched
  <2>f. ASSUME NEW err \in Errors, q.step # "idle", Fails(r, err) PROVE SearchInv'
    <3> DEFINE x == [q EXCEPT !.step = "failed", !.err = err, !.attempt = 0, !.proxy = NoProxy]
    <3>a. x \in Searching
      BY <2>0, <2>f DEF Searching
    <3>b. x.step = "failed" /\ x.proxy = NoProxy /\ x.todo = q.todo
      BY <2>0 DEF Searching
    <3>1. Fits(x)
      BY <2>0, <2>f, <3>a, <3>b DEF Fits
    <3>2. QED
      BY <2>f, <3>1, OneMoves DEF Fails
  <2>g. ASSUME q.step = "using", Retry(r) PROVE SearchInv'
    <3>1. CASE q.attempt < MaxRetries
      <4> DEFINE x == [q EXCEPT !.step = "attempt", !.attempt = q.attempt + 1, !.proxy = NoProxy]
      <4>0. q.attempt + 1 \in 0 .. MaxRetries
        BY <2>0, <3>1 DEF Searching
      <4>a. x \in Searching
        BY <2>0, <4>0 DEF Searching
      <4>b. x.step = "attempt" /\ x.proxy = NoProxy /\ x.todo = q.todo /\ x.err = q.err
        BY <2>0 DEF Searching
      <4>1. Fits(x)
        BY <2>0, <2>g, <4>a, <4>b DEF Fits
      <4>2. req' = [req EXCEPT ![r] = x]
        BY <2>g, <3>1 DEF Retry
      <4>3. QED
        BY <4>1, <4>2, OneMoves
    <3>2. CASE ~(q.attempt < MaxRetries)
      BY <2>f, <2>g, <3>2 DEF Retry
    <3>3. QED
      BY <3>1, <3>2
  <2>1. CASE Arrive(r)
    <3>1. PICK mode \in Modes, e \in Engines :
            req' = [req EXCEPT ![r] = [Idle EXCEPT !.step = "next", !.mode = mode,
                                                   !.todo = Plan(mode, e)]]
      BY <2>1 DEF Arrive
    <3>2. Fits([Idle EXCEPT !.step = "next", !.mode = mode, !.todo = Plan(mode, e)])
      BY IdleFits, PlanFits DEF Fits, Searching
    <3>3. QED
      BY <3>1, <3>2, OneMoves
  <2>2. CASE Cancel(r)
    <3>1. Fits([q EXCEPT !.done = TRUE])
      BY <2>0, <2>2 DEF Cancel, Fits, Searching
    <3>2. QED
      BY <2>2, <3>1, OneMoves DEF Cancel
  <2>3. CASE Leave(r)
    BY <2>3, IdleFits, OneMoves DEF Leave
  <2>4. CASE GetBreaker(r)
    <3>1. Fits([q EXCEPT !.step = IF Engine(r) \in created THEN "ready" ELSE "missing"])
      BY <2>0, <2>4 DEF GetBreaker, Fits, Searching
    <3>2. QED
      BY <2>4, <3>1, OneMoves DEF GetBreaker, Go
  <2>5. CASE CreateBreaker(r)
    <3>1. Fits([q EXCEPT !.step = "ready"])
      BY <2>0, <2>5 DEF CreateBreaker, Fits, Searching
    <3>2. QED
      BY <2>5, <3>1, OneMoves DEF CreateBreaker, Go
  <2>6. CASE Admit(r)
    <3>1. Fits([q EXCEPT !.step = "attempt"])
      BY <2>0, <2>6 DEF Admit, Fits, Searching
    <3>2. QED
      BY <2>6, <2>f, <3>1, OneMoves DEF Admit, Go
  <2>7. CASE StopAttempt(r)
    BY <2>7, <2>f DEF StopAttempt
  <2>8. CASE NoProxyLeft(r)
    BY <2>8, <2>f DEF NoProxyLeft
  <2>9. CASE TimeOut(r)
    BY <2>9, <2>f DEF TimeOut
  <2>10. CASE FatalError(r)
    BY <2>10, <2>f DEF FatalError
  <2>11. CASE ContextError(r)
    BY <2>11, <2>f DEF ContextError
  <2>12. CASE KeepChallenge(r)
    BY <2>12, <2>f DEF KeepChallenge
  <2>13. CASE CallDirect(r)
    <3>1. Fits([q EXCEPT !.step = "using"])
      BY <2>0, <2>13 DEF CallDirect, Tag, Engine, Fits, Searching
    <3>2. QED
      BY <2>13, <3>1, OneMoves DEF CallDirect, Go
  <2>14. CASE \E p \in Proxies : CallThrough(r, p)
    <3>1. PICK p \in Proxies : CallThrough(r, p)
      BY <2>14
    <3>2. Fits([q EXCEPT !.step = "using", !.proxy = p])
      BY <2>0, <3>1, PartsAssumption DEF CallThrough, Tag, Engine, Fits, Searching
    <3>3. QED
      BY <3>1, <3>2, OneMoves DEF CallThrough
  <2>15. CASE Answer(r)
    <3> DEFINE x == [q EXCEPT !.step = "succeeded", !.attempt = 0, !.proxy = NoProxy]
    <3>a. x \in Searching
      BY <2>0 DEF Searching
    <3>b. x.step = "succeeded" /\ x.proxy = NoProxy /\ x.todo = q.todo /\ x.err = q.err
      BY <2>0 DEF Searching
    <3>1. Fits(x)
      BY <2>0, <2>15, <3>a, <3>b DEF Answer, Fits
    <3>2. req' = [req EXCEPT ![r] = x]
      BY <2>15 DEF Answer
    <3>3. QED
      BY <3>1, <3>2, OneMoves
  <2>16. CASE ProxyError(r)
    BY <2>16, <2>g DEF ProxyError
  <2>17. CASE RetryableError(r)
    BY <2>17, <2>g DEF RetryableError
  <2>18. CASE Challenge(r)
    <3> DEFINE x == [q EXCEPT !.step = "challenged", !.attempt = 0]
    <3>a. x \in Searching
      BY <2>0 DEF Searching
    <3>b. x.step = "challenged" /\ x.proxy = q.proxy /\ x.todo = q.todo /\ x.err = q.err
      BY <2>0 DEF Searching
    <3>1. Fits(x)
      BY <2>0, <2>18, <3>a, <3>b DEF Challenge, Fits
    <3>2. req' = [req EXCEPT ![r] = x]
      BY <2>18 DEF Challenge
    <3>3. QED
      BY <3>1, <3>2, OneMoves
  <2>19. CASE Rotate(r)
    <3>1. Fits([q EXCEPT !.step = "rotating"])
      BY <2>0, <2>19 DEF Rotate, CanRotate, InPool, Fits, Searching
    <3>2. QED
      BY <2>19, <3>1, OneMoves DEF Rotate, Go
  <2>20. CASE SecondRun(r)
    <3>1. Fits([q EXCEPT !.step = "attempt", !.proxy = NoProxy, !.burned = q.proxy])
      BY <2>0, <2>20 DEF SecondRun, Fits, Searching
    <3>2. QED
      BY <2>20, <3>1, OneMoves DEF SecondRun
  <2>21. CASE Succeed(r)
    BY <2>21, IdleFits, OneMoves DEF Succeed
  <2>22. CASE Fail(r)
    <3>1. CASE Len(q.todo) = 1 \/ GivesUp(r)
      BY <2>22, <3>1, IdleFits, OneMoves DEF Fail
    <3>2. CASE ~(Len(q.todo) = 1 \/ GivesUp(r))
      <4>1. Tail(q.todo) \in Seq(Engines) /\ Tail(q.todo) # <<>>
        <5>1. q.todo \in Seq(Engines) /\ q.todo # <<>> /\ Len(q.todo) # 1
          BY <2>0, <2>22, <3>2 DEF Fail, Fits, Searching
        <5>2. QED
          BY <5>1, TailFacts
      <4>2. Fits([Idle EXCEPT !.step = "next", !.mode = q.mode, !.first = FALSE,
                              !.todo = Tail(q.todo), !.done = q.done])
        BY <2>0, <4>1, IdleFits DEF Fits, Searching
      <4>3. QED
        BY <2>22, <3>2, <4>2, OneMoves DEF Fail
    <3>3. QED
      BY <3>1, <3>2
  <2> QED
    BY <1>1, <2>1, <2>2, <2>3, <2>4, <2>5, <2>6, <2>7, <2>8, <2>9, <2>10, <2>11, <2>12, <2>13, <2>14, <2>15, <2>16, <2>17, <2>18, <2>19, <2>20, <2>21, <2>22 DEF Proceed, EngineReturns
<1>2. CASE Tick
  BY <1>2 DEF Tick, SearchInv
<1>3. CASE UNCHANGED vars
  BY <1>3 DEF vars, SearchInv
<1> QED
  BY <1>1, <1>2, <1>3 DEF Next

-----------------------------------------------------------------------------
(* What the operations on the breakers and on the registry keep. *)

LEMMA AllowTypes ==
  ASSUME BreakerTypes, NEW e \in Engines, Breaker!AllowRequest(e), created' = created
  PROVE  BreakerTypes'
BY DEF BreakerTypes, Breaker!States, Breaker!AllowRequest

LEMMA RecordTypes ==
  ASSUME BreakerTypes, NEW e \in Engines, created' = created,
         Breaker!RecordSuccess(e) \/ Breaker!RecordFailure(e)
  PROVE  BreakerTypes'
<1> USE DEF BreakerTypes, Breaker!States
<1>1. CASE Breaker!RecordSuccess(e)
  <2> USE <1>1 DEF Breaker!RecordSuccess
  <2>1. CASE Breaker!SuccessWhileClosed(e)
    BY <2>1 DEF Breaker!SuccessWhileClosed
  <2>2. CASE Breaker!SuccessWhileHalfOpen(e)
    BY <2>2 DEF Breaker!SuccessWhileHalfOpen
  <2>3. CASE UNCHANGED <<state, failureCount, successCount>>
    BY <2>3
  <2>4. QED
    BY <2>1, <2>2, <2>3
<1>2. CASE Breaker!RecordFailure(e)
  <2>1. sinceFailure' \in [Engines -> 0 .. RecoveryTimeout]
    BY <1>2, PartsAssumption DEF Breaker!RecordFailure
  <2>2. CASE Breaker!FailureWhileClosed(e)
    BY <2>1, <2>2 DEF Breaker!FailureWhileClosed
  <2>3. CASE Breaker!FailureWhileHalfOpen(e)
    BY <2>1, <2>3 DEF Breaker!FailureWhileHalfOpen
  <2>4. CASE UNCHANGED <<state, failureCount, successCount>>
    BY <2>1, <2>4
  <2>5. QED
    BY <1>2, <2>2, <2>3, <2>4 DEF Breaker!RecordFailure
<1>3. QED
  BY <1>1, <1>2

LEMMA PoolTypes ==
  ASSUME RegistryTypes, NEW t \in Tags
  PROVE  /\ tagIndex[t] \in Seq(Proxies) /\ Len(tagIndex[t]) \in Nat
         /\ cursor[t] \in Nat
BY PartsAssumption DEF RegistryTypes

LEMMA RefusedTypes ==
  ASSUME RegistryTypes, NEW t \in Tags, Registry!NextByTagRefused(t), tagIndex' = tagIndex
  PROVE  RegistryTypes'
BY PartsAssumption DEF RegistryTypes, Registry!NextByTagRefused, Registry!NoQuarantine, Registry!health

LEMMA ServedTypes ==
  ASSUME RegistryTypes, NEW t \in Tags, NEW p \in Proxies, Registry!NextByTagServed(t, p),
         tagIndex' = tagIndex
  PROVE  RegistryTypes'
<1>1. PICK i \in cursor[t] .. cursor[t] + Len(tagIndex[t]) - 1 :
        cursor' = [cursor EXCEPT ![t] = Registry!Advanced(t, i)]
  BY DEF Registry!NextByTagServed
<1>2. Len(tagIndex[t]) \in Nat \ {0} /\ i \in Nat
  BY <1>1, PoolTypes
<1>3. Registry!Advanced(t, i) \in Nat
  <2>1. \A a \in Nat, n \in Nat \ {0} : a % n \in Nat
    OBVIOUS
  <2>2. i + 1 \in Nat
    BY <1>2
  <2>3. QED
    BY <1>2, <2>1, <2>2 DEF Registry!Advanced
<1>4. cursor' \in [Tags -> Nat]
  BY <1>1, <1>3 DEF RegistryTypes
<1>5. failures' \in [Proxies -> Nat] /\ disabled' \in [Proxies -> BOOLEAN]
  BY DEF RegistryTypes, Registry!NextByTagServed
<1>6. quarantine' \in [Tags -> Registry!NoQuarantine .. Quarantine]
  BY PartsAssumption DEF RegistryTypes, Registry!NextByTagServed, Registry!NoQuarantine
<1>7. QED
  BY <1>4, <1>5, <1>6 DEF RegistryTypes, Registry!NextByTagServed

LEMMA ReportTypes ==
  ASSUME RegistryTypes, NEW p \in Proxies, tagIndex' = tagIndex,
         \/ Registry!ReportFailure(p) \/ Registry!ReportSuccess(p)
         \/ Registry!ReportChallenged(p)
  PROVE  RegistryTypes'
<1> USE PartsAssumption DEF RegistryTypes, Registry!NoQuarantine
<1>1. CASE Registry!ReportFailure(p)
  BY <1>1 DEF Registry!ReportFailure
<1>2. CASE Registry!ReportSuccess(p)
  BY <1>2 DEF Registry!ReportSuccess
<1>3. CASE Registry!ReportChallenged(p)
  BY <1>3 DEF Registry!ReportChallenged, Registry!pools
<1>4. QED
  BY <1>1, <1>2, <1>3

LEMMA PartsStart == Init => BreakerTypes /\ RegistryTypes
BY PartsAssumption DEF Init, BreakerTypes, RegistryTypes, Breaker!States, Registry!NoQuarantine

LEMMA PartsKept == IInv /\ [Next]_vars => BreakerTypes' /\ RegistryTypes'
<1> SUFFICES ASSUME IInv, [Next]_vars PROVE BreakerTypes' /\ RegistryTypes'
  OBVIOUS
<1> USE DEF IInv
<1>1. ASSUME NEW r \in Requests, Proceed(r) PROVE BreakerTypes' /\ RegistryTypes'
  <2>0. req[r] \in Searching /\ Fits(req[r])
    BY Searched
  <2>e. req[r].step # "idle" => Engine(r) \in Engines /\ Tag(r) \in Tags \cup {NoTag}
    BY Searched
  <2>b. ASSUME UNCHANGED breakers PROVE BreakerTypes'
    BY <2>b DEF breakers, BreakerTypes
  <2>r. ASSUME UNCHANGED registry PROVE RegistryTypes'
    BY <2>r DEF registry, RegistryTypes
  <2>p. req[r].proxy # NoProxy => req[r].proxy \in Proxies
    BY <2>0 DEF Searching
  <2>1. CASE CreateBreaker(r)
    BY <2>1, <2>e, <2>r DEF CreateBreaker, BreakerTypes
  <2>2. CASE Admit(r)
    BY <2>2, <2>e, <2>r, AllowTypes DEF Admit
  <2>3. CASE \E p \in Proxies : CallThrough(r, p)
    BY <2>3, <2>e, <2>b, ServedTypes DEF CallThrough
  <2>4. CASE NoProxyLeft(r)
    BY <2>4, <2>e, <2>b, RefusedTypes DEF NoProxyLeft
  <2>5. CASE Answer(r) \/ ProxyError(r) \/ TimeOut(r)
    <3>1. BreakerTypes'
      BY <2>5, <2>b DEF Answer, ProxyError, TimeOut
    <3>2. ReportsSuccess(r) \/ ReportsFailure(r)
      BY <2>5 DEF Answer, ProxyError, TimeOut
    <3>3. ASSUME InPool(r) PROVE RegistryTypes'
      BY <3>2, <3>3, <2>p, ReportTypes DEF InPool, ReportsSuccess, ReportsFailure
    <3>4. ASSUME ~InPool(r) PROVE RegistryTypes'
      BY <3>2, <3>4 DEF ReportsSuccess, ReportsFailure, RegistryTypes
    <3>5. QED
      BY <3>1, <3>3, <3>4
  <2>6. CASE SecondRun(r)
    BY <2>6, <2>0, <2>p, <2>b, ReportTypes DEF SecondRun, Fits
  <2>7. CASE Succeed(r)
    BY <2>7, <2>e, <2>r, RecordTypes DEF Succeed
  <2>8. CASE Fail(r)
    <3>1. RegistryTypes'
      BY <2>8, <2>r DEF Fail
    <3>2. BreakerTypes'
      BY <2>8, <2>e, RecordTypes DEF Fail, BreakerTypes
    <3>3. QED
      BY <3>1, <3>2
  <2>9. ASSUME UNCHANGED <<breakers, registry>> PROVE BreakerTypes' /\ RegistryTypes'
    BY <2>9, <2>b, <2>r
  <2>10. CASE \/ Leave(r) \/ GetBreaker(r) \/ StopAttempt(r) \/ CallDirect(r)
              \/ RetryableError(r) \/ FatalError(r) \/ ContextError(r) \/ Challenge(r)
              \/ Rotate(r) \/ KeepChallenge(r)
    BY <2>9, <2>10 DEF Leave, GetBreaker, StopAttempt, CallDirect, RetryableError, FatalError,
                       ContextError, Challenge, Rotate, KeepChallenge
  <2> QED
    BY <1>1, <2>1, <2>2, <2>3, <2>4, <2>5, <2>6, <2>7, <2>8, <2>10 DEF Proceed, EngineReturns
<1>2. CASE Tick
  <2>1. BreakerTypes'
    BY <1>2, PartsAssumption DEF Tick, BreakerTypes
  <2>2. RegistryTypes'
    BY <1>2, PartsAssumption DEF Tick, RegistryTypes, Registry!NoQuarantine
  <2>3. QED
    BY <2>1, <2>2
<1>3. CASE (\E r \in Requests : Arrive(r) \/ Cancel(r)) \/ UNCHANGED vars
  BY <1>3 DEF Arrive, Cancel, vars, breakers, registry, BreakerTypes, RegistryTypes
<1> QED
  BY <1>1, <1>2, <1>3 DEF Next

-----------------------------------------------------------------------------
(* Theorems. *)

LEMMA Invariance == Spec => []IInv
<1>1. Init => IInv
  BY SearchStarts, PartsStart DEF IInv
<1>2. IInv /\ [Next]_vars => IInv'
  BY SearchKept, PartsKept DEF IInv
<1>3. QED
  BY <1>1, <1>2, PTL DEF Spec

\* An engine that has a pool is never called directly, one that has none never
\* through a proxy: what CallDirect and CallThrough choose still holds when the
\* request comes to its second run or to another engine.
THEOREM PoolsAreKeptTo == Spec => []PooledNeverDirect
<1>1. IInv => PooledNeverDirect
  BY Searched DEF IInv, PooledNeverDirect, InPool, Tag, Engine, Fits
<1>2. QED
  BY <1>1, Invariance, PTL

\* Requests move one at a time, and an attempt becomes a call directly or
\* through the proxy the registry serves.
LEMMA OthersStay ==
  ASSUME SearchInv, NEW s \in Requests, Arrive(s) \/ Cancel(s) \/ Proceed(s),
         NEW r \in Requests, r # s
  PROVE  req'[r] = req[r]
<1> USE DEF SearchInv, Go, Fails, Retry
<1>1. ASSUME EngineReturns(s) PROVE req'[r] = req[r]
  BY <1>1 DEF EngineReturns, Answer, ProxyError, TimeOut, RetryableError, FatalError,
              ContextError, Challenge
<1>2. ASSUME \E p \in Proxies : CallThrough(s, p) PROVE req'[r] = req[r]
  BY <1>2 DEF CallThrough
<1>3. QED
  BY <1>1, <1>2 DEF Arrive, Cancel, Proceed, Leave, GetBreaker, CreateBreaker, Admit, StopAttempt,
     CallDirect, NoProxyLeft, Rotate, KeepChallenge, SecondRun, Succeed, Fail

LEMMA CallBegins ==
  ASSUME SearchInv, Next, NEW r \in Requests, req[r].step = "attempt", req'[r].step = "using"
  PROVE  CallDirect(r) \/ \E p \in Proxies : CallThrough(r, p)
<1>1. req[r] \in Searching
  BY Searched
<1>2. PICK s \in Requests : Arrive(s) \/ Cancel(s) \/ Proceed(s)
  BY DEF Next, Tick
<1>3. s = r
  BY <1>2, OthersStay
<1>4. ~Cancel(r)
  BY <1>1 DEF Cancel, Searching, SearchInv
<1>5. \A err \in Errors : ~Fails(r, err)
  BY <1>1 DEF Fails, Searching, SearchInv
<1>6. ~StopAttempt(r) /\ ~NoProxyLeft(r)
  BY <1>5 DEF StopAttempt, NoProxyLeft, Errors
<1>7. QED
  BY <1>2, <1>3, <1>4, <1>6 DEF Arrive, Proceed, Leave, GetBreaker, CreateBreaker, Admit,
     Rotate, KeepChallenge, SecondRun, Succeed, Fail, EngineReturns, Answer, ProxyError, TimeOut,
     RetryableError, FatalError, ContextError, Challenge

\* A pool is asked for its candidates after the challenge was reported, so the
\* second run gets the challenged proxy only from a pool that has no other one.
THEOREM BurnedProxyIsLast == Spec => BurnedProxyNotReused
<1> DEFINE Last(r) ==
      (/\ req[r].step = "attempt" /\ req'[r].step = "using"
       /\ InPool(r)' /\ req'[r].proxy = req[r].burned)
      => \A q \in Registry!Members(Tag(r)) : disabled[q] \/ challenged[q] > 0
                                             \/ challenged[req[r].burned] = 0
<1>1. ASSUME IInv, Next, NEW r \in Requests PROVE Last(r)
  <2> SUFFICES ASSUME req[r].step = "attempt", req'[r].step = "using",
                      InPool(r)', req'[r].proxy = req[r].burned,
                      NEW q \in Registry!Members(Tag(r)),
                      ~disabled[q], ~(challenged[q] > 0)
               PROVE  challenged[req[r].burned] = 0
    OBVIOUS
  <2> DEFINE b == req[r].burned
             t == Tag(r)
  <2>1. SearchInv /\ RegistryTypes /\ req[r] \in Searching /\ Fits(req[r])
    BY <1>1, Searched DEF IInv
  <2>2. ~CallDirect(r)
    BY <2>1 DEF CallDirect, Go, InPool, Fits, SearchInv, Searching
  <2>3. CallThrough(r, b)
    <3>1. PICK p \in Proxies : CallThrough(r, p)
      BY <1>1, <2>1, <2>2, CallBegins
    <3>2. req'[r].proxy = p
      BY <2>1, <3>1 DEF CallThrough, SearchInv, Searching
    <3>3. QED
      BY <3>1, <3>2
  <2>4. t \in Tags /\ b \in Registry!Candidates(t)
    BY <2>1, <2>3, Searched DEF CallThrough, Registry!NextByTagServed
  <2>5. q \in Proxies
    BY <2>1, <2>4, PoolTypes DEF Registry!Members
  <2>6. challenged[q] = 0
    BY <2>1, <2>5, PartsAssumption DEF RegistryTypes
  <2>7. QED
    BY <2>4, <2>6 DEF Registry!Candidates
<1>2. IInv /\ [Next]_vars => [\A r \in Requests : Last(r)]_vars
  BY <1>1
<1>3. QED
  BY <1>2, Invariance, PTL DEF BurnedProxyNotReused, Spec

-----------------------------------------------------------------------------
(* The calls of one search to its engine. *)

\* Of the first run, before the second one.
Before(q) == IF q.burned = NoProxy THEN 0 ELSE MaxRetries + 1

\* n calls are what a request doing q may have made.
Within(q, n) ==
  /\ n \in Nat
  /\ n <= Before(q) + MaxRetries + 1
  /\ q.step \in {"idle", "next", "missing", "ready"} => n = 0
  /\ q.step = "attempt" => n <= Before(q) + q.attempt
  /\ q.step = "using" => n <= Before(q) + q.attempt + 1

CountInv == calls \in [Requests -> Nat] /\ \A r \in Requests : Within(req[r], calls[r])

LEMMA CountStarts == HInit => CountInv
<1> SUFFICES ASSUME HInit PROVE CountInv
  OBVIOUS
<1>1. calls = [r \in Requests |-> 0] /\ req = [r \in Requests |-> Idle]
  BY DEF HInit, Init
<1>2. Within(Idle, 0)
  BY IdleFits, PipelineAssumption DEF Within, Before
<1>3. QED
  BY <1>1, <1>2 DEF CountInv

LEMMA CountKept == IInv /\ CountInv /\ [HNext]_hvars => CountInv'
<1> SUFFICES ASSUME IInv, CountInv, [HNext]_hvars PROVE CountInv'
  OBVIOUS
<1> USE PipelineAssumption
<1>1. ASSUME HNext, NEW r \in Requests PROVE Within(req'[r], calls'[r])
  <2> DEFINE q == req[r]
             x == req'[r]
             n == calls[r]
  <2>0. /\ SearchInv /\ q \in Searching /\ Fits(q) /\ Within(q, n)
        /\ q.attempt \in 0 .. MaxRetries /\ MaxRetries \in Nat /\ Before(q) \in Nat
    BY Searched DEF IInv, CountInv, Searching, Before
  <2>1. calls'[r] = IF Leaving(r) THEN 0 ELSE IF Calling(r) THEN n + 1 ELSE n
    BY <1>1 DEF HNext, Remember
  <2>2. CASE Leaving(r)
    <3>1. calls'[r] = 0 /\ x.step \in {"idle", "next"}
      BY <2>1, <2>2 DEF Leaving
    <3>2. QED
      BY <2>0, <3>1 DEF Within, Before
  <2>3. CASE Calling(r)
    <3>1. q.step = "attempt" /\ x.step = "using"
      BY <2>3 DEF Calling
    <3>2. CallDirect(r) \/ \E p \in Proxies : CallThrough(r, p)
      BY <1>1, <2>0, <3>1, CallBegins DEF HNext
    <3>3. x.attempt = q.attempt /\ x.burned = q.burned
      <4>1. CASE CallDirect(r)
        <5>1. x = [q EXCEPT !.step = "using"]
          BY <2>0, <4>1 DEF CallDirect, Go, SearchInv
        <5>2. QED
          BY <2>0, <5>1 DEF Searching
      <4>2. ASSUME NEW p \in Proxies, CallThrough(r, p)
            PROVE  x.attempt = q.attempt /\ x.burned = q.burned
        <5>1. x = [q EXCEPT !.step = "using", !.proxy = p]
          BY <2>0, <4>2 DEF CallThrough, SearchInv
        <5>2. QED
          BY <2>0, <5>1 DEF Searching
      <4>3. QED
        BY <3>2, <4>1, <4>2
    <3>4. calls'[r] = n + 1
      BY <2>1, <2>3, <3>1 DEF Leaving
    <3>5. QED
      BY <2>0, <3>1, <3>3, <3>4 DEF Within, Before
  <2>4. CASE x = q /\ ~Leaving(r) /\ ~Calling(r)
    BY <2>0, <2>1, <2>4 DEF Within
  <2>5. ASSUME ~Leaving(r), ~Calling(r), Arrive(r) \/ Cancel(r) \/ Proceed(r)
        PROVE  Within(x, calls'[r])
    <3>0. calls'[r] = n
      BY <2>1, <2>5
    <3>a. ASSUME NEW err, q.step # "idle", Fails(r, err) PROVE Within(x, n)
      <4>1. x.step = "failed" /\ x.burned = q.burned
        BY <2>0, <3>a DEF Fails, SearchInv, Searching
      <4>2. QED
        BY <2>0, <4>1 DEF Within, Before
    <3>b. ASSUME q.step = "using", Retry(r) PROVE Within(x, n)
      <4>1. CASE q.attempt < MaxRetries
        <5>0. x = [q EXCEPT !.step = "attempt", !.attempt = q.attempt + 1, !.proxy = NoProxy]
          BY <2>0, <3>b, <4>1 DEF Retry, SearchInv
        <5>1. x.step = "attempt" /\ x.burned = q.burned /\ x.attempt = q.attempt + 1
          BY <2>0, <5>0 DEF Searching
        <5>2. QED
          BY <2>0, <3>b, <5>1 DEF Within, Before
      <4>2. CASE ~(q.attempt < MaxRetries)
        BY <3>a, <3>b, <4>2 DEF Retry
      <4>3. QED
        BY <4>1, <4>2
    <3>1. CASE Arrive(r) \/ Leave(r) \/ Succeed(r) \/ Fail(r)
      <4>1. x.step \in {"idle", "next"}
        <5>1. ASSUME Leave(r) \/ Succeed(r) PROVE x.step = "idle"
          BY <2>0, <5>1, IdleFits DEF Leave, Succeed, SearchInv
        <5>2. ASSUME Arrive(r) PROVE x.step = "next"
          <6>1. PICK mode \in Modes, e \in Engines :
                  req' = [req EXCEPT ![r] = [Idle EXCEPT !.step = "next", !.mode = mode,
                                                         !.todo = Plan(mode, e)]]
            BY <5>2 DEF Arrive
          <6>2. x = [Idle EXCEPT !.step = "next", !.mode = mode, !.todo = Plan(mode, e)]
            BY <2>0, <6>1 DEF SearchInv
          <6>3. QED
            BY <6>2, IdleFits DEF Searching
        <5>3. ASSUME Fail(r) PROVE x.step \in {"idle", "next"}
          <6>1. \/ x = Idle
                \/ x = [Idle EXCEPT !.step = "next", !.mode = q.mode, !.first = FALSE,
                                    !.todo = Tail(q.todo), !.done = q.done]
            BY <2>0, <5>3 DEF Fail, SearchInv
          <6>2. QED
            BY <6>1, IdleFits DEF Searching
        <5>4. QED
          BY <3>1, <5>1, <5>2, <5>3
      <4>2. QED
        BY <2>5, <4>1 DEF Leaving
    <3>2. CASE Cancel(r)
      <4>1. x.step = q.step /\ x.burned = q.burned /\ x.attempt = q.attempt
        BY <2>0, <3>2 DEF Cancel, SearchInv, Searching
      <4>2. QED
        BY <2>0, <3>0, <4>1 DEF Within, Before
    <3>3. CASE GetBreaker(r) \/ CreateBreaker(r)
      <4>1. x.step \in {"missing", "ready"} /\ x.burned = q.burned /\ n = 0
        BY <2>0, <3>3 DEF GetBreaker, CreateBreaker, Go, SearchInv, Searching, Within
      <4>2. QED
        BY <2>0, <3>0, <4>1 DEF Within, Before
    <3>4. CASE Admit(r)
      <4>1. CASE Go(r, "attempt")
        <5>1. x.step = "attempt" /\ x.burned = q.burned /\ n = 0 /\ x.attempt = q.attempt
          BY <2>0, <3>4, <4>1 DEF Admit, Go, SearchInv, Searching, Within
        <5>2. QED
          BY <2>0, <3>0, <5>1 DEF Within, Before
      <4>2. QED
        BY <3>0, <3>4, <3>a, <4>1 DEF Admit
    <3>5. CASE \/ StopAttempt(r) \/ NoProxyLeft(r) \/ TimeOut(r) \/ FatalError(r)
               \/ ContextError(r) \/ KeepChallenge(r)
      BY <3>0, <3>5, <3>a DEF StopAttempt, NoProxyLeft, TimeOut, FatalError, ContextError,
                              KeepChallenge
    <3>6. CASE ProxyError(r) \/ RetryableError(r)
      BY <3>0, <3>6, <3>b DEF ProxyError, RetryableError
    <3>7. CASE CallDirect(r) \/ \E p \in Proxies : CallThrough(r, p)
      <4>1. x.step = "using"
        <5>1. ASSUME CallDirect(r) PROVE x.step = "using"
          <6>1. x = [q EXCEPT !.step = "using"]
            BY <2>0, <5>1 DEF CallDirect, Go, SearchInv
          <6>2. QED
            BY <2>0, <6>1 DEF Searching
        <5>2. ASSUME NEW p \in Proxies, CallThrough(r, p) PROVE x.step = "using"
          <6>1. x = [q EXCEPT !.step = "using", !.proxy = p]
            BY <2>0, <5>2 DEF CallThrough, SearchInv
          <6>2. QED
            BY <2>0, <6>1 DEF Searching
        <5>3. QED
          BY <3>7, <5>1, <5>2
      <4>2. q.step = "attempt"
        BY <3>7 DEF CallDirect, CallThrough
      <4>3. QED
        BY <2>5, <4>1, <4>2 DEF Calling
    <3>8. CASE Answer(r) \/ Challenge(r) \/ Rotate(r)
      <4>1. x.step \in {"succeeded", "challenged", "rotating"} /\ x.burned = q.burned
        <5>1. CASE x = [q EXCEPT !.step = "succeeded", !.attempt = 0, !.proxy = NoProxy]
          BY <2>0, <5>1 DEF Searching
        <5>2. CASE x = [q EXCEPT !.step = "challenged", !.attempt = 0]
          BY <2>0, <5>2 DEF Searching
        <5>3. CASE x = [q EXCEPT !.step = "rotating"]
          BY <2>0, <5>3 DEF Searching
        <5>4. QED
          BY <2>0, <3>8, <5>1, <5>2, <5>3 DEF Answer, Challenge, Rotate, Go, SearchInv
      <4>2. QED
        BY <2>0, <3>0, <4>1 DEF Within, Before
    <3>9. CASE SecondRun(r)
      <4>1. x.step = "attempt" /\ x.burned # NoProxy /\ x.attempt = q.attempt
        BY <2>0, <3>9 DEF SecondRun, SearchInv, Searching, Fits
      <4>2. q.burned = NoProxy
        BY <2>0, <3>9 DEF SecondRun, Fits
      <4>3. QED
        BY <2>0, <3>0, <4>1, <4>2 DEF Within, Before
    <3>10. QED
      BY <2>5, <3>1, <3>2, <3>3, <3>4, <3>5, <3>6, <3>7, <3>8, <3>9 DEF Proceed, EngineReturns
  <2>6. x = q \/ Arrive(r) \/ Cancel(r) \/ Proceed(r)
    BY <1>1, <2>0, OthersStay DEF HNext, Next, Tick
  <2>7. QED
    BY <2>2, <2>3, <2>4, <2>5, <2>6
<1>2. CASE HNext
  <2>1. calls' = [r \in Requests |->
                    IF Leaving(r) THEN 0 ELSE IF Calling(r) THEN calls[r] + 1 ELSE calls[r]]
    BY <1>2 DEF HNext, Remember
  <2>2. \A r \in Requests : calls'[r] \in Nat
    BY <1>1, <1>2 DEF Within
  <2>3. QED
    BY <1>1, <1>2, <2>1, <2>2 DEF CountInv
<1>3. CASE UNCHANGED hvars
  BY <1>3 DEF hvars, vars, CountInv
<1>4. QED
  BY <1>2, <1>3

LEMMA HistoryImplements == HSpec => Spec
<1>1. HInit => Init
  BY DEF HInit
<1>2. [HNext]_hvars => [Next]_vars
  BY DEF HNext, hvars
<1>3. QED
  BY <1>1, <1>2, PTL DEF HSpec, Spec

\* Retries, challenges and the rotation, in whatever order the engine causes
\* them, never make searchWithProtection call it more than the two budgets
\* allow, and no more than one if it did not rotate.
THEOREM BudgetKept == HSpec => []CallsWithinBudget
<1>1. CountInv => CallsWithinBudget
  <2> SUFFICES ASSUME CountInv, NEW r \in Requests
               PROVE  calls[r] <= (MaxRetries + 1) * (IF req[r].burned = NoProxy THEN 1 ELSE 2)
    BY DEF CallsWithinBudget
  <2>1. Within(req[r], calls[r]) /\ MaxRetries \in Nat
    BY PipelineAssumption DEF CountInv
  <2>2. CASE req[r].burned = NoProxy
    BY <2>1, <2>2 DEF Within, Before
  <2>3. CASE req[r].burned # NoProxy
    BY <2>1, <2>3 DEF Within, Before
  <2>4. QED
    BY <2>2, <2>3
<1>2. HSpec => []CountInv
  BY CountStarts, CountKept, Invariance, HistoryImplements, PTL DEF HSpec
<1>3. QED
  BY <1>1, <1>2, PTL

-----------------------------------------------------------------------------
(* The pipeline implements its parts. *)

\* A request doing q, as the breakers and as the registry see it.
AsCall(q) ==
  IF q.step \in {"idle", "next"} \/ q.err = "open" THEN [step |-> "idle"]
  ELSE [step |-> IF q.step \in {"missing", "ready"} THEN q.step ELSE "running",
        key |-> Head(q.todo)]
AsUse(q) ==
  IF q.step \in {"using", "challenged", "rotating"} /\ q.proxy # NoProxy
  THEN [step |-> IF q.step = "rotating" THEN "rotating" ELSE "using",
        proxy |-> q.proxy, tag |-> PolicyTag[Head(q.todo)]]
  ELSE [step |-> "idle"]

LEMMA Seen ==
  /\ BreakerCall = [r \in Requests |-> AsCall(req[r])]
  /\ BreakerCall' = [r \in Requests |-> AsCall(req'[r])]
  /\ ProxyUse = [r \in Requests |-> AsUse(req[r])]
  /\ ProxyUse' = [r \in Requests |-> AsUse(req'[r])]
BY DEF BreakerCall, ProxyUse, AsCall, AsUse, InPool, Tag, Engine

\* What a step of one request changes of it.
LEMMA SeenMove ==
  ASSUME SearchInv, NEW r \in Requests, Arrive(r) \/ Cancel(r) \/ Proceed(r)
  PROVE  /\ BreakerCall[r] = AsCall(req[r]) /\ ProxyUse[r] = AsUse(req[r])
         /\ BreakerCall' = [BreakerCall EXCEPT ![r] = AsCall(req'[r])]
         /\ ProxyUse' = [ProxyUse EXCEPT ![r] = AsUse(req'[r])]
         /\ AsCall(req'[r]) = AsCall(req[r]) => BreakerCall' = BreakerCall
         /\ AsUse(req'[r]) = AsUse(req[r]) => ProxyUse' = ProxyUse
<1>1. \A s \in Requests \ {r} : req'[s] = req[s]
  BY OthersStay
<1>2. QED
  BY <1>1, Seen

\* The fields of a request that failed, and of one that retries.
LEMMA FailsFields ==
  ASSUME SearchInv, NEW r \in Requests, NEW err, Fails(r, err)
  PROVE  /\ req'[r].step = "failed" /\ req'[r].err = err
         /\ req'[r].proxy = NoProxy /\ req'[r].todo = req[r].todo
<1>1. req[r] \in Searching
  BY Searched
<1>2. req'[r] = [req[r] EXCEPT !.step = "failed", !.err = err, !.attempt = 0, !.proxy = NoProxy]
  BY DEF Fails, SearchInv
<1>3. QED
  BY <1>1, <1>2 DEF Searching

LEMMA RetryFields ==
  ASSUME SearchInv, NEW r \in Requests, req[r].step = "using", Retry(r)
  PROVE  /\ req'[r].step \in {"attempt", "failed"} /\ req'[r].err # "open"
         /\ req'[r].proxy = NoProxy /\ req'[r].todo = req[r].todo
<1>1. CASE req[r].attempt < MaxRetries
  <2>1. req[r] \in Searching /\ Fits(req[r])
    BY Searched
  <2>2. req'[r] = [req[r] EXCEPT !.step = "attempt", !.attempt = req[r].attempt + 1,
                                 !.proxy = NoProxy]
    BY <1>1 DEF Retry, SearchInv
  <2>3. QED
    BY <2>1, <2>2 DEF Searching, Fits
<1>2. CASE ~(req[r].attempt < MaxRetries)
  BY <1>2, FailsFields DEF Retry
<1>3. QED
  BY <1>1, <1>2

LEMMA GoFields ==
  ASSUME SearchInv, NEW r \in Requests, NEW step, Go(r, step)
  PROVE  /\ req'[r].step = step /\ req'[r].err = req[r].err
         /\ req'[r].proxy = req[r].proxy /\ req'[r].todo = req[r].todo
<1>1. req[r] \in Searching
  BY Searched
<1>2. req'[r] = [req[r] EXCEPT !.step = step]
  BY DEF Go, SearchInv
<1>3. QED
  BY <1>1, <1>2 DEF Searching

\* The fields of a request that was given a proxy, or that answered, was
\* challenged or is in its second run.
LEMMA OtherFields ==
  ASSUME SearchInv, NEW r \in Requests
  PROVE  /\ \A p \in Proxies : CallThrough(r, p) =>
              /\ req'[r].step = "using" /\ req'[r].proxy = p
              /\ req'[r].err = req[r].err /\ req'[r].todo = req[r].todo
         /\ Answer(r) => /\ req'[r].step = "succeeded" /\ req'[r].proxy = NoProxy
                         /\ req'[r].err = req[r].err /\ req'[r].todo = req[r].todo
         /\ Challenge(r) => /\ req'[r].step = "challenged" /\ req'[r].proxy = req[r].proxy
                            /\ req'[r].err = req[r].err /\ req'[r].todo = req[r].todo
         /\ SecondRun(r) => /\ req'[r].step = "attempt" /\ req'[r].proxy = NoProxy
                            /\ req'[r].err = req[r].err /\ req'[r].todo = req[r].todo
         /\ Cancel(r) => /\ req'[r].step = req[r].step /\ req'[r].proxy = req[r].proxy
                         /\ req'[r].err = req[r].err /\ req'[r].todo = req[r].todo
<1> DEFINE q == req[r]
           x == req'[r]
<1>0. q \in Searching
  BY Searched
<1>1. ASSUME NEW p \in Proxies, CallThrough(r, p)
      PROVE  x.step = "using" /\ x.proxy = p /\ x.err = q.err /\ x.todo = q.todo
  <2>1. x = [q EXCEPT !.step = "using", !.proxy = p]
    BY <1>1 DEF CallThrough, SearchInv
  <2>2. QED
    BY <1>0, <2>1 DEF Searching
<1>2. ASSUME Answer(r)
      PROVE  x.step = "succeeded" /\ x.proxy = NoProxy /\ x.err = q.err /\ x.todo = q.todo
  <2>1. x = [q EXCEPT !.step = "succeeded", !.attempt = 0, !.proxy = NoProxy]
    BY <1>2 DEF Answer, SearchInv
  <2>2. QED
    BY <1>0, <2>1 DEF Searching
<1>3. ASSUME Challenge(r)
      PROVE  x.step = "challenged" /\ x.proxy = q.proxy /\ x.err = q.err /\ x.todo = q.todo
  <2>1. x = [q EXCEPT !.step = "challenged", !.attempt = 0]
    BY <1>3 DEF Challenge, SearchInv
  <2>2. QED
    BY <1>0, <2>1 DEF Searching
<1>4. ASSUME SecondRun(r)
      PROVE  x.step = "attempt" /\ x.proxy = NoProxy /\ x.err = q.err /\ x.todo = q.todo
  <2>1. x = [q EXCEPT !.step = "attempt", !.proxy = NoProxy, !.burned = q.proxy]
    BY <1>4 DEF SecondRun, SearchInv
  <2>2. QED
    BY <1>0, <2>1 DEF Searching
<1>5. ASSUME Cancel(r)
      PROVE  x.step = q.step /\ x.proxy = q.proxy /\ x.err = q.err /\ x.todo = q.todo
  BY <1>0, <1>5 DEF Cancel, SearchInv, Searching
<1>6. QED
  BY <1>1, <1>2, <1>3, <1>4, <1>5

\* A search ends or goes on to the next engine.
LEMMA LeavesFields ==
  ASSUME SearchInv, NEW r \in Requests, Arrive(r) \/ Leave(r) \/ Succeed(r) \/ Fail(r)
  PROVE  req'[r].step \in {"idle", "next"}
<1>1. ASSUME Leave(r) \/ Succeed(r) PROVE req'[r].step = "idle"
  BY <1>1, IdleFits DEF Leave, Succeed, SearchInv
<1>2. ASSUME Arrive(r) PROVE req'[r].step = "next"
  <2>1. PICK mode \in Modes, e \in Engines :
          req' = [req EXCEPT ![r] = [Idle EXCEPT !.step = "next", !.mode = mode,
                                                 !.todo = Plan(mode, e)]]
    BY <1>2 DEF Arrive
  <2>2. req'[r] = [Idle EXCEPT !.step = "next", !.mode = mode, !.todo = Plan(mode, e)]
    BY <2>1 DEF SearchInv
  <2>3. QED
    BY <2>2, IdleFits DEF Searching
<1>3. ASSUME Fail(r) PROVE req'[r].step \in {"idle", "next"}
  <2>1. \/ req'[r] = Idle
        \/ req'[r] = [Idle EXCEPT !.step = "next", !.mode = req[r].mode, !.first = FALSE,
                                  !.todo = Tail(req[r].todo), !.done = req[r].done]
    BY <1>3 DEF Fail, SearchInv
  <2>2. QED
    BY <2>1, IdleFits DEF Searching
<1>4. QED
  BY <1>1, <1>2, <1>3

\* Starting states.
LEMMA PartsStartWith == Init => Breaker!Init /\ Registry!Init
<1> SUFFICES ASSUME Init PROVE Breaker!Init /\ Registry!Init
  OBVIOUS
<1>1. req = [r \in Requests |-> Idle]
  BY DEF Init
<1>2. AsCall(Idle) = [step |-> "idle"] /\ AsUse(Idle) = [step |-> "idle"]
  BY IdleFits DEF AsCall, AsUse
<1>3. QED
  BY <1>1, <1>2, Seen DEF Init, Breaker!Init, Registry!Init, Breaker!Idle, Registry!Idle

LEMMA BreakersStep == IInv /\ [Next]_vars => [Breaker!Next]_(Breaker!vars)
<1> SUFFICES ASSUME IInv, [Next]_vars PROVE Breaker!Next \/ UNCHANGED Breaker!vars
  OBVIOUS
<1>s. SearchInv
  BY DEF IInv
<1>1. ASSUME NEW r \in Requests, Arrive(r) \/ Cancel(r) \/ Proceed(r)
      PROVE  Breaker!Next \/ UNCHANGED Breaker!vars
  <2> DEFINE q == req[r]
             x == req'[r]
  <2>0. q \in Searching /\ Fits(q) /\ q.err \in Errors
    BY <1>s, Searched DEF Searching
  <2>e. q.step # "idle" => Engine(r) \in Engines /\ Engine(r) = Head(q.todo)
    BY <1>s, Searched DEF Engine
  <2>c. /\ BreakerCall[r] = AsCall(q)
        /\ BreakerCall' = [BreakerCall EXCEPT ![r] = AsCall(x)]
        /\ AsCall(x) = AsCall(q) => BreakerCall' = BreakerCall
    BY <1>s, <1>1, SeenMove
  <2>r. q.step \in {"attempt", "using", "challenged", "rotating", "succeeded"} =>
          AsCall(q) = [step |-> "running", key |-> Head(q.todo)]
    BY <2>0 DEF AsCall, Fits
  <2>u. ASSUME q.step \in {"attempt", "using", "challenged", "rotating"}, UNCHANGED breakers,
               x.step \in {"attempt", "using", "challenged", "rotating", "succeeded", "failed"},
               x.err # "open", x.todo = q.todo
        PROVE  UNCHANGED Breaker!vars
    <3>1. AsCall(x) = AsCall(q)
      BY <2>r, <2>u DEF AsCall
    <3>2. QED
      BY <2>c, <2>u, <3>1 DEF Breaker!vars, breakers
  <2>f. q.step \in {"attempt", "using", "challenged", "rotating"} => q.err # "open"
    BY <2>0 DEF Fits
  <2>1. CASE Arrive(r) \/ Leave(r)
    <3>1. AsCall(x) = AsCall(q)
      BY <1>s, <2>1, LeavesFields DEF AsCall, Arrive, Leave
    <3>2. QED
      BY <2>1, <2>c, <3>1 DEF Arrive, Leave, Breaker!vars, breakers
  <2>2. CASE Cancel(r)
    <3>1. AsCall(x) = AsCall(q)
      BY <1>s, <2>2, OtherFields DEF AsCall
    <3>2. QED
      BY <2>2, <2>c, <3>1 DEF Cancel, Breaker!vars, breakers
  <2>3. CASE GetBreaker(r)
    <3>1. AsCall(q) = [step |-> "idle"]
      BY <2>3 DEF GetBreaker, AsCall
    <3>2. AsCall(x) = [step |-> IF Engine(r) \in created THEN "ready" ELSE "missing",
                       key |-> Engine(r)]
      BY <1>s, <2>0, <2>3, <2>e, GoFields DEF GetBreaker, AsCall, Fits
    <3>3. Breaker!Get(r, Engine(r))
      BY <2>3, <2>c, <3>1, <3>2 DEF GetBreaker, Breaker!Get, Breaker!Idle, Breaker!CallAt,
                                    Breaker!breakerVars, breakers
    <3>4. QED
      BY <2>3, <2>e, <3>3 DEF GetBreaker, Breaker!Next
  <2>4. CASE CreateBreaker(r)
    <3>1. AsCall(q) = [step |-> "missing", key |-> Engine(r)]
      BY <2>0, <2>4, <2>e DEF CreateBreaker, AsCall, Fits
    <3>2. AsCall(x) = [step |-> "ready", key |-> Engine(r)]
      BY <1>s, <2>0, <2>4, <2>e, GoFields DEF CreateBreaker, AsCall, Fits
    <3>3. Breaker!Create(r)
      BY <2>4, <2>c, <3>1, <3>2 DEF CreateBreaker, Breaker!Create, Breaker!CallAt, Breaker!breakerVars
    <3>4. QED
      BY <3>3 DEF Breaker!Next
  <2>5. CASE Admit(r)
    <3>1. AsCall(q) = [step |-> "ready", key |-> Engine(r)]
      BY <2>0, <2>5, <2>e DEF Admit, AsCall, Fits
    <3>2. ASSUME Breaker!Allowed(Engine(r))
          PROVE  AsCall(x) = [step |-> "running", key |-> Engine(r)]
      BY <1>s, <2>0, <2>5, <2>e, <3>2, GoFields DEF Admit, AsCall, Fits
    <3>3. ASSUME ~Breaker!Allowed(Engine(r)) PROVE AsCall(x) = [step |-> "idle"]
      BY <1>s, <2>5, <3>3, FailsFields DEF Admit, AsCall
    <3>4. AsCall(x) = IF Breaker!Allowed(Engine(r)) THEN [step |-> "running", key |-> Engine(r)]
                                                    ELSE [step |-> "idle"]
      BY <3>2, <3>3
    <3>5. Breaker!Admit(r)
      BY <2>5, <2>c, <3>1, <3>4 DEF Admit, Breaker!Admit, Breaker!CallAt, Breaker!Idle
    <3>6. QED
      BY <3>5 DEF Breaker!Next
  <2>6. CASE \/ StopAttempt(r) \/ NoProxyLeft(r) \/ TimeOut(r) \/ FatalError(r)
             \/ ContextError(r) \/ KeepChallenge(r)
    <3>1. PICK err \in {"context", "unavailable", "engine"} : Fails(r, err)
      BY <2>6 DEF StopAttempt, NoProxyLeft, TimeOut, FatalError, ContextError, KeepChallenge
    <3>2. q.step \in {"attempt", "using", "challenged"} /\ UNCHANGED breakers
      BY <2>6 DEF StopAttempt, NoProxyLeft, TimeOut, FatalError, ContextError, KeepChallenge,
                  breakers
    <3>3. QED
      BY <1>s, <2>u, <3>1, <3>2, FailsFields
  <2>7. CASE ProxyError(r) \/ RetryableError(r)
    <3>1. q.step = "using" /\ Retry(r) /\ UNCHANGED breakers
      BY <2>7 DEF ProxyError, RetryableError, breakers
    <3>2. QED
      BY <1>s, <2>u, <3>1, RetryFields
  <2>8. CASE CallDirect(r) \/ Rotate(r)
    <3>1. /\ q.step \in {"attempt", "challenged"} /\ UNCHANGED breakers
          /\ Go(r, "using") \/ Go(r, "rotating")
      BY <2>8 DEF CallDirect, Rotate, breakers
    <3>2. QED
      BY <1>s, <2>u, <2>f, <3>1, GoFields
  <2>9. CASE (\E p \in Proxies : CallThrough(r, p)) \/ Answer(r) \/ Challenge(r) \/ SecondRun(r)
    <3>1. /\ q.step \in {"attempt", "using", "rotating"} /\ UNCHANGED breakers
      BY <2>9 DEF CallThrough, Answer, Challenge, SecondRun, breakers
    <3>2. QED
      BY <1>s, <2>u, <2>f, <2>9, <3>1, OtherFields
  <2>10. CASE Succeed(r) \/ Fail(r)
    <3>1. AsCall(x) = [step |-> "idle"]
      BY <1>s, <2>10, LeavesFields DEF AsCall
    <3>2. CASE Succeed(r)
      <4>1. AsCall(q) = [step |-> "running", key |-> Engine(r)]
        BY <3>2, <2>r, <2>e DEF Succeed
      <4>2. Breaker!Succeed(r)
        <5>1. BreakerCall[r].step = "running" /\ BreakerCall[r].key = Engine(r)
          BY <4>1, <2>c
        <5>2. BreakerCall' = [BreakerCall EXCEPT ![r] = Breaker!Idle]
          BY <3>1, <2>c DEF Breaker!Idle
        <5>3. Breaker!RecordSuccess(Engine(r)) /\ UNCHANGED created
          BY <3>2 DEF Succeed
        <5>4. QED
          BY <5>1, <5>2, <5>3 DEF Breaker!Succeed
      <4>3. QED
        BY <4>2 DEF Breaker!Next
    <3>3. CASE Fail(r) /\ q.err = "open"
      <4>1. AsCall(q) = AsCall(x)
        BY <3>1, <3>3 DEF AsCall
      <4>2. QED
        BY <2>c, <3>3, <4>1 DEF Fail, Breaker!vars
    <3>4. CASE Fail(r) /\ q.err # "open"
      <4>1. AsCall(q) = [step |-> "running", key |-> Engine(r)]
        BY <3>4, <2>e DEF Fail, AsCall
      <4>2. CASE q.err = "engine"
        <5>1. Breaker!Fail(r)
          BY <2>c, <3>1, <3>4, <4>1, <4>2 DEF Fail, Breaker!Fail, Breaker!Idle
        <5>2. QED
          BY <5>1 DEF Breaker!Next
      <4>3. CASE q.err # "engine"
        <5>1. Breaker!Abandon(r)
          BY <2>c, <3>1, <3>4, <4>1, <4>3 DEF Fail, Breaker!Abandon, Breaker!Idle, Breaker!breakerVars
        <5>2. QED
          BY <5>1 DEF Breaker!Next
      <4>4. QED
        BY <4>2, <4>3
    <3>5. QED
      BY <2>10, <3>2, <3>3, <3>4
  <2> QED
    BY <1>1, <2>1, <2>2, <2>3, <2>4, <2>5, <2>6, <2>7, <2>8, <2>9, <2>10
       DEF Proceed, EngineReturns
<1>2. CASE Tick
  <2>1. BreakerCall' = BreakerCall
    BY <1>2, Seen DEF Tick
  <2>2. CASE sinceFailure' = sinceFailure
    BY <1>2, <2>1, <2>2 DEF Tick, Breaker!vars
  <2>3. CASE sinceFailure' # sinceFailure
    <3>1. sinceFailure \in [Engines -> 0 .. RecoveryTimeout] /\ RecoveryTimeout \in Nat
      BY PartsAssumption DEF IInv, BreakerTypes
    <3>2. sinceFailure' = [e \in Engines |-> IF sinceFailure[e] < RecoveryTimeout
                                             THEN sinceFailure[e] + 1 ELSE sinceFailure[e]]
      BY <1>2 DEF Tick
    <3>3. \E e \in Engines : sinceFailure[e] < RecoveryTimeout
      BY <2>3, <3>1, <3>2
    <3>4. sinceFailure' = [e \in Engines |-> IF sinceFailure[e] < RecoveryTimeout
                                             THEN sinceFailure[e] + 1 ELSE RecoveryTimeout]
      BY <3>1, <3>2
    <3>5. Breaker!Tick
      BY <1>2, <2>1, <3>3, <3>4 DEF Tick, Breaker!Tick
    <3>6. QED
      BY <3>5 DEF Breaker!Next
  <2>4. QED
    BY <2>2, <2>3
<1>3. CASE UNCHANGED vars
  BY <1>3, Seen DEF vars, Breaker!vars
<1>4. QED
  BY <1>1, <1>2, <1>3 DEF Next

LEMMA RegistryStep == IInv /\ [Next]_vars => [Registry!Next]_(Registry!vars)
<1> SUFFICES ASSUME IInv, [Next]_vars PROVE Registry!Next \/ UNCHANGED Registry!vars
  OBVIOUS
<1>s. SearchInv /\ RegistryTypes
  BY DEF IInv
<1>1. ASSUME NEW r \in Requests, Arrive(r) \/ Cancel(r) \/ Proceed(r)
      PROVE  Registry!Next \/ UNCHANGED Registry!vars
  <2> DEFINE q == req[r]
             x == req'[r]
  <2>0. q \in Searching /\ Fits(q) /\ Tag(r) = PolicyTag[Head(q.todo)]
    BY <1>s, Searched DEF Tag, Engine
  <2>e. q.step # "idle" => Tag(r) \in Tags \cup {NoTag}
    BY <1>s, Searched
  <2>c. /\ ProxyUse[r] = AsUse(q)
        /\ ProxyUse' = [ProxyUse EXCEPT ![r] = AsUse(x)]
        /\ AsUse(x) = AsUse(q) => ProxyUse' = ProxyUse
    BY <1>s, <1>1, SeenMove
  <2>i. q.step \notin {"using", "challenged", "rotating"} => AsUse(q) = [step |-> "idle"]
    BY DEF AsUse
  <2>u. ASSUME AsUse(x) = AsUse(q), UNCHANGED registry PROVE UNCHANGED Registry!vars
    BY <2>c, <2>u DEF Registry!vars, registry
  <2>h. ASSUME q.step \in {"using", "challenged"}, InPool(r)
        PROVE  /\ AsUse(q) = [step |-> "using", proxy |-> q.proxy, tag |-> Tag(r)]
               /\ ProxyUse[r].step = "using" /\ ProxyUse[r].proxy = q.proxy
               /\ ProxyUse[r].tag = Tag(r) /\ Tag(r) \in Tags
    <3>1. AsUse(q) = [step |-> "using", proxy |-> q.proxy, tag |-> Tag(r)]
      BY <2>0, <2>h DEF AsUse, InPool
    <3>2. Tag(r) \in Tags
      BY <2>0, <2>e, <2>h DEF Fits, InPool
    <3>3. QED
      BY <2>c, <3>1, <3>2
  <2>n. ASSUME q.step \in {"using", "challenged"}, ~InPool(r) PROVE AsUse(q) = [step |-> "idle"]
    BY <2>n DEF AsUse, InPool
  <2>z. ASSUME x.step \in {"attempt", "failed", "succeeded"} PROVE AsUse(x) = [step |-> "idle"]
    BY <2>z DEF AsUse
  <2>1. CASE Arrive(r) \/ Leave(r) \/ Succeed(r) \/ Fail(r)
    <3>1. AsUse(x) = [step |-> "idle"]
      BY <1>s, <2>1, LeavesFields DEF AsUse
    <3>2. AsUse(q) = [step |-> "idle"] /\ UNCHANGED registry
      BY <2>1, <2>i DEF Arrive, Leave, Succeed, Fail, registry
    <3>3. QED
      BY <2>u, <3>1, <3>2
  <2>2. CASE Cancel(r)
    <3>1. AsUse(x) = AsUse(q)
      BY <1>s, <2>2, OtherFields DEF AsUse
    <3>2. QED
      BY <2>2, <2>u, <3>1 DEF Cancel, registry
  <2>3. CASE GetBreaker(r) \/ CreateBreaker(r) \/ Admit(r) \/ StopAttempt(r)
    <3>1. AsUse(q) = [step |-> "idle"] /\ UNCHANGED registry
      BY <2>3, <2>i DEF GetBreaker, CreateBreaker, Admit, StopAttempt, registry
    <3>2. \/ \E step \in {"ready", "missing", "attempt"} : Go(r, step)
          \/ \E err \in {"open", "context"} : Fails(r, err)
      BY <2>3 DEF GetBreaker, CreateBreaker, Admit, StopAttempt
    <3>3. x.step \in {"ready", "missing", "attempt", "failed"}
      BY <1>s, <3>2, GoFields, FailsFields
    <3>4. AsUse(x) = [step |-> "idle"]
      BY <3>3 DEF AsUse
    <3>5. QED
      BY <2>u, <3>1, <3>4
  <2>4. CASE CallDirect(r)
    <3>1. x.step = "using" /\ x.proxy = NoProxy
      BY <1>s, <2>0, <2>4, GoFields DEF CallDirect, Fits
    <3>2. AsUse(x) = [step |-> "idle"] /\ AsUse(q) = [step |-> "idle"]
      BY <2>4, <2>i, <3>1 DEF AsUse, CallDirect
    <3>3. QED
      BY <2>4, <2>u, <3>2 DEF CallDirect, registry
  <2>5. ASSUME NEW p \in Proxies, CallThrough(r, p) PROVE Registry!Next
    <3>1. /\ x.step = "using" /\ x.proxy = p /\ x.todo = q.todo /\ Tag(r) \in Tags
          /\ p # NoProxy
      BY <1>s, <2>5, <2>e, OtherFields, PartsAssumption DEF CallThrough
    <3>2. AsUse(x) = [step |-> "using", proxy |-> p, tag |-> Tag(r)]
      BY <2>0, <3>1 DEF AsUse
    <3>3. AsUse(q) = [step |-> "idle"]
      BY <2>5, <2>i DEF CallThrough
    <3>4. Registry!Select(r, Tag(r), p)
      BY <2>5, <2>c, <3>2, <3>3 DEF CallThrough, Registry!Select, Registry!Idle, Registry!BusyWith
    <3>5. QED
      BY <3>1, <3>4 DEF Registry!Next
  <2>6. CASE NoProxyLeft(r)
    <3>1. AsUse(q) = [step |-> "idle"] /\ Tag(r) \in Tags
      BY <2>6, <2>i, <2>e DEF NoProxyLeft
    <3>2. AsUse(x) = AsUse(q)
      BY <1>s, <2>6, <2>z, <3>1, FailsFields DEF NoProxyLeft
    <3>3. Registry!SelectNone(r, Tag(r))
      BY <2>6, <2>c, <3>1, <3>2 DEF NoProxyLeft, Registry!SelectNone, Registry!Idle
    <3>4. QED
      BY <3>1, <3>3 DEF Registry!Next
  <2>7. ASSUME Answer(r) \/ ProxyError(r) \/ TimeOut(r)
        PROVE  Registry!Next \/ UNCHANGED Registry!vars
    <3>1. /\ q.step = "using" /\ UNCHANGED tagIndex
          /\ Answer(r) => ReportsSuccess(r)
          /\ ~Answer(r) => ReportsFailure(r)
      BY <2>7 DEF Answer, ProxyError, TimeOut, ReportsSuccess, ReportsFailure
    <3>2. x.step \in {"attempt", "failed", "succeeded"}
      BY <1>s, <2>7, OtherFields, RetryFields, FailsFields DEF ProxyError, TimeOut
    <3>3. AsUse(x) = [step |-> "idle"]
      BY <2>z, <3>2
    <3>4. CASE ~InPool(r)
      BY <2>n, <2>u, <3>1, <3>3, <3>4 DEF ReportsSuccess, ReportsFailure, registry
    <3>5. CASE InPool(r)
      <4>1. ProxyUse' = [ProxyUse EXCEPT ![r] = Registry!Idle]
        BY <2>c, <3>3 DEF Registry!Idle
      <4>2. ProxyUse[r].step = "using" /\ ProxyUse[r].proxy = q.proxy
        BY <2>h, <3>1, <3>5
      <4>3. CASE Answer(r)
        <5>1. Registry!ReportSuccess(q.proxy)
          BY <3>1, <3>5, <4>3 DEF ReportsSuccess
        <5>2. Registry!Succeed(r)
          BY <3>1, <4>1, <4>2, <5>1 DEF Registry!Succeed
        <5>3. QED
          BY <5>2 DEF Registry!Next
      <4>4. CASE ~Answer(r)
        <5>1. Registry!ReportFailure(q.proxy)
          BY <3>1, <3>5, <4>4 DEF ReportsFailure
        <5>2. Registry!Fail(r)
          BY <3>1, <4>1, <4>2, <5>1 DEF Registry!Fail
        <5>3. QED
          BY <5>2 DEF Registry!Next
      <4>5. QED
        BY <4>3, <4>4
    <3>6. QED
      BY <3>4, <3>5
  <2>8. ASSUME RetryableError(r) \/ FatalError(r) \/ ContextError(r) \/ KeepChallenge(r)
        PROVE  Registry!Next \/ UNCHANGED Registry!vars
    <3>1. q.step \in {"using", "challenged"} /\ UNCHANGED registry
      BY <2>8 DEF RetryableError, FatalError, ContextError, KeepChallenge, registry
    <3>2. x.step \in {"attempt", "failed"}
      BY <1>s, <2>8, RetryFields, FailsFields DEF RetryableError, FatalError, ContextError,
                                                  KeepChallenge
    <3>3. AsUse(x) = [step |-> "idle"]
      BY <2>z, <3>2
    <3>4. CASE ~InPool(r)
      BY <2>n, <2>u, <3>1, <3>3, <3>4
    <3>5. CASE InPool(r)
      <4>1. ProxyUse' = [ProxyUse EXCEPT ![r] = Registry!Idle]
        BY <2>c, <3>3 DEF Registry!Idle
      <4>2. ProxyUse[r].step = "using"
        BY <2>h, <3>1, <3>5
      <4>3. Registry!EndUnreported(r)
        BY <3>1, <4>1, <4>2 DEF registry, Registry!EndUnreported, Registry!health, Registry!pools
      <4>4. QED
        BY <4>3 DEF Registry!Next
    <3>6. QED
      BY <3>4, <3>5
  <2>9. CASE Challenge(r)
    <3>1. AsUse(x) = AsUse(q)
      BY <1>s, <2>9, OtherFields DEF AsUse, Challenge
    <3>2. QED
      BY <2>9, <2>u, <3>1 DEF Challenge, registry
  <2>10. ASSUME Rotate(r) PROVE Registry!Next
    <3>1. q.step = "challenged" /\ InPool(r) /\ UNCHANGED registry
      BY <2>10 DEF Rotate, CanRotate, registry
    <3>2. x.step = "rotating" /\ x.proxy = q.proxy /\ x.todo = q.todo
      BY <1>s, <2>10, GoFields DEF Rotate
    <3>3. AsUse(x) = [step |-> "rotating", proxy |-> q.proxy, tag |-> Tag(r)]
      BY <2>0, <3>1, <3>2 DEF AsUse, InPool
    <3>4. /\ ProxyUse[r].step = "using" /\ ProxyUse[r].proxy = q.proxy
          /\ ProxyUse[r].tag = Tag(r)
      BY <2>h, <3>1
    <3>5. \E i, j \in Registry!HealthyCount(Tag(r)) : i # j
      BY <2>10 DEF Rotate, CanRotate
    <3>6. ProxyUse' = [ProxyUse EXCEPT ![r] = Registry!BusyWith("rotating", ProxyUse[r].proxy,
                                                                ProxyUse[r].tag)]
      BY <2>c, <3>3, <3>4 DEF Registry!BusyWith
    <3>7. Registry!Rotate(r)
      BY <3>1, <3>4, <3>5, <3>6 DEF registry, Registry!Rotate, Registry!health, Registry!pools
    <3>8. QED
      BY <3>7 DEF Registry!Next
  <2>11. ASSUME SecondRun(r) PROVE Registry!Next
    <3>1. q.step = "rotating" /\ q.proxy # NoProxy
      BY <2>0, <2>11 DEF SecondRun, Fits
    <3>2. AsUse(q) = [step |-> "rotating", proxy |-> q.proxy, tag |-> Tag(r)]
      BY <2>0, <3>1 DEF AsUse
    <3>3. AsUse(x) = [step |-> "idle"]
      BY <1>s, <2>z, <2>11, OtherFields
    <3>4. /\ ProxyUse[r].step = "rotating" /\ ProxyUse[r].proxy = q.proxy
          /\ ProxyUse' = [ProxyUse EXCEPT ![r] = Registry!Idle]
      BY <2>c, <3>2, <3>3 DEF Registry!Idle
    <3>5. Registry!ReportChallenged(q.proxy) /\ UNCHANGED tagIndex
      BY <2>11 DEF SecondRun
    <3>6. Registry!Deprioritise(r)
      BY <3>4, <3>5 DEF Registry!Deprioritise
    <3>7. QED
      BY <3>6 DEF Registry!Next
  <2> QED
    BY <1>1, <2>1, <2>2, <2>3, <2>4, <2>5, <2>6, <2>7, <2>8, <2>9, <2>10, <2>11
       DEF Proceed, EngineReturns
<1>2. CASE Tick
  <2>1. ProxyUse' = ProxyUse
    BY <1>2, Seen DEF Tick
  <2>2. CASE <<challenged, quarantine>>' = <<challenged, quarantine>>
    BY <1>2, <2>1, <2>2 DEF Tick, Registry!vars
  <2>3. CASE <<challenged, quarantine>>' # <<challenged, quarantine>>
    <3>1. /\ challenged \in [Proxies -> 0 .. Cooldown] /\ Cooldown \in Nat
          /\ quarantine \in [Tags -> Int]
      BY <1>s, PartsAssumption DEF RegistryTypes, Registry!NoQuarantine
    <3>2. /\ challenged' = [p \in Proxies |-> IF challenged[p] > 0 THEN challenged[p] - 1
                                                                   ELSE challenged[p]]
          /\ quarantine' = [t \in Tags |-> IF quarantine[t] > 0 THEN quarantine[t] - 1
                                                                ELSE quarantine[t]]
      BY <1>2 DEF Tick
    <3>3. (\E p \in Proxies : challenged[p] > 0) \/ (\E t \in Tags : quarantine[t] > 0)
      <4>1. CASE challenged' # challenged
        BY <3>1, <3>2, <4>1
      <4>2. CASE quarantine' # quarantine
        BY <3>1, <3>2, <4>2
      <4>3. QED
        BY <2>3, <4>1, <4>2
    <3>4. challenged' = [p \in Proxies |-> IF challenged[p] > 0 THEN challenged[p] - 1 ELSE 0]
      BY <3>1, <3>2
    <3>5. Registry!Tick
      BY <1>2, <2>1, <3>2, <3>3, <3>4 DEF Tick, Registry!Tick
    <3>6. QED
      BY <3>5 DEF Registry!Next
  <2>4. QED
    BY <2>2, <2>3
<1>3. CASE UNCHANGED vars
  BY <1>3, Seen DEF vars, Registry!vars
<1>4. QED
  BY <1>1, <1>2, <1>3 DEF Next

\* The searches use the breakers and the registry as CircuitBreaker and
\* ProxyRegistry specify: a search that is admitted gives at most one verdict,
\* a proxy that is served gets at most one report, in every interleaving of
\* retries, rotations and fallbacks. So what is proved of the two holds here.
THEOREM PipelineImplementsParts == Spec => PartsImplemented
<1>1. Spec => Breaker!Spec
  BY PartsStartWith, BreakersStep, Invariance, PTL DEF Spec, Breaker!Spec
<1>2. Spec => Registry!Spec
  BY PartsStartWith, RegistryStep, Invariance, PTL DEF Spec, Registry!Spec
<1>3. QED
  BY <1>1, <1>2 DEF PartsImplemented, BreakersImplemented, RegistryImplemented

\* Type correctness.
THEOREM TypeCorrect == Spec => []TypeOK
<1>1. IInv => TypeOK
  <2> SUFFICES ASSUME IInv PROVE TypeOK
    OBVIOUS
  <2>1. req \in [Requests -> Searching] /\ \A r \in Requests : Fits(req[r])
    BY DEF IInv, SearchInv
  <2>2. BreakerCall \in [Requests -> {Breaker!Idle} \cup Breaker!BusyCall]
    <3>1. ASSUME NEW r \in Requests PROVE AsCall(req[r]) \in {Breaker!Idle} \cup Breaker!BusyCall
      <4>1. Fits(req[r]) /\ (req[r].step # "idle" => Head(req[r].todo) \in Engines)
        BY Searched DEF IInv, Engine
      <4>2. QED
        BY <4>1 DEF AsCall, Breaker!Idle, Breaker!BusyCall
    <3>2. QED
      BY <3>1, Seen
  <2>3. ProxyUse \in [Requests -> {Registry!Idle} \cup Registry!Busy]
    <3>1. ASSUME NEW r \in Requests PROVE AsUse(req[r]) \in {Registry!Idle} \cup Registry!Busy
      <4>1. /\ req[r] \in Searching /\ Fits(req[r])
            /\ req[r].step # "idle" => PolicyTag[Head(req[r].todo)] \in Tags \cup {NoTag}
        BY Searched DEF IInv, Tag, Engine
      <4>2. QED
        BY <4>1 DEF AsUse, Registry!Idle, Registry!Busy, Fits, Searching
    <3>2. QED
      BY <3>1, Seen
  <2>4. \A r \in Requests : (req[r].step = "idle") = (req[r].todo = <<>>)
    BY <2>1 DEF Fits
  <2>5. QED
    BY <2>1, <2>2, <2>3, <2>4 DEF IInv, BreakerTypes, RegistryTypes, TypeOK, Searching,
                                  Breaker!TypeOK, Registry!TypeOK
<1>2. QED
  BY <1>1, Invariance, PTL

=============================================================================
