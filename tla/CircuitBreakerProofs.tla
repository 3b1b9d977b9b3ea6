------------------------ MODULE CircuitBreakerProofs ------------------------
(***************************************************************************)
(* Proofs about CircuitBreaker and what CircuitBreakerHistory says of it,  *)
(* for every set of keys and of requests and every value of the            *)
(* thresholds.                                                             *)
(***************************************************************************)
EXTENDS CircuitBreakerHistory, TLAPS

\* The effect of one breaker method on the types, shared by every request step
\* that calls it.
LEMMA MethodTypes ==
  ASSUME TypeOK, NEW k \in Keys,
         AllowRequest(k) \/ RecordSuccess(k) \/ RecordFailure(k)
  PROVE  /\ state' \in [Keys -> States]
         /\ failureCount' \in [Keys -> Nat]
         /\ successCount' \in [Keys -> Nat]
         /\ sinceFailure' \in [Keys -> 0 .. RecoveryTimeout]
<1> USE BreakerAssumption DEF TypeOK, States
<1>1. CASE AllowRequest(k)
  BY <1>1 DEF AllowRequest, Allowed
<1>2. CASE RecordSuccess(k)
  BY <1>2 DEF RecordSuccess, SuccessWhileClosed, SuccessWhileHalfOpen
<1>3. CASE RecordFailure(k)
  BY <1>3 DEF RecordFailure, FailureWhileClosed, FailureWhileHalfOpen
<1>4. QED
  BY <1>1, <1>2, <1>3

\* Every step of a request or of the clock keeps the types.
LEMMA TypeStep == TypeOK /\ [Next]_vars => TypeOK'
<1> SUFFICES ASSUME TypeOK, [Next]_vars PROVE TypeOK'
  OBVIOUS
<1> USE DEF TypeOK, Idle, BusyCall
<1>1. ASSUME NEW c \in Callers, NEW k \in Keys, Get(c, k) PROVE TypeOK'
  BY <1>1 DEF Get, CallAt, breakerVars
<1>2. ASSUME NEW c \in Callers, Create(c) PROVE TypeOK'
  <2>1. call[c] \in BusyCall
    BY <1>2 DEF Create
  <2>2. QED
    BY <1>2, <2>1 DEF Create, CallAt, breakerVars
<1>3. ASSUME NEW c \in Callers, Admit(c) \/ PreCheck(c) PROVE TypeOK'
  <2>1. call[c] \in BusyCall
    BY <1>3 DEF Admit, PreCheck
  <2>2. AllowRequest(call[c].key)
    BY <1>3 DEF Admit, PreCheck
  <2>3. call' \in [Callers -> {Idle} \cup BusyCall] /\ created' = created
    BY <1>3, <2>1 DEF Admit, PreCheck, CallAt
  <2>4. QED
    BY <2>1, <2>2, <2>3, MethodTypes
<1>4. ASSUME NEW c \in Callers, Succeed(c) \/ Fail(c) PROVE TypeOK'
  <2>1. call[c] \in BusyCall
    BY <1>4 DEF Succeed, Fail
  <2>2. RecordSuccess(call[c].key) \/ RecordFailure(call[c].key)
    BY <1>4 DEF Succeed, Fail
  <2>3. call' \in [Callers -> {Idle} \cup BusyCall] /\ created' = created
    BY <1>4 DEF Succeed, Fail
  <2>4. QED
    BY <2>1, <2>2, <2>3, MethodTypes
<1>5. ASSUME NEW c \in Callers, Abandon(c) PROVE TypeOK'
  BY <1>5 DEF Abandon, breakerVars
<1>6. CASE Tick
  BY <1>6, BreakerAssumption DEF Tick
<1>7. CASE UNCHANGED vars
  BY <1>7 DEF vars
<1>8. QED
  BY <1>1, <1>2, <1>3, <1>4, <1>5, <1>6, <1>7 DEF Next

\* Type correctness.
THEOREM TypeCorrect == Spec => []TypeOK
<1>1. Init => TypeOK
  BY BreakerAssumption DEF Init, TypeOK, States
<1>2. QED
  BY <1>1, TypeStep, PTL DEF Spec

-----------------------------------------------------------------------------
(* Counters and states. CountersFitState is inductive on its own: each      *)
(* method of the breaker keeps it, and nothing else touches the counters.   *)

\* One breaker method keeps the counters and the state of its breaker in
\* agreement.
LEMMA MethodCounters ==
  ASSUME TypeOK, CountersFitState, NEW k \in Keys,
         AllowRequest(k) \/ RecordSuccess(k) \/ RecordFailure(k)
  PROVE  CountersFitState'
<1> USE BreakerAssumption DEF TypeOK, States, CountersFitState
<1>1. CASE AllowRequest(k)
  BY <1>1 DEF AllowRequest, Allowed
<1>2. CASE RecordSuccess(k)
  <2>1. CASE SuccessWhileClosed(k)
    BY <1>2, <2>1 DEF RecordSuccess, SuccessWhileClosed
  <2>2. CASE SuccessWhileHalfOpen(k)
    BY <1>2, <2>2 DEF RecordSuccess, SuccessWhileHalfOpen
  <2>3. CASE state[k] = "open" /\ UNCHANGED <<state, failureCount, successCount>>
    BY <1>2, <2>3
  <2>4. QED
    BY <1>2, <2>1, <2>2, <2>3 DEF RecordSuccess
<1>3. CASE RecordFailure(k)
  <2>1. CASE FailureWhileClosed(k)
    BY <1>3, <2>1 DEF RecordFailure, FailureWhileClosed
  <2>2. CASE FailureWhileHalfOpen(k)
    BY <1>3, <2>2 DEF RecordFailure, FailureWhileHalfOpen
  <2>3. CASE state[k] = "open" /\ UNCHANGED <<state, failureCount, successCount>>
    BY <1>3, <2>3
  <2>4. QED
    BY <1>3, <2>1, <2>2, <2>3 DEF RecordFailure
<1>4. QED
  BY <1>1, <1>2, <1>3

\* What every step is to the breakers: a method of one breaker, or nothing but
\* time.
LEMMA StepIsMethod ==
  ASSUME TypeOK, [Next]_vars
  PROVE  \/ \E k \in Keys : AllowRequest(k) \/ RecordSuccess(k) \/ RecordFailure(k)
         \/ UNCHANGED <<state, failureCount, successCount>>
<1>1. ASSUME NEW c \in Callers, call[c].step \in {"missing", "ready", "running"}
      PROVE  call[c].key \in Keys
  BY <1>1 DEF TypeOK, Idle, BusyCall
<1>2. ASSUME NEW c \in Callers, NEW k \in Keys, Get(c, k)
      PROVE  UNCHANGED <<state, failureCount, successCount>>
  BY <1>2 DEF Get, breakerVars
<1>3. ASSUME NEW c \in Callers, Create(c) \/ Abandon(c)
      PROVE  UNCHANGED <<state, failureCount, successCount>>
  BY <1>3 DEF Create, Abandon, breakerVars
<1>4. ASSUME NEW c \in Callers, Admit(c) \/ PreCheck(c)
      PROVE  \E k \in Keys : AllowRequest(k)
  BY <1>1, <1>4 DEF Admit, PreCheck
<1>5. ASSUME NEW c \in Callers, Succeed(c)
      PROVE  \E k \in Keys : RecordSuccess(k)
  BY <1>1, <1>5 DEF Succeed
<1>6. ASSUME NEW c \in Callers, Fail(c)
      PROVE  \E k \in Keys : RecordFailure(k)
  BY <1>1, <1>6 DEF Fail
<1>7. CASE Tick
  BY <1>7 DEF Tick
<1>8. CASE UNCHANGED vars
  BY <1>8 DEF vars
<1>9. QED
  BY <1>2, <1>3, <1>4, <1>5, <1>6, <1>7, <1>8 DEF Next

\* A breaker that is not closed has seen a full threshold of failures, and one
\* that is not half-open carries no success over to its next recovery.
THEOREM CountersFit == Spec => []CountersFitState
<1>1. Init => CountersFitState
  <2> SUFFICES ASSUME Init, NEW k \in Keys
               PROVE  /\ state[k] = "closed" <=> failureCount[k] < FailureThreshold
                      /\ successCount[k] < SuccessThreshold
                      /\ state[k] # "half-open" => successCount[k] = 0
    BY DEF CountersFitState
  <2>1. state[k] = "closed" /\ failureCount[k] = 0 /\ successCount[k] = 0
    BY DEF Init
  <2>2. QED
    BY <2>1, BreakerAssumption
<1>2. TypeOK /\ CountersFitState /\ [Next]_vars => CountersFitState'
  <2> SUFFICES ASSUME TypeOK, CountersFitState, [Next]_vars PROVE CountersFitState'
    OBVIOUS
  <2>1. CASE UNCHANGED <<state, failureCount, successCount>>
    BY <2>1 DEF CountersFitState
  <2>2. QED
    BY <2>1, StepIsMethod, MethodCounters
<1>3. QED
  BY <1>1, <1>2, TypeCorrect, PTL DEF Spec

\* An open breaker leaves its state for half-open only, a closed one for open
\* only: two requests racing in Get, or an outcome that arrives late, never
\* close an open breaker.
THEOREM TransitionsAreLegal == Spec => LegalTransitions
<1>1. TypeOK /\ [Next]_vars =>
        [\A k \in Keys :
           /\ state[k] = "open" => state'[k] \in {"open", "half-open"}
           /\ state[k] = "closed" => state'[k] \in {"closed", "open"}]_vars
  <2> SUFFICES ASSUME TypeOK, [Next]_vars, NEW k \in Keys
               PROVE  /\ state[k] = "open" => state'[k] \in {"open", "half-open"}
                      /\ state[k] = "closed" => state'[k] \in {"closed", "open"}
    OBVIOUS
  <2>1. CASE UNCHANGED <<state, failureCount, successCount>>
    BY <2>1
  <2>2. ASSUME NEW j \in Keys, AllowRequest(j) \/ RecordSuccess(j) \/ RecordFailure(j)
        PROVE  /\ state[k] = "open" => state'[k] \in {"open", "half-open"}
               /\ state[k] = "closed" => state'[k] \in {"closed", "open"}
    BY <2>2 DEF TypeOK, States, AllowRequest, Allowed, RecordSuccess, RecordFailure,
                SuccessWhileClosed, SuccessWhileHalfOpen,
                FailureWhileClosed, FailureWhileHalfOpen
  <2>3. QED
    BY <2>1, <2>2, StepIsMethod
<1>2. QED
  BY <1>1, TypeCorrect, PTL DEF Spec, LegalTransitions

-----------------------------------------------------------------------------
(* Requests and breakers. *)

\* A request works on a breaker that exists, and a breaker that nobody has
\* created is as new.
THEOREM CreatedBeforeUse == Spec => []CallsUseCreatedBreaker
<1>1. Init => CallsUseCreatedBreaker
  BY DEF Init, Idle, CallsUseCreatedBreaker
<1>2. TypeOK /\ CallsUseCreatedBreaker /\ [Next]_vars => CallsUseCreatedBreaker'
  <2> SUFFICES ASSUME TypeOK, CallsUseCreatedBreaker, [Next]_vars
               PROVE  CallsUseCreatedBreaker'
    OBVIOUS
  <2> USE DEF TypeOK, CallsUseCreatedBreaker, Idle, BusyCall, CallAt
  <2>1. ASSUME NEW c \in Callers, NEW k \in Keys, Get(c, k)
        PROVE  CallsUseCreatedBreaker'
    BY <2>1 DEF Get, breakerVars
  <2>2. ASSUME NEW c \in Callers, Create(c)
        PROVE  CallsUseCreatedBreaker'
    BY <2>2 DEF Create, breakerVars
  <2>3. ASSUME NEW c \in Callers, Admit(c) \/ PreCheck(c)
        PROVE  CallsUseCreatedBreaker'
    BY <2>3 DEF Admit, PreCheck, AllowRequest
  <2>4. ASSUME NEW c \in Callers, Succeed(c)
        PROVE  CallsUseCreatedBreaker'
    BY <2>4 DEF Succeed, RecordSuccess, SuccessWhileClosed, SuccessWhileHalfOpen
  <2>5. ASSUME NEW c \in Callers, Fail(c)
        PROVE  CallsUseCreatedBreaker'
    BY <2>5 DEF Fail, RecordFailure, FailureWhileClosed, FailureWhileHalfOpen
  <2>6. ASSUME NEW c \in Callers, Abandon(c)
        PROVE  CallsUseCreatedBreaker'
    BY <2>6 DEF Abandon, breakerVars
  <2>7. CASE Tick
    BY <2>7 DEF Tick
  <2>8. CASE UNCHANGED vars
    BY <2>8 DEF vars
  <2>9. QED
    BY <2>1, <2>2, <2>3, <2>4, <2>5, <2>6, <2>7, <2>8 DEF Next
<1>3. QED
  BY <1>1, <1>2, TypeCorrect, PTL DEF Spec

\* While a breaker stays open no request is admitted, so its recovery can be
\* postponed only by requests that were running when it opened.
THEOREM OpenShedsLoad == Spec => OpenAdmitsNobody
<1>1. TypeOK /\ [Next]_vars =>
        [\A k \in Keys : state[k] = "open" /\ state'[k] = "open" =>
           Running(k)' \subseteq Running(k)]_vars
  <2> SUFFICES ASSUME TypeOK, [Next]_vars, NEW k \in Keys, NEW d \in Callers,
                      state[k] = "open", state'[k] = "open",
                      call'[d] = CallAt("running", k)
               PROVE  call[d] = CallAt("running", k)
    BY DEF Running
  <2> USE DEF TypeOK, Idle, BusyCall, CallAt
  <2>1. ASSUME NEW c \in Callers, NEW j \in Keys, Get(c, j)
        PROVE  call[d] = CallAt("running", k)
    BY <2>1 DEF Get
  <2>2. ASSUME NEW c \in Callers, Create(c)
        PROVE  call[d] = CallAt("running", k)
    BY <2>2 DEF Create
  <2>3. ASSUME NEW c \in Callers, Admit(c)
        PROVE  call[d] = CallAt("running", k)
    <3>1. CASE d # c
      BY <2>3, <3>1 DEF Admit
    <3>2. CASE d = c
      BY <2>3, <3>2 DEF Admit, AllowRequest, Allowed
    <3>3. QED
      BY <3>1, <3>2
  <2>4. ASSUME NEW c \in Callers, PreCheck(c) \/ Succeed(c) \/ Fail(c) \/ Abandon(c)
        PROVE  call[d] = CallAt("running", k)
    BY <2>4 DEF PreCheck, Succeed, Fail, Abandon
  <2>5. CASE Tick
    BY <2>5 DEF Tick
  <2>6. CASE UNCHANGED vars
    BY <2>6 DEF vars
  <2>7. QED
    BY <2>1, <2>2, <2>3, <2>4, <2>5, <2>6 DEF Next
<1>2. QED
  BY <1>1, TypeCorrect, PTL DEF Spec, OpenAdmitsNobody

-----------------------------------------------------------------------------
(* History. The counters are witnesses of the outcomes recorded last, and an  *)
(* open breaker has been open at least since its last failure.               *)

LEMMA HistoryIsSpec == HSpec => Spec
<1>1. HInit => Init
  BY DEF HInit
<1>2. [HNext]_hvars => [Next]_vars
  BY DEF HNext, hvars, Next
<1>3. QED
  BY <1>1, <1>2, PTL DEF HSpec, Spec

HistoryType ==
  /\ run \in [Keys -> [ok : BOOLEAN, n : Nat]]
  /\ openAge \in [Keys -> Nat]

FailuresSeen(k) ==
  state[k] = "closed" /\ failureCount[k] > 0 => ~run[k].ok /\ failureCount[k] <= run[k].n
SuccessesSeen(k) ==
  state[k] = "half-open" /\ successCount[k] > 0 => run[k].ok /\ successCount[k] <= run[k].n
OpenSince(k) == state[k] = "open" => sinceFailure[k] <= openAge[k]

HistoryInv ==
  /\ TypeOK /\ CountersFitState /\ HistoryType
  /\ \A k \in Keys : FailuresSeen(k) /\ SuccessesSeen(k) /\ OpenSince(k)

LEMMA RecordedFacts ==
  ASSUME HistoryType, NEW k \in Keys, NEW ok \in BOOLEAN, Recorded(k, ok)
  PROVE  /\ run' \in [Keys -> [ok : BOOLEAN, n : Nat]]
         /\ run'[k].ok = ok
         /\ run'[k].n = IF run[k].ok = ok THEN AtMost(run[k].n + 1, RunCap) ELSE 1
         /\ \A j \in Keys \ {k} : run'[j] = run[j]
<1> DEFINE n == IF run[k].ok = ok THEN AtMost(run[k].n + 1, RunCap) ELSE 1
<1>1. run[k].n \in Nat /\ RunCap \in Nat
  BY BreakerAssumption DEF HistoryType, RunCap
<1>2. n \in Nat
  BY <1>1 DEF AtMost
<1>3. run' = [run EXCEPT ![k] = [ok |-> ok, n |-> n]]
  BY DEF Recorded
<1> HIDE DEF n
<1>4. [ok |-> ok, n |-> n] \in [ok : BOOLEAN, n : Nat]
  BY <1>2
<1>5. QED
  BY <1>3, <1>4 DEF HistoryType, n

\* A recorded outcome is the latest of the run, and the count it adds to follows.
LEMMA OutcomeKeeps ==
  ASSUME HistoryInv, NEW k \in Keys, NEW c, NEW ok \in BOOLEAN, Finished(c, k, ok),
         IF ok THEN RecordSuccess(k) ELSE RecordFailure(k)
  PROVE  /\ HistoryType'
         /\ \A j \in Keys : FailuresSeen(j)' /\ SuccessesSeen(j)' /\ OpenSince(j)'
<1>1. /\ Recorded(k, ok)
      /\ openAge' = [openAge EXCEPT ![k] = IF state[k] # "open" /\ state'[k] = "open"
                                           THEN 0 ELSE @]
  BY DEF Finished
<1>2. HistoryType'
  BY <1>1, RecordedFacts DEF HistoryInv, HistoryType
<1>3. ASSUME NEW j \in Keys, j # k PROVE FailuresSeen(j)' /\ SuccessesSeen(j)' /\ OpenSince(j)'
  <2>1. /\ state'[j] = state[j] /\ failureCount'[j] = failureCount[j]
        /\ successCount'[j] = successCount[j] /\ sinceFailure'[j] = sinceFailure[j]
    BY <1>3 DEF HistoryInv, TypeOK, RecordSuccess, RecordFailure, SuccessWhileClosed,
                SuccessWhileHalfOpen, FailureWhileClosed, FailureWhileHalfOpen
  <2>2. run'[j] = run[j] /\ openAge'[j] = openAge[j]
    BY <1>1, <1>3, RecordedFacts DEF HistoryInv, HistoryType
  <2>3. FailuresSeen(j) /\ SuccessesSeen(j) /\ OpenSince(j)
    BY DEF HistoryInv
  <2>4. QED
    BY <2>1, <2>2, <2>3 DEF FailuresSeen, SuccessesSeen, OpenSince
<1>4. /\ failureCount[k] \in Nat /\ successCount[k] \in Nat /\ run[k].n \in Nat
      /\ state[k] \in States /\ openAge[k] \in Nat
      /\ state[k] = "closed" => failureCount[k] < FailureThreshold
      /\ successCount[k] < SuccessThreshold
      /\ state[k] # "half-open" => successCount[k] = 0
      /\ FailureThreshold <= RunCap /\ SuccessThreshold <= RunCap /\ RunCap \in Nat
      /\ FailureThreshold \in Nat /\ SuccessThreshold \in Nat
  BY BreakerAssumption DEF HistoryInv, TypeOK, CountersFitState, HistoryType, RunCap
<1>5. FailuresSeen(k) /\ SuccessesSeen(k) /\ OpenSince(k)
  BY DEF HistoryInv
<1> SUFFICES FailuresSeen(k)' /\ SuccessesSeen(k)' /\ OpenSince(k)'
  BY <1>2, <1>3
<1>6. CASE ok
  <2>1. RecordSuccess(k) /\ run'[k].ok
        /\ run'[k].n = IF run[k].ok THEN AtMost(run[k].n + 1, RunCap) ELSE 1
    BY <1>1, <1>6, RecordedFacts DEF HistoryInv, HistoryType
  <2>2. CASE SuccessWhileClosed(k)
    <3>1. state'[k] = "closed" /\ failureCount'[k] = 0
      BY <2>2 DEF SuccessWhileClosed, HistoryInv, TypeOK
    <3>2. QED
      BY <3>1 DEF FailuresSeen, SuccessesSeen, OpenSince
  <2>3. CASE SuccessWhileHalfOpen(k)
    <3>1. \/ state'[k] = "closed" /\ failureCount'[k] = 0
          \/ state'[k] = "half-open" /\ successCount'[k] = successCount[k] + 1
             /\ successCount[k] + 1 < SuccessThreshold
      BY <1>4, <2>3 DEF SuccessWhileHalfOpen, HistoryInv, TypeOK
    <3>2. state[k] = "half-open"
      BY <2>3 DEF SuccessWhileHalfOpen
    <3>3. successCount[k] + 1 < SuccessThreshold => successCount[k] + 1 <= run'[k].n
      BY <1>4, <1>5, <2>1, <3>2 DEF SuccessesSeen, AtMost
    <3>4. QED
      BY <2>1, <3>1, <3>3 DEF FailuresSeen, SuccessesSeen, OpenSince
  <2>4. CASE state[k] = "open" /\ UNCHANGED <<state, failureCount, successCount>>
    <3>1. sinceFailure'[k] = sinceFailure[k] /\ openAge'[k] = openAge[k]
      BY <1>1, <2>1, <2>4 DEF RecordSuccess, HistoryInv, HistoryType
    <3>2. QED
      BY <1>5, <2>4, <3>1 DEF FailuresSeen, SuccessesSeen, OpenSince
  <2>5. QED
    BY <2>1, <2>2, <2>3, <2>4 DEF RecordSuccess
<1>7. CASE ~ok
  <2>1. RecordFailure(k) /\ ~run'[k].ok /\ run[k].ok \in BOOLEAN
        /\ run'[k].n = IF ~run[k].ok THEN AtMost(run[k].n + 1, RunCap) ELSE 1
    BY <1>1, <1>7, RecordedFacts DEF HistoryInv, HistoryType
  <2>2. sinceFailure'[k] = 0 /\ openAge'[k] \in Nat
    BY <1>2, <2>1 DEF RecordFailure, HistoryInv, TypeOK, HistoryType
  <2>3. CASE FailureWhileClosed(k)
    <3>1. state[k] = "closed" /\ failureCount'[k] = failureCount[k] + 1
          /\ state'[k] \in {"open", "closed"}
      BY <2>3 DEF FailureWhileClosed, HistoryInv, TypeOK
    <3>2. failureCount[k] + 1 <= run'[k].n
      BY <1>4, <1>5, <2>1, <3>1 DEF FailuresSeen, AtMost
    <3>3. QED
      BY <2>1, <2>2, <3>1, <3>2 DEF FailuresSeen, SuccessesSeen, OpenSince
  <2>4. CASE FailureWhileHalfOpen(k)
    <3>1. state'[k] = "open"
      BY <2>4 DEF FailureWhileHalfOpen, HistoryInv, TypeOK
    <3>2. QED
      BY <2>2, <3>1 DEF FailuresSeen, SuccessesSeen, OpenSince
  <2>5. CASE state[k] = "open" /\ UNCHANGED <<state, failureCount, successCount>>
    BY <2>2, <2>5 DEF FailuresSeen, SuccessesSeen, OpenSince
  <2>6. QED
    BY <2>1, <2>3, <2>4, <2>5 DEF RecordFailure
<1>8. QED
  BY <1>6, <1>7

\* An admission that begins a half-open phase begins a new run of outcomes.
LEMMA AdmissionKeeps ==
  ASSUME HistoryInv, NEW k \in Keys, NEW c, Admitted(c, k), AllowRequest(k)
  PROVE  /\ HistoryType'
         /\ \A j \in Keys : FailuresSeen(j)' /\ SuccessesSeen(j)' /\ OpenSince(j)'
<1> DEFINE begins == state[k] = "open" /\ state'[k] = "half-open"
<1>1. /\ run' = [run EXCEPT ![k] = IF begins THEN [ok |-> TRUE, n |-> 0] ELSE @]
      /\ openAge' = openAge
  BY DEF Admitted
<1>2. HistoryType'
  BY <1>1 DEF HistoryInv, HistoryType
<1>3. ASSUME NEW j \in Keys PROVE FailuresSeen(j)' /\ SuccessesSeen(j)' /\ OpenSince(j)'
  <2>1. /\ failureCount'[j] = failureCount[j] /\ successCount'[j] = successCount[j]
        /\ sinceFailure'[j] = sinceFailure[j] /\ openAge'[j] = openAge[j]
    BY <1>1 DEF AllowRequest
  <2>2. FailuresSeen(j) /\ SuccessesSeen(j) /\ OpenSince(j)
    BY DEF HistoryInv
  <2>3. CASE j = k /\ begins
    <3>1. state'[j] = "half-open" /\ successCount'[j] = 0
      BY <2>1, <2>3 DEF HistoryInv, CountersFitState
    <3>2. QED
      BY <3>1 DEF FailuresSeen, SuccessesSeen, OpenSince
  <2>4. CASE ~(j = k /\ begins)
    <3>1. state'[j] = state[j]
      BY <2>4 DEF AllowRequest, HistoryInv, TypeOK
    <3>2. run'[j] = run[j]
      BY <1>1, <2>4 DEF HistoryInv, HistoryType
    <3>3. QED
      BY <2>1, <2>2, <3>1, <3>2 DEF FailuresSeen, SuccessesSeen, OpenSince
  <2>5. QED
    BY <2>3, <2>4
<1>4. QED
  BY <1>2, <1>3

LEMMA HistoryStep ==
  ASSUME HistoryInv, TypeOK', CountersFitState', [HNext]_hvars
  PROVE  HistoryInv'
<1> DEFINE Seen == \A k \in Keys : FailuresSeen(k) /\ SuccessesSeen(k) /\ OpenSince(k)
<1> SUFFICES HistoryType' /\ Seen'
  BY DEF HistoryInv
<1>1. ASSUME UNCHANGED <<state, failureCount, successCount, sinceFailure, run, openAge>>
      PROVE  HistoryType' /\ Seen'
  BY <1>1 DEF HistoryInv, HistoryType, FailuresSeen, SuccessesSeen, OpenSince
<1>2. ASSUME NEW c \in Callers, call[c].step \in {"ready", "running"}
      PROVE  call[c].key \in Keys
  BY <1>2 DEF HistoryInv, TypeOK, Idle, BusyCall
<1>3. ASSUME NEW c \in Callers, NEW k \in Keys, Get(c, k), UNCHANGED history
      PROVE  HistoryType' /\ Seen'
  BY <1>1, <1>3 DEF Get, breakerVars, history
<1>4. ASSUME NEW c \in Callers, Create(c), UNCHANGED history
      PROVE  HistoryType' /\ Seen'
  BY <1>1, <1>4 DEF Create, breakerVars, history
<1>5. ASSUME NEW c \in Callers, Admit(c) \/ PreCheck(c), Admitted(c, call[c].key)
      PROVE  HistoryType' /\ Seen'
  <2>1. call[c].key \in Keys /\ AllowRequest(call[c].key)
    BY <1>2, <1>5 DEF Admit, PreCheck
  <2>2. QED
    BY <1>5, <2>1, AdmissionKeeps
<1>6. ASSUME NEW c \in Callers, Succeed(c), Finished(c, call[c].key, TRUE)
      PROVE  HistoryType' /\ Seen'
  <2>1. call[c].key \in Keys /\ RecordSuccess(call[c].key)
    BY <1>2, <1>6 DEF Succeed
  <2>2. QED
    BY <1>6, <2>1, OutcomeKeeps
<1>7. ASSUME NEW c \in Callers, Fail(c), Finished(c, call[c].key, FALSE)
      PROVE  HistoryType' /\ Seen'
  <2>1. call[c].key \in Keys /\ RecordFailure(call[c].key)
    BY <1>2, <1>7 DEF Fail
  <2>2. QED
    BY <1>7, <2>1, OutcomeKeeps
<1>8. ASSUME NEW c \in Callers, Abandon(c), UNCHANGED history
      PROVE  HistoryType' /\ Seen'
  BY <1>1, <1>8 DEF Abandon, breakerVars, history
<1>9. ASSUME Tick, openAge' = [k \in Keys |-> AtMost(openAge[k] + 1, RecoveryTimeout)],
             UNCHANGED run
      PROVE  HistoryType' /\ Seen'
  <2>1. HistoryType'
    BY <1>9, BreakerAssumption DEF HistoryInv, HistoryType, AtMost
  <2>2. ASSUME NEW k \in Keys PROVE FailuresSeen(k)' /\ SuccessesSeen(k)' /\ OpenSince(k)'
    <3>1. /\ state'[k] = state[k] /\ failureCount'[k] = failureCount[k]
          /\ successCount'[k] = successCount[k] /\ run'[k] = run[k]
      BY <1>9 DEF Tick
    <3>2. FailuresSeen(k) /\ SuccessesSeen(k) /\ OpenSince(k)
      BY DEF HistoryInv
    <3>3. sinceFailure[k] <= openAge[k] => sinceFailure'[k] <= openAge'[k]
      <4>1. sinceFailure[k] \in 0 .. RecoveryTimeout /\ openAge[k] \in Nat
            /\ RecoveryTimeout \in Nat
        BY BreakerAssumption DEF HistoryInv, TypeOK, HistoryType
      <4>2. /\ sinceFailure'[k] = IF sinceFailure[k] < RecoveryTimeout
                                  THEN sinceFailure[k] + 1 ELSE RecoveryTimeout
            /\ openAge'[k] = AtMost(openAge[k] + 1, RecoveryTimeout)
        BY <1>9 DEF Tick
      <4>3. QED
        BY <4>1, <4>2 DEF AtMost
    <3>4. QED
      BY <3>1, <3>2, <3>3 DEF FailuresSeen, SuccessesSeen, OpenSince
  <2>3. QED
    BY <2>1, <2>2
<1>10. CASE UNCHANGED hvars
  BY <1>1, <1>10 DEF hvars, vars, history
<1> HIDE DEF Seen
<1>11. QED
  BY <1>3, <1>4, <1>5, <1>6, <1>7, <1>8, <1>9, <1>10 DEF HNext

LEMMA HistoryAlways == HSpec => []HistoryInv
<1>1. HSpec => []TypeOK /\ []CountersFitState
  BY HistoryIsSpec, TypeCorrect, CountersFit, PTL
<1>2. HInit /\ TypeOK /\ CountersFitState => HistoryInv
  <2> SUFFICES ASSUME HInit, TypeOK, CountersFitState PROVE HistoryInv
    OBVIOUS
  <2>1. HistoryType
    BY BreakerAssumption DEF HInit, HistoryType
  <2>2. ASSUME NEW k \in Keys PROVE FailuresSeen(k) /\ SuccessesSeen(k) /\ OpenSince(k)
    BY DEF HInit, Init, FailuresSeen, SuccessesSeen, OpenSince
  <2>3. QED
    BY <2>1, <2>2 DEF HistoryInv
<1>3. QED
  BY <1>1, <1>2, HistoryStep, PTL DEF HSpec

\* The step of the history at which a breaker changes its state.
LEMMA ChangeIsMethod ==
  ASSUME TypeOK, [HNext]_hvars, NEW k \in Keys, state'[k] # state[k]
  PROVE  \/ AllowRequest(k)
         \/ \E ok \in BOOLEAN : Recorded(k, ok) /\ IF ok THEN RecordSuccess(k) ELSE RecordFailure(k)
<1>1. ASSUME NEW c \in Callers, call[c].step \in {"ready", "running"}
      PROVE  call[c].key \in Keys
  BY <1>1 DEF TypeOK, Idle, BusyCall
<1>2. ASSUME NEW j \in Keys, AllowRequest(j) \/ RecordSuccess(j) \/ RecordFailure(j)
      PROVE  j = k
  BY <1>2 DEF TypeOK, AllowRequest, RecordSuccess, RecordFailure, SuccessWhileClosed,
              SuccessWhileHalfOpen, FailureWhileClosed, FailureWhileHalfOpen
<1>3. ASSUME NEW c \in Callers, Admit(c) \/ PreCheck(c) PROVE AllowRequest(k)
  BY <1>1, <1>2, <1>3 DEF Admit, PreCheck
<1>4. ASSUME NEW c \in Callers, Succeed(c), Finished(c, call[c].key, TRUE)
      PROVE  Recorded(k, TRUE) /\ RecordSuccess(k)
  BY <1>1, <1>2, <1>4 DEF Succeed, Finished
<1>5. ASSUME NEW c \in Callers, Fail(c), Finished(c, call[c].key, FALSE)
      PROVE  Recorded(k, FALSE) /\ RecordFailure(k)
  BY <1>1, <1>2, <1>5 DEF Fail, Finished
<1>6. ASSUME NEW c \in Callers, Create(c) \/ Abandon(c) \/ \E j \in Keys : Get(c, j)
      PROVE  FALSE
  BY <1>6 DEF Create, Abandon, Get, breakerVars
<1>7. ~Tick /\ ~UNCHANGED hvars
  BY DEF Tick, hvars, vars
<1>8. QED
  BY <1>3, <1>4, <1>5, <1>6, <1>7 DEF HNext

\* A breaker opens only after a full threshold of failures in a row.
THEOREM OpensOnFailures == HSpec => OpensOnConsecutiveFailures
<1>1. ASSUME HistoryInv, [HNext]_hvars, NEW k \in Keys, state[k] = "closed", state'[k] = "open"
      PROVE  ~run'[k].ok /\ run'[k].n >= FailureThreshold
  <2>1. Recorded(k, FALSE) /\ RecordFailure(k)
    <3>1. ~AllowRequest(k) /\ ~RecordSuccess(k)
      BY <1>1 DEF HistoryInv, TypeOK, AllowRequest, RecordSuccess, SuccessWhileClosed,
                  SuccessWhileHalfOpen
    <3>2. QED
      BY <1>1, <3>1, ChangeIsMethod DEF HistoryInv
  <2>2. failureCount[k] + 1 >= FailureThreshold
    <3>1. FailureWhileClosed(k)
      BY <1>1, <2>1 DEF RecordFailure, FailureWhileHalfOpen
    <3>2. state'[k] = IF failureCount[k] + 1 >= FailureThreshold THEN "open" ELSE "closed"
      BY <1>1, <3>1 DEF FailureWhileClosed, HistoryInv, TypeOK
    <3>3. QED
      BY <1>1, <3>2
  <2>3. /\ ~run'[k].ok /\ run[k].ok \in BOOLEAN
        /\ run'[k].n = IF ~run[k].ok THEN AtMost(run[k].n + 1, RunCap) ELSE 1
    BY <1>1, <2>1, RecordedFacts DEF HistoryInv, HistoryType
  <2>4. FailuresSeen(k)
    BY <1>1 DEF HistoryInv
  <2>5. /\ failureCount[k] \in Nat /\ run[k].n \in Nat /\ RunCap \in Nat
        /\ FailureThreshold \in Nat /\ FailureThreshold <= RunCap
    BY <1>1, BreakerAssumption DEF HistoryInv, TypeOK, HistoryType, RunCap
  <2>6. QED
    BY <1>1, <2>2, <2>3, <2>4, <2>5 DEF FailuresSeen, AtMost
<1>2. HistoryInv /\ [HNext]_hvars =>
        [\A k \in Keys : state[k] = "closed" /\ state'[k] = "open" =>
           ~run'[k].ok /\ run'[k].n >= FailureThreshold]_hvars
  BY <1>1
<1>3. QED
  BY <1>2, HistoryAlways, PTL DEF HSpec, OpensOnConsecutiveFailures

\* A breaker closes only after as many successes in a row of one half-open phase.
THEOREM ClosesOnSuccesses == HSpec => ClosesOnConsecutiveSuccesses
<1>1. ASSUME HistoryInv, [HNext]_hvars, NEW k \in Keys,
             state[k] = "half-open", state'[k] = "closed"
      PROVE  run'[k].ok /\ run'[k].n >= SuccessThreshold
  <2>1. Recorded(k, TRUE) /\ RecordSuccess(k)
    <3>1. ~AllowRequest(k) /\ ~RecordFailure(k)
      BY <1>1 DEF HistoryInv, TypeOK, AllowRequest, RecordFailure, FailureWhileClosed,
                  FailureWhileHalfOpen
    <3>2. QED
      BY <1>1, <3>1, ChangeIsMethod DEF HistoryInv
  <2>2. successCount[k] + 1 >= SuccessThreshold
    <3>1. SuccessWhileHalfOpen(k)
      BY <1>1, <2>1 DEF RecordSuccess, SuccessWhileClosed
    <3>2. state'[k] = IF successCount[k] + 1 >= SuccessThreshold THEN "closed" ELSE "half-open"
      BY <1>1, <3>1 DEF SuccessWhileHalfOpen, HistoryInv, TypeOK
    <3>3. QED
      BY <1>1, <3>2
  <2>3. /\ run'[k].ok
        /\ run'[k].n = IF run[k].ok THEN AtMost(run[k].n + 1, RunCap) ELSE 1
    BY <1>1, <2>1, RecordedFacts DEF HistoryInv, HistoryType
  <2>4. SuccessesSeen(k)
    BY <1>1 DEF HistoryInv
  <2>5. /\ successCount[k] \in Nat /\ run[k].n \in Nat /\ RunCap \in Nat
        /\ SuccessThreshold \in Nat /\ SuccessThreshold <= RunCap
    BY <1>1, BreakerAssumption DEF HistoryInv, TypeOK, HistoryType, RunCap
  <2>6. QED
    BY <1>1, <2>2, <2>3, <2>4, <2>5 DEF SuccessesSeen, AtMost
<1>2. HistoryInv /\ [HNext]_hvars =>
        [\A k \in Keys : state[k] = "half-open" /\ state'[k] = "closed" =>
           run'[k].ok /\ run'[k].n >= SuccessThreshold]_hvars
  BY <1>1
<1>3. QED
  BY <1>2, HistoryAlways, PTL DEF HSpec, ClosesOnConsecutiveSuccesses

\* A breaker stays open for the whole recovery timeout.
THEOREM StaysOpen == HSpec => StaysOpenForTimeout
<1>1. ASSUME HistoryInv, [HNext]_hvars, NEW k \in Keys, state[k] = "open", state'[k] # "open"
      PROVE  openAge[k] >= RecoveryTimeout
  <2>1. AllowRequest(k)
    <3>1. ~RecordFailure(k) /\ ~RecordSuccess(k)
      BY <1>1 DEF RecordFailure, RecordSuccess, FailureWhileClosed, FailureWhileHalfOpen,
                  SuccessWhileClosed, SuccessWhileHalfOpen
    <3>2. QED
      BY <1>1, <3>1, ChangeIsMethod DEF HistoryInv
  <2>2. sinceFailure[k] >= RecoveryTimeout
    BY <1>1, <2>1 DEF AllowRequest, Allowed, HistoryInv, TypeOK
  <2>3. sinceFailure[k] <= openAge[k]
    BY <1>1 DEF HistoryInv, OpenSince
  <2>4. sinceFailure[k] \in 0 .. RecoveryTimeout /\ openAge[k] \in Nat /\ RecoveryTimeout \in Nat
    BY <1>1, BreakerAssumption DEF HistoryInv, TypeOK, HistoryType
  <2>5. QED
    BY <2>2, <2>3, <2>4
<1>2. HistoryInv /\ [HNext]_hvars =>
        [\A k \in Keys : state[k] = "open" /\ state'[k] # "open" =>
           openAge[k] >= RecoveryTimeout]_hvars
  BY <1>1
<1>3. QED
  BY <1>2, HistoryAlways, PTL DEF HSpec, StaysOpenForTimeout
=============================================================================
