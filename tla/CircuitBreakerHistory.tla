----------------------- MODULE CircuitBreakerHistory -----------------------
(***************************************************************************)
(* CircuitBreaker with history variables, for what config.yaml and the     *)
(* command-line help promise about a breaker: how many consecutive         *)
(* failures open it, how long it stays open, and how many consecutive      *)
(* successes close it.  The breaker itself is untouched: every step is a   *)
(* step of CircuitBreaker.                                                 *)
(***************************************************************************)
EXTENDS CircuitBreaker

VARIABLES
  run,      \* the outcomes recorded last: all ok or all not, and how many
  openAge   \* ticks since the breaker opened, saturating

history == <<run, openAge>>
hvars == <<vars, history>>

RunCap == FailureThreshold + SuccessThreshold
AtMost(n, cap) == IF n > cap THEN cap ELSE n

HInit ==
  /\ Init
  /\ run = [k \in Keys |-> [ok |-> TRUE, n |-> 0]]
  /\ openAge = [k \in Keys |-> RecoveryTimeout]

Recorded(k, ok) ==
  run' = [run EXCEPT ![k] =
            [ok |-> ok, n |-> IF @.ok = ok THEN AtMost(@.n + 1, RunCap) ELSE 1]]

\* A half-open phase starts a new run of outcomes.
Admitted(c, k) ==
  /\ run' = [run EXCEPT ![k] = IF state[k] = "open" /\ state'[k] = "half-open"
                                 THEN [ok |-> TRUE, n |-> 0] ELSE @]
  /\ UNCHANGED openAge

Finished(c, k, ok) ==
  /\ Recorded(k, ok)
  /\ openAge' = [openAge EXCEPT ![k] = IF state[k] # "open" /\ state'[k] = "open"
                                       THEN 0 ELSE @]

HNext ==
  \/ \E c \in Callers :
       \/ \E k \in Keys : Get(c, k) /\ UNCHANGED history
       \/ Create(c) /\ UNCHANGED history
       \/ Admit(c) /\ Admitted(c, call[c].key)
       \/ PreCheck(c) /\ Admitted(c, call[c].key)
       \/ Succeed(c) /\ Finished(c, call[c].key, TRUE)
       \/ Fail(c) /\ Finished(c, call[c].key, FALSE)
       \/ Abandon(c) /\ UNCHANGED history
  \/ Tick /\ openAge' = [k \in Keys |-> AtMost(openAge[k] + 1, RecoveryTimeout)]
          /\ UNCHANGED run

HSpec == HInit /\ [][HNext]_hvars
FairHSpec == HSpec /\ Fairness

-----------------------------------------------------------------------------
\* config.yaml:59, "Consecutive failures required to open circuit": a closed
\* breaker opens only when the last FailureThreshold recorded outcomes, with no
\* success in between, were failures.
OpensOnConsecutiveFailures ==
  [][\A k \in Keys : state[k] = "closed" /\ state'[k] = "open" =>
       ~run'[k].ok /\ run'[k].n >= FailureThreshold]_hvars

\* config.yaml:61, "Consecutive half-open successes required to close circuit":
\* a breaker closes only after SuccessThreshold successes in this half-open
\* phase, with no failure in between.
ClosesOnConsecutiveSuccesses ==
  [][\A k \in Keys : state[k] = "half-open" /\ state'[k] = "closed" =>
       run'[k].ok /\ run'[k].n >= SuccessThreshold]_hvars

\* config.yaml:60, "Wait time before moving open circuit to half-open": when a
\* half-open phase begins the breaker has been open for the whole timeout.
StaysOpenForTimeout ==
  [][\A k \in Keys : state[k] = "open" /\ state'[k] # "open" =>
       openAge[k] >= RecoveryTimeout]_hvars

=============================================================================
