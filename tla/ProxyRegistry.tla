--------------------------- MODULE ProxyRegistry ---------------------------
(***************************************************************************)
(* The proxy registry of core/proxy.go: tagged pools of proxies, served    *)
(* round robin, with proxies disabled by network failures, deprioritised   *)
(* by challenges, and pools quarantined once every proxy is disabled.      *)
(*                                                                         *)
(* A proxy may carry several tags, so pools overlap.  A request holds the  *)
(* proxy it was served while the engine runs and reports afterwards: its   *)
(* report may find the proxy disabled, re-enabled or quarantined by what   *)
(* others reported meanwhile.  Every method runs under r.mu, hence is one  *)
(* step.  Deadlines are kept as the time left, which reaches 0 and stays:  *)
(* the code only asks whether now is before them.                          *)
(***************************************************************************)
EXTENDS Integers, Sequences

CONSTANTS
  Proxies,           \* proxy URLs of the registry
  Tags,              \* tags requests ask for, known to the registry or not
  Layouts,           \* the tagIndex values of the configurations considered
  Users,             \* requests served concurrently
  NoProxy,           \* the empty proxy URL
  FailureThreshold,  \* failureThreshold
  Quarantine,        \* ProxyPoolQuarantineDuration, in ticks
  Cooldown           \* ProxyChallengeCooldown, in ticks

\* NewProxyRegistry replaces a threshold below one by the default; the two
\* durations are positive constants of the code.
ASSUME RegistryAssumption ==
  /\ FailureThreshold \in Nat \ {0}
  /\ Quarantine \in Nat \ {0}
  /\ Cooldown \in Nat \ {0}
  /\ NoProxy \notin Proxies
  /\ Layouts \subseteq [Tags -> Seq(Proxies)]

VARIABLES
  tagIndex,    \* the pool of each tag, in configuration order; never changes
  failures,    \* proxyState.failures
  disabled,    \* proxyState.disabled
  challenged,  \* time left until proxyState.challengedUntil
  cursor,      \* nextByTag
  quarantine,  \* time left until tagQuarantine, NoQuarantine if not in the map
  use          \* what each request is doing

health == <<failures, disabled, challenged>>
pools == <<cursor, quarantine>>
vars == <<tagIndex, failures, disabled, challenged, cursor, quarantine, use>>

NoQuarantine == -1
Idle == [step |-> "idle"]
\* using: the engine runs through the proxy.
\* rotating: it was challenged, and HealthyCountForTag said two or more.
Busy == [step : {"using", "rotating"}, proxy : Proxies, tag : Tags]
BusyWith(step, p, t) == [step |-> step, proxy |-> p, tag |-> t]

Members(t) == {tagIndex[t][i] : i \in DOMAIN tagIndex[t]}
TagsOf(p) == {t \in Tags : p \in Members(t)}

TypeOK ==
  /\ tagIndex \in Layouts
  /\ failures \in [Proxies -> Nat]
  /\ disabled \in [Proxies -> BOOLEAN]
  /\ challenged \in [Proxies -> 0 .. Cooldown]
  /\ cursor \in [Tags -> Nat]
  /\ quarantine \in [Tags -> NoQuarantine .. Quarantine]
  /\ use \in [Users -> {Idle} \cup Busy]

Init ==
  /\ tagIndex \in Layouts
  /\ failures = [p \in Proxies |-> 0]
  /\ disabled = [p \in Proxies |-> FALSE]
  /\ challenged = [p \in Proxies |-> 0]
  /\ cursor = [t \in Tags |-> 0]
  /\ quarantine = [t \in Tags |-> NoQuarantine]
  /\ use = [u \in Users |-> Idle]

-----------------------------------------------------------------------------
(* NextByTagWithContext. *)

AllDisabled(t) == tagIndex[t] # <<>> /\ \A p \in Members(t) : disabled[p]
HealthyCount(t) == {i \in DOMAIN tagIndex[t] : ~disabled[tagIndex[t][i]]}

\* Broken: the quarantine is started but its end is not waited for.
RefusedNoWaitMutant(t) ==
  tagIndex[t] = <<>> \/ (AllDisabled(t) /\ quarantine[t] = NoQuarantine)
\* Nothing is served for an unknown tag, nor while every proxy is disabled and
\* the quarantine is still to be started or has not elapsed.
Refused(t) == tagIndex[t] = <<>> \/ (AllDisabled(t) /\ quarantine[t] # 0)

\* Broken: every refusal starts the quarantine again.
RefusalRestartsMutant(t) ==
  /\ Refused(t)
  /\ quarantine' = [quarantine EXCEPT ![t] = IF AllDisabled(t) THEN Quarantine ELSE @]
  /\ UNCHANGED <<health, cursor>>
NextByTagRefused(t) ==
  /\ Refused(t)
  /\ quarantine' = [quarantine EXCEPT ![t] = IF AllDisabled(t) /\ @ = NoQuarantine
                                             THEN Quarantine ELSE @]
  /\ UNCHANGED <<health, cursor>>

\* leastFailedLocked: the first of the proxies with the fewest failures.
LeastFailed(t) ==
  LET pool == tagIndex[t]
      best == CHOOSE i \in DOMAIN pool :
                \A j \in DOMAIN pool :
                  /\ failures[pool[i]] <= failures[pool[j]]
                  /\ j < i => failures[pool[i]] < failures[pool[j]]
  IN pool[best]

\* An exhausted pool is served again by re-enabling one proxy, the probe.
Probe(t) == {p \in Members(t) : AllDisabled(t) /\ p = LeastFailed(t)}

\* Broken: challenges are not looked at.
CandidatesUnrankedMutant(t) == {p \in Members(t) : ~disabled[p] \/ p \in Probe(t)}
\* The proxies of the first pass that finds any: enabled and not challenged,
\* else enabled.
Candidates(t) ==
  LET enabled == {p \in Members(t) : ~disabled[p] \/ p \in Probe(t)}
      preferred == {p \in enabled : challenged[p] = 0}
  IN IF preferred # {} THEN preferred ELSE enabled

At(t, i) == tagIndex[t][(i % Len(tagIndex[t])) + 1]

\* Broken: the cursor advances by one, not past the proxy that was served.
AdvancedMutant(t, i) == (cursor[t] + 1) % Len(tagIndex[t])
\* The cursor after serving the pool's proxy at position i.
Advanced(t, i) == (i + 1) % Len(tagIndex[t])

\* Broken: an elapsed quarantine re-enables the whole pool.
ReenabledAllMutant(t) == IF AllDisabled(t) THEN Members(t) ELSE {}
\* The proxies serving t re-enables.
Reenabled(t) == Probe(t)

\* The first candidate at or after the cursor is served.
NextByTagServed(t, p) ==
  /\ ~Refused(t)
  /\ \E i \in cursor[t] .. cursor[t] + Len(tagIndex[t]) - 1 :
       /\ p = At(t, i) /\ p \in Candidates(t)
       /\ \A j \in cursor[t] .. i - 1 : At(t, j) \notin Candidates(t)
       /\ cursor' = [cursor EXCEPT ![t] = Advanced(t, i)]
  /\ quarantine' = [quarantine EXCEPT ![t] = IF AllDisabled(t) THEN NoQuarantine ELSE @]
  /\ disabled' = [q \in Proxies |-> disabled[q] /\ q \notin Reenabled(t)]
  /\ failures' = [q \in Proxies |-> IF q \in Reenabled(t) THEN 0 ELSE failures[q]]
  /\ UNCHANGED challenged

-----------------------------------------------------------------------------
(* The reports. *)

\* A pool found exhausted is quarantined, unless it is already.
StartsQuarantine(t) == quarantine[t] <= 0

\* A failure that disables p, or finds it disabled, quarantines each of its
\* pools that has no enabled proxy left.
ReportFailure(p) ==
  /\ failures' = [failures EXCEPT ![p] = @ + 1]
  /\ disabled' = [disabled EXCEPT ![p] = @ \/ failures[p] + 1 >= FailureThreshold]
  /\ quarantine' = [t \in Tags |->
       IF failures[p] + 1 >= FailureThreshold /\ t \in TagsOf(p)
          /\ (\A q \in Members(t) : disabled'[q]) /\ StartsQuarantine(t)
       THEN Quarantine ELSE quarantine[t]]
  /\ UNCHANGED <<challenged, cursor>>

\* A success re-enables p, even when it comes in after p was disabled, and
\* lifts the quarantine of all its pools.
ReportSuccess(p) ==
  /\ failures' = [failures EXCEPT ![p] = 0]
  /\ disabled' = [disabled EXCEPT ![p] = FALSE]
  /\ quarantine' = [t \in Tags |-> IF t \in TagsOf(p) THEN NoQuarantine ELSE quarantine[t]]
  /\ UNCHANGED <<challenged, cursor>>

ReportChallenged(p) ==
  /\ challenged' = [challenged EXCEPT ![p] = Cooldown]
  /\ UNCHANGED <<failures, disabled, pools>>

-----------------------------------------------------------------------------
(* Requests, as searchWithProtection uses the registry. *)

\* No proxy: the attempt fails with ErrProxyUnavailable.
SelectNone(u, t) ==
  /\ use[u] = Idle
  /\ NextByTagRefused(t)
  /\ UNCHANGED <<tagIndex, use>>

Select(u, t, p) ==
  /\ use[u] = Idle
  /\ NextByTagServed(t, p)
  /\ use' = [use EXCEPT ![u] = BusyWith("using", p, t)]
  /\ UNCHANGED tagIndex

Succeed(u) ==
  /\ use[u].step = "using"
  /\ ReportSuccess(use[u].proxy)
  /\ use' = [use EXCEPT ![u] = Idle]
  /\ UNCHANGED tagIndex

\* ErrProxyConnect, ErrProxyAuth or ErrTimeout.
Fail(u) ==
  /\ use[u].step = "using"
  /\ ReportFailure(use[u].proxy)
  /\ use' = [use EXCEPT ![u] = Idle]
  /\ UNCHANGED tagIndex

\* An error that says nothing of the proxy, or a panic.
EndUnreported(u) ==
  /\ use[u].step = "using"
  /\ use' = [use EXCEPT ![u] = Idle]
  /\ UNCHANGED <<tagIndex, health, pools>>

\* A challenge: HealthyCountForTag is read under its own lock, and the
\* challenge is reported in a later step.
Rotate(u) ==
  /\ use[u].step = "using"
  /\ \E i, j \in HealthyCount(use[u].tag) : i # j
  /\ use' = [use EXCEPT ![u] = BusyWith("rotating", use[u].proxy, use[u].tag)]
  /\ UNCHANGED <<tagIndex, health, pools>>

Deprioritise(u) ==
  /\ use[u].step = "rotating"
  /\ ReportChallenged(use[u].proxy)
  /\ use' = [use EXCEPT ![u] = Idle]
  /\ UNCHANGED tagIndex

Tick ==
  /\ \/ \E p \in Proxies : challenged[p] > 0
     \/ \E t \in Tags : quarantine[t] > 0
  /\ challenged' = [p \in Proxies |-> IF challenged[p] > 0 THEN challenged[p] - 1 ELSE 0]
  /\ quarantine' = [t \in Tags |-> IF quarantine[t] > 0 THEN quarantine[t] - 1
                                                        ELSE quarantine[t]]
  /\ UNCHANGED <<tagIndex, failures, disabled, cursor, use>>

Next ==
  \/ \E u \in Users :
       \/ \E t \in Tags : SelectNone(u, t) \/ \E p \in Proxies : Select(u, t, p)
       \/ Succeed(u) \/ Fail(u) \/ EndUnreported(u) \/ Rotate(u) \/ Deprioritise(u)
  \/ Tick

Spec == Init /\ [][Next]_vars

-----------------------------------------------------------------------------
(* Fairness: time passes, engine calls return, and clients keep asking for  *)
(* every tag that has a pool.                                               *)

Ask(t) == \E u \in Users : SelectNone(u, t) \/ \E p \in Proxies : Select(u, t, p)

Fairness ==
  /\ WF_vars(Tick)
  /\ \A u \in Users :
       /\ WF_vars(Succeed(u) \/ Fail(u) \/ EndUnreported(u) \/ Rotate(u))
       /\ WF_vars(Deprioritise(u))
  /\ \A t \in Tags : SF_vars(Ask(t))

FairSpec == Spec /\ Fairness

-----------------------------------------------------------------------------
(* Properties. *)

\* A proxy is disabled exactly while its failures are at the threshold: late
\* reports, probes and recoveries never leave one half re-enabled.
DisabledFitsFailures ==
  \A p \in Proxies : disabled[p] <=> failures[p] >= FailureThreshold

\* An exhausted pool always has a quarantine entry, so one request never finds
\* it exhausted with no deadline after which a probe is due. The branch of
\* NextByTagWithContext that starts one is therefore never taken.
ExhaustedIsQuarantined ==
  \A t \in Tags : AllDisabled(t) => quarantine[t] # NoQuarantine

\* A disabled proxy comes back only by a success reported for it, or as the one
\* probe of an exhausted pool of its own whose quarantine has elapsed.
RevivalIsEarned ==
  [][\A p \in Proxies : disabled[p] /\ ~disabled'[p] =>
       \/ \E u \in Users : use[u].step = "using" /\ use[u].proxy = p /\ use'[u] = Idle
       \/ /\ \E t \in TagsOf(p) : AllDisabled(t) /\ quarantine[t] = 0
          /\ \A q \in Proxies \ {p} : disabled'[q] = disabled[q]]_vars

Served(t) == {p \in Proxies : \E u \in Users : use'[u] = BusyWith("using", p, t)
                                                /\ use[u] # use'[u]}

\* Every request for a pool is refused for its quarantine or served: no mix of
\* disabled and challenged proxies leaves NextByTagWithContext with neither, so
\* its last branch, which starts a quarantine, is never taken.
RefusedOrServed == \A t \in Tags : Refused(t) \/ Candidates(t) # {}

\* A pool that becomes exhausted is not probed at once, even when an earlier
\* quarantine of the tag has elapsed unnoticed because a proxy it shares with
\* another tag came back through that tag.
ExhaustionDelaysProbe ==
  [][\A t \in Tags : ~AllDisabled(t) /\ AllDisabled(t)' => quarantine'[t] > 0]_vars

Disjoint == \A s, t \in Tags : s # t => Members(s) \cap Members(t) = {}

\* core/proxy.go:24, the quarantine duration is "how long an exhausted tag pool
\* stays quarantined before a single probe proxy is re-enabled", and line 413,
\* "Pool is still in quarantine; refuse to serve any proxy": a tag whose
\* quarantine has not elapsed is served nothing, if no two tags share a proxy.
\* With a shared one a probe through the other tag ends the quarantine early.
DisjointQuarantineRefuses ==
  [][Disjoint => \A t \in Tags : quarantine[t] > 0 => Served(t) = {}]_vars

\* An exhausted pool is eventually tried again.
ExhaustedPoolRecovers == \A t \in Tags : AllDisabled(t) ~> ~AllDisabled(t)
=============================================================================
