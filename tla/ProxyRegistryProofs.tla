------------------------ MODULE ProxyRegistryProofs ------------------------
(***************************************************************************)
(* Proofs about ProxyRegistry, for every set of proxies, tags and requests,*)
(* every way the tags share proxies, and every threshold and duration.     *)
(***************************************************************************)
EXTENDS ProxyRegistryHistory, FiniteSetTheorems, WellFoundedInduction, TLAPS

-----------------------------------------------------------------------------
(* What the operators of a selection return. *)

\* A non-empty set of natural numbers has a least element.
LEMMA LeastNatural ==
  ASSUME NEW S, S \subseteq Nat, S # {}
  PROVE  \E n \in S : \A m \in S : n <= m
<1> DEFINE R == {ss \in Nat \X Nat : ss[1] < ss[2]}
<1>1. IsWellFoundedOn(R, Nat)
  BY NatLessThanWellFounded DEF OpToRel
<1>2. PICK n \in S : \A m \in S : ~ (<<m, n>> \in R)
  <2> HIDE DEF R
  <2> QED
    BY <1>1, WFMin
<1>3. ASSUME NEW m \in S PROVE n <= m
  <2>1. m \in Nat /\ n \in Nat /\ ~ (<<m, n>> \in R)
    BY <1>2
  <2>2. m < n => <<m, n>> \in R
    BY <2>1
  <2>3. QED
    BY <2>1, <2>2
<1>4. QED
  BY <1>3

LEMMA MembersAreProxies ==
  ASSUME TypeOK, NEW t \in Tags
  PROVE  tagIndex[t] \in Seq(Proxies) /\ Members(t) \subseteq Proxies
BY RegistryAssumption DEF TypeOK, Members

\* leastFailedLocked returns a proxy of the pool: among finitely many failure
\* counts there is a least one, and among its positions a first one.
LEMMA LeastFailedIsMember ==
  ASSUME TypeOK, NEW t \in Tags, tagIndex[t] # <<>>
  PROVE  LeastFailed(t) \in Members(t)
<1> DEFINE pool == tagIndex[t]
           D == DOMAIN pool
           F == {failures[pool[i]] : i \in D}
<1>1. pool \in Seq(Proxies) /\ D = 1 .. Len(pool) /\ Len(pool) \in Nat
  BY MembersAreProxies
<1>2. \A i \in D : pool[i] \in Proxies /\ failures[pool[i]] \in Nat
  BY <1>1 DEF TypeOK
<1>3. 1 \in D
  BY <1>1
<1>4. PICK n \in F : \A m \in F : n <= m
  <2>1. F \in SUBSET Nat /\ F # {}
    BY <1>2, <1>3
  <2>2. QED
    BY <2>1, LeastNatural
<1> DEFINE I == {i \in D : failures[pool[i]] = n}
<1>5. PICK b \in I : \A i \in I : b <= i
  <2>1. I \in SUBSET Nat /\ I # {}
    BY <1>1, <1>4
  <2>2. QED
    BY <2>1, LeastNatural
<1> DEFINE Best(i) == \A j \in D :
                        /\ failures[pool[i]] <= failures[pool[j]]
                        /\ j < i => failures[pool[i]] < failures[pool[j]]
<1>6. b \in D /\ Best(b)
  <2> SUFFICES ASSUME NEW j \in D
               PROVE  /\ failures[pool[b]] <= failures[pool[j]]
                      /\ j < b => failures[pool[b]] < failures[pool[j]]
    BY <1>5
  <2>1. failures[pool[b]] = n /\ b \in D
    BY <1>5
  <2>2. failures[pool[j]] \in F /\ n <= failures[pool[j]] /\ n \in Nat
    BY <1>2, <1>4
  <2>3. j < b => failures[pool[j]] # n
    BY <1>1, <1>5
  <2>4. QED
    BY <1>2, <2>1, <2>2, <2>3
<1>7. (CHOOSE i \in D : Best(i)) \in D
  BY <1>6
<1>8. QED
  BY <1>7 DEF LeastFailed, Members

\* A pool that is not refused has a proxy to serve.
LEMMA SomeCandidate ==
  ASSUME TypeOK, NEW t \in Tags, tagIndex[t] # <<>>
  PROVE  Candidates(t) # {}
<1>1. CASE AllDisabled(t)
  <2>1. LeastFailed(t) \in Probe(t) /\ LeastFailed(t) \in Members(t)
    BY <1>1, LeastFailedIsMember DEF Probe
  <2>2. QED
    BY <2>1 DEF Candidates
<1>2. CASE ~AllDisabled(t)
  <2>1. \E p \in Members(t) : ~disabled[p]
    BY <1>2 DEF AllDisabled
  <2>2. QED
    BY <2>1 DEF Candidates
<1>3. QED
  BY <1>1, <1>2

\* What serving p for t relies on and does to the health of the proxies.
LEMMA ServedFacts ==
  ASSUME TypeOK, NEW t \in Tags, NEW p \in Proxies, NextByTagServed(t, p)
  PROVE  /\ p \in Members(t)
         /\ ~disabled[p] \/ p \in Reenabled(t)
         /\ AllDisabled(t) => quarantine[t] = 0 /\ Reenabled(t) = {p}
         /\ ~AllDisabled(t) => Reenabled(t) = {}
         /\ cursor' \in [Tags -> Nat]
<1>1. p \in Candidates(t)
  BY DEF NextByTagServed
<1>2. p \in Members(t) /\ (~disabled[p] \/ p \in Probe(t))
  BY <1>1 DEF Candidates
<1>3. AllDisabled(t) => quarantine[t] = 0
  BY DEF NextByTagServed, Refused
<1>4. AllDisabled(t) => Probe(t) = {p}
  BY <1>2 DEF AllDisabled, Probe
<1>5. ~AllDisabled(t) => Probe(t) = {}
  BY DEF Probe
<1>6. cursor' \in [Tags -> Nat]
  <2>1. Len(tagIndex[t]) \in Nat \ {0}
    BY MembersAreProxies DEF NextByTagServed, Refused
  <2>2. cursor[t] \in Nat /\ cursor \in [Tags -> Nat]
    BY DEF TypeOK
  <2>3. \A i \in cursor[t] .. cursor[t] + Len(tagIndex[t]) - 1 : Advanced(t, i) \in Nat
    <3> SUFFICES ASSUME NEW i \in Nat PROVE Advanced(t, i) \in Nat
      BY <2>1, <2>2
    <3> DEFINE n == Len(tagIndex[t])
    <3>1. n \in Nat /\ n > 0 /\ i + 1 \in Nat
      BY <2>1
    <3>2. (i + 1) % n \in Nat
      <4> HIDE DEF n
      <4> QED
        BY <3>1
    <3>3. QED
      BY <3>2 DEF Advanced
  <2>4. QED
    BY <2>1, <2>2, <2>3 DEF NextByTagServed
<1>7. QED
  BY <1>2, <1>3, <1>4, <1>5, <1>6 DEF Reenabled

-----------------------------------------------------------------------------
(* What a step is to the registry. *)

Quiet == UNCHANGED <<failures, disabled, quarantine>>

\* Every step is one method of the registry, or the passing of time, and
\* tells who reported.
LEMMA StepIsMethod ==
  ASSUME TypeOK, [Next]_vars
  PROVE  /\ tagIndex' = tagIndex
         /\ \/ \E t \in Tags : NextByTagRefused(t)
            \/ \E t \in Tags, p \in Proxies : NextByTagServed(t, p)
            \/ \E u \in Users : Succeed(u) /\ use[u] \in Busy /\ ReportSuccess(use[u].proxy)
            \/ \E u \in Users : Fail(u) /\ use[u] \in Busy /\ ReportFailure(use[u].proxy)
            \/ Tick
            \/ Quiet
<1>1. ASSUME NEW u \in Users, use[u].step \in {"using", "rotating"} PROVE use[u] \in Busy
  BY <1>1 DEF TypeOK, Idle
<1>2. ASSUME NEW u \in Users, NEW t \in Tags, SelectNone(u, t)
      PROVE  tagIndex' = tagIndex /\ NextByTagRefused(t)
  BY <1>2 DEF SelectNone
<1>3. ASSUME NEW u \in Users, NEW t \in Tags, NEW p \in Proxies, Select(u, t, p)
      PROVE  tagIndex' = tagIndex /\ NextByTagServed(t, p)
  BY <1>3 DEF Select
<1>4. ASSUME NEW u \in Users, Succeed(u)
      PROVE  tagIndex' = tagIndex /\ use[u] \in Busy /\ ReportSuccess(use[u].proxy)
  BY <1>1, <1>4 DEF Succeed
<1>5. ASSUME NEW u \in Users, Fail(u)
      PROVE  tagIndex' = tagIndex /\ use[u] \in Busy /\ ReportFailure(use[u].proxy)
  BY <1>1, <1>5 DEF Fail
<1>6. ASSUME NEW u \in Users, EndUnreported(u) \/ Rotate(u)
      PROVE  tagIndex' = tagIndex /\ Quiet
  BY <1>6 DEF EndUnreported, Rotate, health, pools, Quiet
<1>7. ASSUME NEW u \in Users, Deprioritise(u)
      PROVE  tagIndex' = tagIndex /\ Quiet
  BY <1>7 DEF Deprioritise, ReportChallenged, pools, Quiet
<1>8. CASE Tick
  BY <1>8 DEF Tick
<1>9. CASE UNCHANGED vars
  BY <1>9 DEF vars, Quiet
<1>10. QED
  BY <1>2, <1>3, <1>4, <1>5, <1>6, <1>7, <1>8, <1>9 DEF Next

-----------------------------------------------------------------------------
(* Types. *)

LEMMA TypeStep == TypeOK /\ [Next]_vars => TypeOK'
<1> SUFFICES ASSUME TypeOK, [Next]_vars PROVE TypeOK'
  OBVIOUS
<1> USE DEF TypeOK
<1> USE RegistryAssumption DEF NoQuarantine
<1>1. ASSUME NEW u \in Users, use[u].step \in {"using", "rotating"} PROVE use[u] \in Busy
  BY <1>1 DEF Idle
<1>2. ASSUME NEW u \in Users, NEW t \in Tags, SelectNone(u, t) PROVE TypeOK'
  BY <1>2 DEF SelectNone, NextByTagRefused, health
<1>3. ASSUME NEW u \in Users, NEW t \in Tags, NEW p \in Proxies, Select(u, t, p)
      PROVE  TypeOK'
  <2>1. NextByTagServed(t, p) /\ tagIndex' = tagIndex
    BY <1>3 DEF Select
  <2>2. cursor' \in [Tags -> Nat]
    BY <2>1, ServedFacts
  <2>3. use' \in [Users -> {Idle} \cup Busy]
    BY <1>3 DEF Select, Busy, BusyWith
  <2>4. /\ quarantine' \in [Tags -> NoQuarantine .. Quarantine]
        /\ failures' \in [Proxies -> Nat] /\ challenged' = challenged
    BY <2>1 DEF NextByTagServed
  <2>5. disabled' \in [Proxies -> BOOLEAN]
    BY <2>1 DEF NextByTagServed
  <2>6. QED
    BY <2>1, <2>2, <2>3, <2>4, <2>5
<1>4. ASSUME NEW u \in Users, Succeed(u) \/ Fail(u) PROVE TypeOK'
  <2>1. use[u].proxy \in Proxies
    BY <1>1, <1>4 DEF Succeed, Fail, Busy
  <2>2. tagIndex' = tagIndex /\ use' \in [Users -> {Idle} \cup Busy]
    BY <1>4 DEF Succeed, Fail
  <2>3. CASE ReportSuccess(use[u].proxy)
    BY <2>1, <2>2, <2>3 DEF ReportSuccess
  <2>4. CASE ReportFailure(use[u].proxy)
    <3>1. failures' \in [Proxies -> Nat] /\ quarantine' \in [Tags -> NoQuarantine .. Quarantine]
      BY <2>1, <2>4 DEF ReportFailure
    <3>2. disabled' \in [Proxies -> BOOLEAN] /\ challenged' = challenged /\ cursor' = cursor
      BY <2>1, <2>4 DEF ReportFailure
    <3>3. QED
      BY <2>2, <3>1, <3>2
  <2>5. QED
    BY <1>4, <2>3, <2>4 DEF Succeed, Fail
<1>5. ASSUME NEW u \in Users, EndUnreported(u) \/ Rotate(u) PROVE TypeOK'
  <2>1. use[u] \in Busy
    BY <1>1, <1>5 DEF EndUnreported, Rotate
  <2>2. use' \in [Users -> {Idle} \cup Busy]
    <3>1. BusyWith("rotating", use[u].proxy, use[u].tag) \in Busy
      BY <2>1 DEF Busy, BusyWith
    <3>2. use' = [use EXCEPT ![u] = Idle]
          \/ use' = [use EXCEPT ![u] = BusyWith("rotating", use[u].proxy, use[u].tag)]
      BY <1>5 DEF EndUnreported, Rotate
    <3>3. QED
      BY <3>1, <3>2
  <2>3. QED
    BY <1>5, <2>2 DEF EndUnreported, Rotate, health, pools
<1>6. ASSUME NEW u \in Users, Deprioritise(u) PROVE TypeOK'
  <2>1. use[u].proxy \in Proxies
    BY <1>1, <1>6 DEF Deprioritise, Busy
  <2>2. QED
    BY <1>6, <2>1 DEF Deprioritise, ReportChallenged, pools
<1>7. CASE Tick
  BY <1>7 DEF Tick
<1>8. CASE UNCHANGED vars
  BY <1>8 DEF vars
<1>9. QED
  BY <1>2, <1>3, <1>4, <1>5, <1>6, <1>7, <1>8 DEF Next

\* Type correctness: in particular no deadline exceeds its duration.
THEOREM TypeCorrect == Spec => []TypeOK
<1>1. Init => TypeOK
  BY RegistryAssumption DEF Init, TypeOK, NoQuarantine
<1>2. QED
  BY <1>1, TypeStep, PTL DEF Spec

\* Every request for a pool is refused for its quarantine or served.
THEOREM AlwaysRefusedOrServed == Spec => []RefusedOrServed
<1>1. TypeOK => RefusedOrServed
  BY SomeCandidate DEF RefusedOrServed, Refused
<1>2. QED
  BY <1>1, TypeCorrect, PTL

-----------------------------------------------------------------------------
(* Failure counts and quarantines agree with what is disabled. *)

LEMMA DisabledFitsStep ==
  ASSUME TypeOK, DisabledFitsFailures, [Next]_vars
  PROVE  DisabledFitsFailures'
<1> USE DEF TypeOK, DisabledFitsFailures
<1>1. ASSUME NEW t \in Tags, NextByTagRefused(t) PROVE DisabledFitsFailures'
  BY <1>1 DEF NextByTagRefused, health
<1>2. ASSUME NEW t \in Tags, NEW p \in Proxies, NextByTagServed(t, p)
      PROVE  DisabledFitsFailures'
  <2> SUFFICES ASSUME NEW q \in Proxies
               PROVE  disabled'[q] <=> failures'[q] >= FailureThreshold
    OBVIOUS
  <2>1. CASE q \in Reenabled(t)
    <3>1. failures'[q] = 0 /\ ~disabled'[q]
      BY <1>2, <2>1 DEF NextByTagServed
    <3>2. ~(0 >= FailureThreshold)
      BY RegistryAssumption
    <3>3. QED
      BY <3>1, <3>2
  <2>2. CASE q \notin Reenabled(t)
    <3>1. disabled'[q] = disabled[q] /\ failures'[q] = failures[q]
      BY <1>2, <2>2 DEF NextByTagServed
    <3>2. QED
      BY <3>1
  <2>3. QED
    BY <2>1, <2>2
<1>3. ASSUME NEW p \in Proxies, ReportSuccess(p) PROVE DisabledFitsFailures'
  <2> SUFFICES ASSUME NEW q \in Proxies
               PROVE  disabled'[q] <=> failures'[q] >= FailureThreshold
    OBVIOUS
  <2>1. CASE q = p
    <3>1. failures'[q] = 0 /\ ~disabled'[q]
      BY <1>3, <2>1 DEF ReportSuccess
    <3>2. ~(0 >= FailureThreshold)
      BY RegistryAssumption
    <3>3. QED
      BY <3>1, <3>2
  <2>2. CASE q # p
    <3>1. disabled'[q] = disabled[q] /\ failures'[q] = failures[q]
      BY <1>3, <2>2 DEF ReportSuccess
    <3>2. QED
      BY <3>1
  <2>3. QED
    BY <2>1, <2>2
<1>4. ASSUME NEW p \in Proxies, ReportFailure(p) PROVE DisabledFitsFailures'
  <2> SUFFICES ASSUME NEW q \in Proxies
               PROVE  disabled'[q] <=> failures'[q] >= FailureThreshold
    OBVIOUS
  <2>1. CASE q = p
    <3>1. failures'[q] = failures[q] + 1 /\ failures[q] \in Nat
      BY <1>4, <2>1 DEF ReportFailure
    <3>2. disabled'[q] = (disabled[q] \/ failures[q] + 1 >= FailureThreshold)
      BY <1>4, <2>1, Zenon DEF ReportFailure
    <3>3. failures[q] >= FailureThreshold => failures[q] + 1 >= FailureThreshold
      BY <3>1, RegistryAssumption
    <3>4. QED
      BY <3>1, <3>2, <3>3
  <2>2. CASE q # p
    <3>1. disabled'[q] = disabled[q] /\ failures'[q] = failures[q]
      BY <1>4, <2>2 DEF ReportFailure
    <3>2. QED
      BY <3>1
  <2>3. QED
    BY <2>1, <2>2
<1>5. CASE Tick
  BY <1>5 DEF Tick
<1>6. CASE Quiet
  BY <1>6 DEF Quiet
<1>7. QED
  BY <1>1, <1>2, <1>3, <1>4, <1>5, <1>6, StepIsMethod DEF Busy

\* A proxy is disabled exactly while its failures are at the threshold.
THEOREM DisabledFits == Spec => []DisabledFitsFailures
<1>1. Init => DisabledFitsFailures
  <2> SUFFICES ASSUME Init, NEW p \in Proxies
               PROVE  disabled[p] <=> failures[p] >= FailureThreshold
    BY DEF DisabledFitsFailures
  <2>1. failures[p] = 0 /\ ~disabled[p]
    BY DEF Init
  <2>2. ~(0 >= FailureThreshold)
    BY RegistryAssumption
  <2>3. QED
    BY <2>1, <2>2
<1>2. TypeOK /\ DisabledFitsFailures /\ [Next]_vars => DisabledFitsFailures'
  BY DisabledFitsStep
<1>3. QED
  BY <1>1, <1>2, TypeCorrect, PTL DEF Spec

-----------------------------------------------------------------------------
(* Quarantines. An exhausted pool is quarantined, and, as long as no other    *)
(* tag can re-enable its proxies, a quarantined pool is exhausted.            *)

QuarantinedIsExhausted ==
  \A t \in Tags : Disjoint /\ quarantine[t] # NoQuarantine => AllDisabled(t)

QuarantineInv == ExhaustedIsQuarantined /\ QuarantinedIsExhausted

\* Whether a pool is exhausted depends on the disabled marks of its proxies.
LEMMA SamePool ==
  ASSUME TypeOK, tagIndex' = tagIndex
  PROVE  /\ \A t \in Tags : Members(t)' = Members(t)
         /\ \A t \in Tags : AllDisabled(t)' <=>
              tagIndex[t] # <<>> /\ \A p \in Members(t) : disabled'[p]
         /\ Disjoint' <=> Disjoint
<1>1. \A t \in Tags : Members(t)' = Members(t)
  BY DEF Members
<1>2. QED
  BY <1>1 DEF AllDisabled, Disjoint

LEMMA QuarantineStep ==
  ASSUME TypeOK, QuarantineInv, [Next]_vars
  PROVE  QuarantineInv'
<1> SUFFICES ASSUME NEW s \in Tags
             PROVE  /\ AllDisabled(s)' => quarantine'[s] # NoQuarantine
                    /\ Disjoint' /\ quarantine'[s] # NoQuarantine => AllDisabled(s)'
  BY DEF QuarantineInv, ExhaustedIsQuarantined, QuarantinedIsExhausted
<1>1. /\ AllDisabled(s) => quarantine[s] # NoQuarantine
      /\ Disjoint /\ quarantine[s] # NoQuarantine => AllDisabled(s)
  BY DEF QuarantineInv, ExhaustedIsQuarantined, QuarantinedIsExhausted
<1>2. /\ tagIndex' = tagIndex
      /\ Members(s)' = Members(s)
      /\ AllDisabled(s)' <=> tagIndex[s] # <<>> /\ \A p \in Members(s) : disabled'[p]
      /\ Disjoint' <=> Disjoint
  BY StepIsMethod, SamePool
<1>3. Members(s) \subseteq Proxies
  BY MembersAreProxies
<1>4. AllDisabled(s) <=> tagIndex[s] # <<>> /\ \A p \in Members(s) : disabled[p]
  BY DEF AllDisabled
<1>5. Quarantine \in Nat /\ Quarantine > 0 /\ NoQuarantine = -1
  BY RegistryAssumption DEF NoQuarantine
<1>6. quarantine \in [Tags -> NoQuarantine .. Quarantine] /\ disabled \in [Proxies -> BOOLEAN]
  BY DEF TypeOK
<1>7. ASSUME NEW t \in Tags, NextByTagRefused(t)
      PROVE  /\ AllDisabled(s)' => quarantine'[s] # NoQuarantine
             /\ Disjoint /\ quarantine'[s] # NoQuarantine => AllDisabled(s)'
  <2>1. disabled' = disabled
    BY <1>7 DEF NextByTagRefused, health
  <2>2. AllDisabled(s)' <=> AllDisabled(s)
    BY <1>2, <1>4, <2>1
  <2>3. CASE s = t /\ AllDisabled(t) /\ quarantine[t] = NoQuarantine
    <3>1. quarantine'[s] = Quarantine
      BY <1>7, <2>3, <1>6 DEF NextByTagRefused
    <3>2. QED
      BY <2>2, <2>3, <3>1, <1>5
  <2>4. CASE ~(s = t /\ AllDisabled(t) /\ quarantine[t] = NoQuarantine)
    <3>1. quarantine'[s] = quarantine[s]
      BY <1>7, <2>4, <1>6 DEF NextByTagRefused
    <3>2. QED
      BY <1>1, <2>2, <3>1
  <2>5. QED
    BY <2>3, <2>4
<1>8. ASSUME NEW t \in Tags, NEW p \in Proxies, NextByTagServed(t, p)
      PROVE  /\ AllDisabled(s)' => quarantine'[s] # NoQuarantine
             /\ Disjoint /\ quarantine'[s] # NoQuarantine => AllDisabled(s)'
  <2>1. /\ p \in Members(t)
        /\ AllDisabled(t) => Reenabled(t) = {p}
        /\ ~AllDisabled(t) => Reenabled(t) = {}
    BY <1>8, ServedFacts
  <2>2. \A q \in Proxies : disabled'[q] <=> disabled[q] /\ q \notin Reenabled(t)
    BY <1>8 DEF NextByTagServed
  <2>3. quarantine' = [quarantine EXCEPT ![t] = IF AllDisabled(t) THEN NoQuarantine ELSE @]
    BY <1>8 DEF NextByTagServed
  <2>4. AllDisabled(s)' => AllDisabled(s)
    BY <1>2, <1>3, <1>4, <2>2
  <2>5. CASE ~AllDisabled(t)
    <3>1. quarantine' = quarantine
      BY <2>3, <2>5, <1>6
    <3>2. AllDisabled(s)' <=> AllDisabled(s)
      BY <1>2, <1>3, <1>4, <2>1, <2>2, <2>5
    <3>3. QED
      BY <1>1, <3>1, <3>2
  <2>6. CASE AllDisabled(t) /\ s = t
    <3>1. quarantine'[s] = NoQuarantine
      BY <2>3, <2>6, <1>6
    <3>2. ~AllDisabled(s)'
      BY <1>2, <1>3, <2>1, <2>2, <2>6
    <3>3. QED
      BY <3>1, <3>2
  <2>7. CASE AllDisabled(t) /\ s # t
    <3>1. quarantine'[s] = quarantine[s]
      BY <2>3, <2>7, <1>6
    <3>2. Disjoint => p \notin Members(s)
      BY <2>1, <2>7 DEF Disjoint
    <3>3. Disjoint /\ AllDisabled(s) => AllDisabled(s)'
      BY <1>2, <1>3, <1>4, <2>1, <2>2, <2>7, <3>2
    <3>4. QED
      BY <1>1, <2>4, <3>1, <3>3
  <2>8. QED
    BY <2>5, <2>6, <2>7
<1>9. ASSUME NEW p \in Proxies, ReportSuccess(p)
      PROVE  /\ AllDisabled(s)' => quarantine'[s] # NoQuarantine
             /\ Disjoint /\ quarantine'[s] # NoQuarantine => AllDisabled(s)'
  <2>1. ~disabled'[p] /\ \A q \in Proxies \ {p} : disabled'[q] = disabled[q]
    BY <1>9, <1>6 DEF ReportSuccess
  <2>2. CASE p \in Members(s)
    <3>1. quarantine'[s] = NoQuarantine
      BY <1>9, <2>2 DEF ReportSuccess, TagsOf
    <3>2. QED
      BY <1>2, <2>1, <2>2, <3>1
  <2>3. CASE p \notin Members(s)
    <3>1. quarantine'[s] = quarantine[s]
      BY <1>9, <2>3 DEF ReportSuccess, TagsOf
    <3>2. AllDisabled(s)' <=> AllDisabled(s)
      BY <1>2, <1>3, <1>4, <2>1, <2>3
    <3>3. QED
      BY <1>1, <3>1, <3>2
  <2>4. QED
    BY <2>2, <2>3
<1>10. ASSUME NEW p \in Proxies, ReportFailure(p)
       PROVE  /\ AllDisabled(s)' => quarantine'[s] # NoQuarantine
              /\ Disjoint /\ quarantine'[s] # NoQuarantine => AllDisabled(s)'
  <2> DEFINE Starts == /\ failures[p] + 1 >= FailureThreshold /\ s \in TagsOf(p)
                       /\ (\A q \in Members(s) : disabled'[q]) /\ StartsQuarantine(s)
  <2>1. quarantine'[s] = IF Starts THEN Quarantine ELSE quarantine[s]
    <3>1. quarantine' = [t \in Tags |->
            IF failures[p] + 1 >= FailureThreshold /\ t \in TagsOf(p)
               /\ (\A q \in Members(t) : disabled'[q]) /\ StartsQuarantine(t)
            THEN Quarantine ELSE quarantine[t]]
      BY <1>10 DEF ReportFailure
    <3>2. QED
      BY <3>1
  <2>2. \A q \in Proxies : q # p => disabled'[q] = disabled[q]
    BY <1>10, <1>6 DEF ReportFailure
  <2>3. disabled'[p] = (disabled[p] \/ failures[p] + 1 >= FailureThreshold)
    BY <1>10, <1>6, Zenon DEF ReportFailure
  <2>4. AllDisabled(s) => AllDisabled(s)'
    BY <1>2, <1>3, <1>4, <2>2, <2>3
  <2>5. CASE Starts
    <3>1. p \in Members(s) /\ \A q \in Members(s) : disabled'[q]
      BY <2>5 DEF TagsOf
    <3>2. tagIndex[s] # <<>>
      BY <3>1, MembersAreProxies DEF Members
    <3>3. AllDisabled(s)' /\ quarantine'[s] = Quarantine
      BY <1>2, <2>1, <2>5, <3>1, <3>2
    <3>4. QED
      BY <3>3, <1>5
  <2>6. CASE ~Starts
    <3>1. quarantine'[s] = quarantine[s]
      BY <2>1, <2>6
    <3>2. AllDisabled(s)' => quarantine[s] # NoQuarantine
      <4>1. SUFFICES ASSUME AllDisabled(s)', ~AllDisabled(s) PROVE quarantine[s] # NoQuarantine
        BY <1>1
      <4>2. p \in Members(s) /\ ~disabled[p]
        BY <1>2, <1>3, <1>4, <4>1, <2>2
      <4>3. failures[p] + 1 >= FailureThreshold /\ s \in TagsOf(p)
        BY <1>2, <4>1, <4>2, <2>3 DEF TagsOf
      <4>4. ~StartsQuarantine(s)
        BY <1>2, <2>6, <4>1, <4>3
      <4>5. QED
        BY <4>4, <1>5 DEF StartsQuarantine
    <3>3. QED
      BY <1>1, <2>4, <3>1, <3>2
  <2>7. QED
    BY <2>5, <2>6
<1>11. CASE Tick
  <2>1. disabled' = disabled
    BY <1>11 DEF Tick
  <2>2. quarantine'[s] = NoQuarantine <=> quarantine[s] = NoQuarantine
    <3>1. quarantine'[s] = IF quarantine[s] > 0 THEN quarantine[s] - 1 ELSE quarantine[s]
      BY <1>11 DEF Tick
    <3>2. QED
      BY <3>1, <1>5, <1>6
  <2>3. QED
    BY <1>1, <1>2, <1>4, <2>1, <2>2
<1>12. CASE Quiet
  BY <1>1, <1>2, <1>4, <1>12 DEF Quiet
<1>13. \A u \in Users : use[u] \in Busy => use[u].proxy \in Proxies
  BY DEF Busy
<1>14. QED
  BY <1>2, <1>7, <1>8, <1>9, <1>10, <1>11, <1>12, <1>13, StepIsMethod

LEMMA QuarantineAlways == Spec => []QuarantineInv
<1>1. Init => QuarantineInv
  <2> SUFFICES ASSUME Init, NEW t \in Tags
               PROVE  quarantine[t] = NoQuarantine /\ ~AllDisabled(t)
    BY DEF QuarantineInv, ExhaustedIsQuarantined, QuarantinedIsExhausted
  <2>1. tagIndex[t] \in Seq(Proxies)
    BY RegistryAssumption DEF Init
  <2>2. tagIndex[t] # <<>> => \E p \in Members(t) : p \in Proxies
    BY <2>1 DEF Members
  <2>3. \A p \in Proxies : ~disabled[p]
    BY DEF Init
  <2>4. QED
    BY <2>2, <2>3 DEF Init, AllDisabled
<1>2. QED
  BY <1>1, QuarantineStep, TypeCorrect, PTL DEF Spec

\* An exhausted pool always has a deadline after which a probe is due.
THEOREM ExhaustedQuarantined == Spec => []ExhaustedIsQuarantined
<1>1. QuarantineInv => ExhaustedIsQuarantined
  BY DEF QuarantineInv
<1>2. QED
  BY <1>1, QuarantineAlways, PTL

-----------------------------------------------------------------------------
(* Steps. *)

LEMMA RevivalStep ==
  ASSUME TypeOK, [Next]_vars, NEW p \in Proxies, disabled[p], ~disabled'[p]
  PROVE  \/ \E u \in Users : use[u].step = "using" /\ use[u].proxy = p /\ use'[u] = Idle
         \/ /\ \E t \in TagsOf(p) : AllDisabled(t) /\ quarantine[t] = 0
            /\ \A q \in Proxies \ {p} : disabled'[q] = disabled[q]
<1>1. ASSUME NEW t \in Tags, NextByTagRefused(t) PROVE FALSE
  BY <1>1 DEF NextByTagRefused, health
<1>2. ASSUME NEW t \in Tags, NEW r \in Proxies, NextByTagServed(t, r)
      PROVE  /\ \E s \in TagsOf(p) : AllDisabled(s) /\ quarantine[s] = 0
             /\ \A q \in Proxies \ {p} : disabled'[q] = disabled[q]
  <2>1. /\ r \in Members(t)
        /\ AllDisabled(t) => quarantine[t] = 0 /\ Reenabled(t) = {r}
        /\ ~AllDisabled(t) => Reenabled(t) = {}
    BY <1>2, ServedFacts
  <2>2. disabled' = [q \in Proxies |-> disabled[q] /\ q \notin Reenabled(t)]
    BY <1>2 DEF NextByTagServed
  <2>3. p \in Reenabled(t)
    BY <2>2
  <2>4. AllDisabled(t) /\ p = r /\ Reenabled(t) = {p}
    BY <2>1, <2>3
  <2>5. t \in TagsOf(p)
    BY <2>1, <2>4 DEF TagsOf
  <2>6. ASSUME NEW q \in Proxies \ {p} PROVE disabled'[q] = disabled[q]
    <3>1. disabled[q] \in BOOLEAN
      BY DEF TypeOK
    <3>2. disabled'[q] = (disabled[q] /\ q \notin Reenabled(t))
      BY <2>2, Zenon
    <3>3. QED
      BY <2>4, <3>1, <3>2
  <2>7. QED
    BY <2>1, <2>4, <2>5, <2>6
<1>3. ASSUME NEW u \in Users, Succeed(u), use[u] \in Busy, ReportSuccess(use[u].proxy)
      PROVE  use[u].step = "using" /\ use[u].proxy = p /\ use'[u] = Idle
  <2>1. use[u].step = "using" /\ use'[u] = Idle
    BY <1>3 DEF Succeed, TypeOK
  <2>2. use[u].proxy = p
    BY <1>3 DEF ReportSuccess, TypeOK
  <2>3. QED
    BY <2>1, <2>2
<1>4. ASSUME NEW r \in Proxies, ReportFailure(r) PROVE FALSE
  <2>1. CASE r = p
    <3>1. disabled'[p] = (disabled[p] \/ failures[p] + 1 >= FailureThreshold)
      BY <1>4, <2>1, Zenon DEF ReportFailure, TypeOK
    <3>2. QED
      BY <3>1
  <2>2. CASE r # p
    BY <1>4, <2>2 DEF ReportFailure, TypeOK
  <2>3. QED
    BY <2>1, <2>2
<1>5. CASE Tick
  BY <1>5 DEF Tick
<1>6. CASE Quiet
  BY <1>6 DEF Quiet
<1>7. QED
  BY <1>1, <1>2, <1>3, <1>4, <1>5, <1>6, StepIsMethod DEF Busy

\* A disabled proxy comes back by its own success or as the one probe of an
\* exhausted pool whose quarantine has elapsed.
THEOREM RevivalEarned == Spec => RevivalIsEarned
<1>1. TypeOK /\ [Next]_vars => [\A p \in Proxies : disabled[p] /\ ~disabled'[p] =>
       \/ \E u \in Users : use[u].step = "using" /\ use[u].proxy = p /\ use'[u] = Idle
       \/ /\ \E t \in TagsOf(p) : AllDisabled(t) /\ quarantine[t] = 0
          /\ \A q \in Proxies \ {p} : disabled'[q] = disabled[q]]_vars
  BY RevivalStep
<1>2. QED
  BY <1>1, TypeCorrect, PTL DEF Spec, RevivalIsEarned

LEMMA ExhaustionStep ==
  ASSUME TypeOK, [Next]_vars, NEW s \in Tags, ~AllDisabled(s), AllDisabled(s)'
  PROVE  quarantine'[s] > 0
<1>1. /\ tagIndex' = tagIndex
      /\ tagIndex[s] # <<>>
      /\ \A p \in Members(s) : disabled'[p]
  BY StepIsMethod, SamePool
<1>2. PICK p \in Members(s) : ~disabled[p]
  BY <1>1 DEF AllDisabled
<1>3. p \in Proxies /\ disabled'[p]
  BY <1>1, <1>2, MembersAreProxies
<1>4. Quarantine > 0 /\ quarantine[s] \in Int
  BY RegistryAssumption DEF TypeOK, NoQuarantine
<1>5. ASSUME NEW t \in Tags, NextByTagRefused(t) PROVE FALSE
  BY <1>2, <1>3, <1>5 DEF NextByTagRefused, health
<1>6. ASSUME NEW t \in Tags, NEW r \in Proxies, NextByTagServed(t, r) PROVE FALSE
  BY <1>2, <1>3, <1>6 DEF NextByTagServed
<1>7. ASSUME NEW r \in Proxies, ReportSuccess(r) PROVE FALSE
  BY <1>2, <1>3, <1>7 DEF ReportSuccess, TypeOK
<1>8. ASSUME NEW r \in Proxies, ReportFailure(r) PROVE quarantine'[s] > 0
  <2>1. r = p
    BY <1>2, <1>3, <1>8 DEF ReportFailure, TypeOK
  <2>2. disabled'[p] = (disabled[p] \/ failures[p] + 1 >= FailureThreshold)
    BY <1>3, <1>8, <2>1, Zenon DEF ReportFailure, TypeOK
  <2>3. failures[p] + 1 >= FailureThreshold /\ s \in TagsOf(p)
    BY <1>2, <1>3, <2>2 DEF TagsOf
  <2>4. quarantine'[s] = IF StartsQuarantine(s) THEN Quarantine ELSE quarantine[s]
    <3>1. quarantine' = [t \in Tags |->
            IF failures[p] + 1 >= FailureThreshold /\ t \in TagsOf(p)
               /\ (\A q \in Members(t) : disabled'[q]) /\ StartsQuarantine(t)
            THEN Quarantine ELSE quarantine[t]]
      BY <1>8, <2>1 DEF ReportFailure
    <3>2. QED
      BY <1>1, <2>3, <3>1
  <2>5. QED
    BY <1>4, <2>4 DEF StartsQuarantine
<1>9. CASE Tick
  BY <1>2, <1>3, <1>9 DEF Tick
<1>10. CASE Quiet
  BY <1>2, <1>3, <1>10 DEF Quiet
<1>11. QED
  BY <1>5, <1>6, <1>7, <1>8, <1>9, <1>10, StepIsMethod DEF Busy

\* A pool that becomes exhausted is not probed at once.
THEOREM ExhaustionDelays == Spec => ExhaustionDelaysProbe
<1>1. TypeOK /\ [Next]_vars =>
        [\A t \in Tags : ~AllDisabled(t) /\ AllDisabled(t)' => quarantine'[t] > 0]_vars
  BY ExhaustionStep
<1>2. QED
  BY <1>1, TypeCorrect, PTL DEF Spec, ExhaustionDelaysProbe

\* A proxy is handed out for a tag only by serving that tag.
LEMMA ServedIsSelected ==
  ASSUME TypeOK, [Next]_vars, NEW t \in Tags, Served(t) # {}
  PROVE  ~Refused(t)
<1>1. PICK p \in Proxies, u \in Users : use'[u] = BusyWith("using", p, t) /\ use[u] # use'[u]
  BY DEF Served
<1>2. use \in [Users -> {Idle} \cup Busy] /\ use'[u] # Idle /\ use'[u].step # "rotating"
  BY <1>1 DEF TypeOK, Idle, BusyWith
<1>3. ASSUME NEW v \in Users, NEW s \in Tags, NEW q \in Proxies, Select(v, s, q)
      PROVE  ~Refused(t)
  <2>1. use' = [use EXCEPT ![v] = BusyWith("using", q, s)]
    BY <1>3 DEF Select
  <2>2. s = t
    BY <1>1, <1>2, <2>1 DEF BusyWith
  <2>3. QED
    BY <1>3, <2>2 DEF Select, NextByTagServed
<1>4. ASSUME NEW v \in Users, NEW s \in Tags, SelectNone(v, s) PROVE FALSE
  BY <1>1, <1>4 DEF SelectNone
<1>5. ASSUME NEW v \in Users, Succeed(v) \/ Fail(v) \/ EndUnreported(v) \/ Deprioritise(v)
      PROVE  FALSE
  <2>1. use' = [use EXCEPT ![v] = Idle]
    BY <1>5 DEF Succeed, Fail, EndUnreported, Deprioritise
  <2>2. QED
    BY <1>1, <1>2, <2>1
<1>6. ASSUME NEW v \in Users, Rotate(v) PROVE FALSE
  <2>1. use' = [use EXCEPT ![v] = BusyWith("rotating", use[v].proxy, use[v].tag)]
    BY <1>6 DEF Rotate
  <2>2. QED
    BY <1>1, <1>2, <2>1 DEF BusyWith
<1>7. CASE Tick
  BY <1>1, <1>7 DEF Tick
<1>8. CASE UNCHANGED vars
  BY <1>1, <1>8 DEF vars
<1>9. QED
  BY <1>3, <1>4, <1>5, <1>6, <1>7, <1>8 DEF Next

\* While no two tags share a proxy, a quarantined pool serves nothing: it is
\* then exhausted, by QuarantinedIsExhausted, and its deadline is not over.
THEOREM QuarantineKept == Spec => DisjointQuarantineRefuses
<1>1. TypeOK /\ QuarantineInv /\ [Next]_vars =>
        [Disjoint => \A t \in Tags : quarantine[t] > 0 => Served(t) = {}]_vars
  <2> SUFFICES ASSUME TypeOK, QuarantineInv, [Next]_vars, Disjoint,
                      NEW t \in Tags, quarantine[t] > 0, Served(t) # {}
               PROVE  FALSE
    OBVIOUS
  <2>1. ~Refused(t)
    BY ServedIsSelected
  <2>2. AllDisabled(t)
    BY DEF QuarantineInv, QuarantinedIsExhausted, NoQuarantine, TypeOK
  <2>3. QED
    BY <2>1, <2>2 DEF Refused
<1>2. QED
  BY <1>1, TypeCorrect, QuarantineAlways, PTL DEF Spec, DisjointQuarantineRefuses

-----------------------------------------------------------------------------
(* The round robin: the proxy a tag was served last is the one before its      *)
(* cursor, so it is the last one that a selection comes to.                    *)

LEMMA Modulo ==
  ASSUME NEW n \in Nat \ {0}, NEW a \in 0 .. n - 1
  PROVE  a % n = a /\ (a + n) % n = a
OBVIOUS

\* The position before the cursor, counted as a selection counts.
LastPosition(t) == cursor[t] + Len(tagIndex[t]) - 1

CursorInv ==
  \A t \in Tags :
    /\ cursor[t] = 0 \/ cursor[t] < Len(tagIndex[t])
    /\ lastServed[t] # NoProxy => /\ tagIndex[t] # <<>>
                                  /\ lastServed[t] = At(t, LastPosition(t))

\* Positions of a pool, counted from its cursor, wrap around once.
LEMMA Positions ==
  ASSUME NEW n \in Nat \ {0}, NEW c \in 0 .. n - 1, NEW i \in c .. c + n - 1
  PROVE  /\ i % n = (IF i < n THEN i ELSE i - n)
         /\ (i + 1) % n \in 0 .. n - 1
         /\ (((i + 1) % n) + n - 1) % n = i % n
<1>1. i \in Nat /\ c \in Nat
  OBVIOUS
<1>2. CASE i < n - 1
  <2>1. i \in 0 .. n - 1 /\ i + 1 \in 0 .. n - 1
    BY <1>1, <1>2
  <2>2. i % n = i /\ (i + 1) % n = i + 1 /\ (i + n) % n = i
    BY <2>1, Modulo
  <2>3. (i + 1) + n - 1 = i + n
    BY <1>1
  <2>4. QED
    BY <1>1, <1>2, <2>1, <2>2, <2>3
<1>3. CASE i = n - 1
  <2>1. 0 \in 0 .. n - 1 /\ i \in 0 .. n - 1 /\ i + 1 = 0 + n /\ 0 + n - 1 = i
    BY <1>1, <1>3
  <2>2. i % n = i /\ (i + 1) % n = 0
    BY <2>1, Modulo
  <2>3. QED
    BY <1>3, <2>1, <2>2
<1>4. CASE i >= n
  <2> DEFINE k == i - n
  <2>1. k \in 0 .. n - 1 /\ k + 1 \in 0 .. n - 1 /\ i = k + n /\ i + 1 = (k + 1) + n
        /\ (k + 1) + n - 1 = k + n
    BY <1>1, <1>4
  <2> HIDE DEF k
  <2>2. i % n = k /\ (i + 1) % n = k + 1 /\ (k + n) % n = k
    BY <2>1, Modulo
  <2>3. QED
    BY <1>1, <1>4, <2>1, <2>2
<1>5. QED
  BY <1>1, <1>2, <1>3, <1>4

\* Every proxy of a pool is at some position that a selection comes to.
LEMMA EveryPosition ==
  ASSUME TypeOK, NEW t \in Tags, tagIndex[t] # <<>>, cursor[t] < Len(tagIndex[t]),
         NEW q \in Members(t)
  PROVE  \E i \in cursor[t] .. LastPosition(t) : q = At(t, i)
<1> DEFINE n == Len(tagIndex[t])
           c == cursor[t]
<1>1. n \in Nat \ {0} /\ c \in 0 .. n - 1 /\ tagIndex[t] \in Seq(Proxies)
  BY MembersAreProxies DEF TypeOK
<1>2. PICK d \in 1 .. n : q = tagIndex[t][d]
  BY <1>1 DEF Members
<1> DEFINE i == IF d - 1 < c THEN d - 1 + n ELSE d - 1
<1>3. i \in c .. LastPosition(t)
  BY <1>1, <1>2 DEF LastPosition
<1>4. i % n = d - 1
  <2>1. d - 1 \in 0 .. n - 1
    BY <1>1, <1>2
  <2> HIDE DEF n, c
  <2>2. QED
    BY <1>1, <2>1, Modulo
<1>5. (d - 1) + 1 = d
  BY <1>2
<1>6. At(t, i) = q
  BY <1>2, <1>4, <1>5 DEF At
<1>7. QED
  BY <1>3, <1>6

\* Two positions of a turn hold the same proxy only if they are the same.
LEMMA PositionsDiffer ==
  ASSUME TypeOK, NEW t \in Tags, tagIndex[t] # <<>>, cursor[t] < Len(tagIndex[t]),
         NEW i \in cursor[t] .. LastPosition(t), NEW j \in cursor[t] .. LastPosition(t),
         At(t, i) = At(t, j)
  PROVE  i = j
<1> DEFINE n == Len(tagIndex[t])
           c == cursor[t]
<1>1. n \in Nat \ {0} /\ c \in 0 .. n - 1 /\ tagIndex[t] \in Seq(Proxies)
      /\ tagIndex \in Layouts
  BY MembersAreProxies DEF TypeOK
<1>2. i \in c .. c + n - 1 /\ j \in c .. c + n - 1
  BY DEF LastPosition
<1>3. /\ i % n = (IF i < n THEN i ELSE i - n)
      /\ j % n = (IF j < n THEN j ELSE j - n)
  <2> HIDE DEF n, c
  <2> QED
    BY <1>1, <1>2, Positions
<1>4. (i % n) + 1 \in 1 .. n /\ (j % n) + 1 \in 1 .. n
  <2> HIDE DEF n, c
  <2> QED
    BY <1>1, <1>2, <1>3
<1> DEFINE a == (i % n) + 1
           b == (j % n) + 1
<1>5. a = b
  <2>1. tagIndex[t][a] = tagIndex[t][b]
    BY DEF At
  <2>2. a \in 1 .. n /\ b \in 1 .. n
    BY <1>4
  <2>3. DOMAIN tagIndex[t] = 1 .. n
    BY <1>1
  <2> HIDE DEF a, b, n, c
  <2>4. QED
    BY <1>1, <2>1, <2>2, <2>3, ListedOnce
<1>6. QED
  <2> HIDE DEF n, c
  <2> QED
    BY <1>1, <1>2, <1>3, <1>5

\* A proxy that is passed over is disabled or challenged.
LEMMA PassedOver ==
  ASSUME TypeOK, NEW t \in Tags, NEW q \in Members(t), q \notin Candidates(t)
  PROVE  disabled[q] \/ challenged[q] > 0
<1>1. challenged[q] \in Nat
  BY MembersAreProxies, RegistryAssumption DEF TypeOK
<1>2. QED
  BY <1>1 DEF Candidates

\* What serving a tag does to its cursor, and what it tells of the others.
LEMMA ServedTurn ==
  ASSUME TypeOK, CursorInv, NEW t \in Tags, NEW p \in Proxies, NextByTagServed(t, p)
  PROVE  /\ tagIndex[t] # <<>>
         /\ cursor' = [cursor EXCEPT ![t] = cursor'[t]]
         /\ cursor'[t] \in 0 .. Len(tagIndex[t]) - 1
         /\ p = tagIndex[t][((cursor'[t] + Len(tagIndex[t]) - 1) % Len(tagIndex[t])) + 1]
         /\ p = lastServed[t] =>
              \A q \in Members(t) \ {p} : disabled[q] \/ challenged[q] > 0
<1> DEFINE n == Len(tagIndex[t])
           c == cursor[t]
<1>1. tagIndex[t] # <<>> /\ n \in Nat \ {0} /\ c \in 0 .. n - 1 /\ c < n
  <2>1. tagIndex[t] # <<>>
    BY DEF NextByTagServed, Refused
  <2>2. n \in Nat \ {0}
    BY <2>1, MembersAreProxies
  <2>3. c \in Nat /\ (c = 0 \/ c < n)
    BY DEF TypeOK, CursorInv
  <2> HIDE DEF n, c
  <2>4. QED
    BY <2>1, <2>2, <2>3
<1>2. PICK i \in c .. LastPosition(t) :
        /\ p = At(t, i)
        /\ \A j \in c .. i - 1 : At(t, j) \notin Candidates(t)
        /\ cursor' = [cursor EXCEPT ![t] = Advanced(t, i)]
  BY DEF NextByTagServed, LastPosition
<1>3. cursor'[t] = (i + 1) % n
  BY <1>2 DEF Advanced, TypeOK
<1>4. cursor'[t] \in 0 .. n - 1 /\ (cursor'[t] + n - 1) % n = i % n
  <2>1. i \in c .. c + n - 1
    BY DEF LastPosition
  <2> HIDE DEF n, c
  <2>2. QED
    BY <1>1, <1>3, <2>1, Positions
<1>5. p = tagIndex[t][((cursor'[t] + n - 1) % n) + 1]
  BY <1>2, <1>4 DEF At
<1>6. ASSUME p = lastServed[t], NEW q \in Members(t) \ {p}
      PROVE  disabled[q] \/ challenged[q] > 0
  <2>1. p = At(t, LastPosition(t))
    BY <1>6, RegistryAssumption DEF CursorInv
  <2>2. LastPosition(t) \in c .. LastPosition(t)
    BY <1>1 DEF LastPosition
  <2>3. i = LastPosition(t)
    <3>1. At(t, i) = At(t, LastPosition(t)) /\ cursor[t] < Len(tagIndex[t])
      BY <1>1, <1>2, <2>1
    <3>2. QED
      BY <1>1, <2>2, <3>1, PositionsDiffer
  <2>4. PICK j \in c .. LastPosition(t) : q = At(t, j)
    BY <1>1, EveryPosition
  <2>5. j # i
    BY <1>2, <2>4
  <2>6. j \in c .. i - 1
    BY <1>1, <2>3, <2>5 DEF LastPosition
  <2>7. q \notin Candidates(t)
    BY <1>2, <2>4, <2>6
  <2>8. QED
    BY <2>7, PassedOver
<1>7. cursor' = [cursor EXCEPT ![t] = cursor'[t]]
  BY <1>2, <1>3 DEF Advanced
<1>8. QED
  BY <1>1, <1>4, <1>5, <1>6, <1>7

\* A selection is seen by the tag it was for, and by no other.
LEMMA SelectIsSeen ==
  ASSUME TypeOK, NEW u \in Users, NEW t \in Tags, NEW p \in Proxies, Select(u, t, p)
  PROVE  Served(t) = {p} /\ \A s \in Tags \ {t} : Served(s) = {}
<1>1. use[u] = Idle /\ use' = [use EXCEPT ![u] = BusyWith("using", p, t)]
      /\ use \in [Users -> {Idle} \cup Busy]
  BY DEF Select, TypeOK
<1>2. use'[u] = BusyWith("using", p, t) /\ \A v \in Users \ {u} : use'[v] = use[v]
  BY <1>1
<1>3. Idle # BusyWith("using", p, t)
  BY DEF Idle, BusyWith
<1>4. \A s \in Tags, q \in Proxies : BusyWith("using", q, s) = BusyWith("using", p, t)
                                     => q = p /\ s = t
  BY DEF BusyWith
<1>5. QED
  BY <1>1, <1>2, <1>3, <1>4 DEF Served

SpreadEvenly ==
  \A t \in Tags : \A p \in Served(t) :
    p = lastServed[t] => \A q \in Members(t) \ {p} : disabled[q] \/ challenged[q] > 0

LEMMA CursorStep ==
  ASSUME TypeOK, CursorInv, [HNext]_hvars PROVE CursorInv' /\ SpreadEvenly
<1>0. [Next]_vars /\ tagIndex' = tagIndex
  <2>1. [Next]_vars
    BY DEF HNext, hvars, vars
  <2>2. QED
    BY <2>1, StepIsMethod
<1>1. ASSUME NEW u \in Users, NEW t \in Tags, NEW p \in Proxies, Select(u, t, p), Remember
      PROVE  CursorInv' /\ SpreadEvenly
  <2>1. NextByTagServed(t, p) /\ cursor \in [Tags -> Nat]
    BY <1>1 DEF Select, TypeOK
  <2>2. Served(t) = {p} /\ \A s \in Tags \ {t} : Served(s) = {}
    BY <1>1, SelectIsSeen
  <2>3. lastServed'[t] = p /\ \A s \in Tags \ {t} : lastServed'[s] = lastServed[s]
    BY <1>1, <2>2 DEF Remember
  <2>4. \A s \in Tags \ {t} : cursor'[s] = cursor[s]
    BY <2>1, ServedTurn
  <2>5. CursorInv'
    <3> SUFFICES ASSUME NEW s \in Tags
                 PROVE  /\ cursor'[s] = 0 \/ cursor'[s] < Len(tagIndex[s])
                        /\ lastServed'[s] # NoProxy =>
                             /\ tagIndex[s] # <<>>
                             /\ lastServed'[s] =
                                  tagIndex[s][((cursor'[s] + Len(tagIndex[s]) - 1)
                                               % Len(tagIndex[s])) + 1]
      BY <1>0 DEF CursorInv, At, LastPosition
    <3>1. CASE s = t
      <4>1. /\ tagIndex[t] # <<>> /\ cursor'[t] \in 0 .. Len(tagIndex[t]) - 1
            /\ p = tagIndex[t][((cursor'[t] + Len(tagIndex[t]) - 1) % Len(tagIndex[t])) + 1]
        BY <2>1, ServedTurn
      <4>2. Len(tagIndex[t]) \in Nat
        BY MembersAreProxies
      <4>3. cursor'[t] < Len(tagIndex[t])
        BY <4>1, <4>2
      <4>4. QED
        BY <2>3, <3>1, <4>1, <4>3
    <3>2. CASE s # t
      BY <2>3, <2>4, <3>2 DEF CursorInv, At, LastPosition
    <3>3. QED
      BY <3>1, <3>2
  <2>6. SpreadEvenly
    <3> SUFFICES ASSUME NEW s \in Tags, NEW r \in Served(s), r = lastServed[s],
                        NEW q \in Members(s) \ {r}
                 PROVE  disabled[q] \/ challenged[q] > 0
      BY DEF SpreadEvenly
    <3>1. s = t /\ r = p
      BY <2>2
    <3>2. QED
      BY <2>1, <3>1, ServedTurn
  <2>7. QED
    BY <2>5, <2>6
<1>2. ASSUME cursor' = cursor, \A t \in Tags : lastServed'[t] = lastServed[t],
             \A t \in Tags : Served(t) = {}
      PROVE  CursorInv' /\ SpreadEvenly
  BY <1>0, <1>2 DEF CursorInv, SpreadEvenly, At, LastPosition
<1>3. ASSUME cursor' = cursor, Remember, \A t \in Tags : Served(t) = {}
      PROVE  CursorInv' /\ SpreadEvenly
  BY <1>2, <1>3 DEF Remember
<1>4. ASSUME UNCHANGED use PROVE \A t \in Tags : Served(t) = {}
  BY <1>4 DEF Served
<1>5. ASSUME NEW u \in Users, NEW x, use' = [use EXCEPT ![u] = x],
             \A p \in Proxies, t \in Tags : x # BusyWith("using", p, t)
      PROVE  \A t \in Tags : Served(t) = {}
  BY <1>5 DEF Served, TypeOK
<1>6. ASSUME NEW u \in Users, NEW t \in Tags, SelectNone(u, t), Remember
      PROVE  CursorInv' /\ SpreadEvenly
  BY <1>3, <1>4, <1>6 DEF SelectNone, NextByTagRefused
<1>7. ASSUME NEW u \in Users, Remember,
             Succeed(u) \/ Fail(u) \/ EndUnreported(u) \/ Deprioritise(u)
      PROVE  CursorInv' /\ SpreadEvenly
  <2>1. use' = [use EXCEPT ![u] = Idle] /\ cursor' = cursor
    BY <1>7 DEF Succeed, Fail, EndUnreported, Deprioritise, ReportSuccess, ReportFailure,
                ReportChallenged, pools
  <2>2. \A p \in Proxies, t \in Tags : Idle # BusyWith("using", p, t)
    BY DEF Idle, BusyWith
  <2>3. QED
    BY <1>3, <1>5, <1>7, <2>1, <2>2
<1>8. ASSUME NEW u \in Users, Remember, Rotate(u) PROVE CursorInv' /\ SpreadEvenly
  <2> DEFINE x == BusyWith("rotating", use[u].proxy, use[u].tag)
  <2>1. use' = [use EXCEPT ![u] = x] /\ cursor' = cursor
    BY <1>8 DEF Rotate, pools
  <2>2. \A p \in Proxies, t \in Tags : x # BusyWith("using", p, t)
    BY DEF BusyWith
  <2> HIDE DEF x
  <2>3. QED
    BY <1>3, <1>5, <1>8, <2>1, <2>2
<1>9. ASSUME Tick, Remember PROVE CursorInv' /\ SpreadEvenly
  BY <1>3, <1>4, <1>9 DEF Tick
<1>10. CASE UNCHANGED hvars
  BY <1>2, <1>4, <1>10 DEF hvars, vars
<1>11. QED
  BY <1>1, <1>6, <1>7, <1>8, <1>9, <1>10 DEF HNext, Next

\* Two requests served in a row for a tag get different proxies while the pool
\* has another one that is enabled and not challenged.
THEOREM ServesDiffer == HSpec => ConsecutiveServesDiffer
<1>1. HSpec => []TypeOK
  <2>1. HInit => Init
    BY DEF HInit
  <2>2. [HNext]_hvars => [Next]_vars
    BY DEF HNext, hvars, vars
  <2>3. QED
    BY <2>1, <2>2, TypeCorrect, PTL DEF HSpec, Spec
<1>2. HInit => CursorInv
  BY DEF HInit, Init, CursorInv
<1>3. TypeOK /\ CursorInv /\ [HNext]_hvars => CursorInv' /\ [SpreadEvenly]_hvars
  BY CursorStep
<1>4. HSpec => [][SpreadEvenly]_hvars
  BY <1>1, <1>2, <1>3, PTL DEF HSpec
<1>5. QED
  BY <1>4 DEF SpreadEvenly, ConsecutiveServesDiffer
=============================================================================
