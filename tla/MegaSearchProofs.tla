-------------------------- MODULE MegaSearchProofs --------------------------
(***************************************************************************)
(* Proofs about MegaSearch, for any engines, requests, clients and         *)
(* breakers, and any size and time to live of the cache.                   *)
(***************************************************************************)
EXTENDS MegaSearch, FiniteSetTheorems, SequenceTheorems, TLAPS

-----------------------------------------------------------------------------
(* Type correctness. *)

LEMMA RequestFacts ==
  ASSUME NEW q \in Requests
  PROVE  /\ q \in Request /\ q.engines \in Seq(Engines)
         /\ Len(q.engines) \in Nat \ {0} /\ DOMAIN q.engines = 1 .. Len(q.engines)
         /\ \A i \in 1 .. Len(q.engines) : q.engines[i] \in Engines
         /\ Names(q.engines) \subseteq Engines
         /\ q.mode \in Modes /\ q.merge \in BOOLEAN /\ q.cached \in BOOLEAN
<1>1. q \in Request /\ q.engines \in Seq(Engines) /\ q.engines # <<>>
  BY MegaAssumption DEF Request
<1>2. Len(q.engines) # 0
  BY <1>1, EmptySeq
<1>3. QED
  BY <1>1, <1>2 DEF Request, Names

\* The client of a step is a handler with a request, and what a call may be.
LEMMA HandlerFacts ==
  ASSUME TypeOK, NEW c \in Clients, Step(c) # "idle"
  PROVE  /\ client[c] \in Handler /\ client[c].ask \in Requests
         /\ client[c].env \in Envelopes /\ client[c].keys \in Seq(Keys)
         /\ client[c].calls \in Seq(CallStates)
         /\ client[c].next \in Nat \ {0}
         /\ Asked(c) \in Seq(Engines) /\ Names(Asked(c)) \subseteq Engines
         /\ Len(Asked(c)) \in Nat \ {0} /\ DOMAIN Asked(c) = 1 .. Len(Asked(c))
         /\ \A i \in 1 .. Len(Asked(c)) : Asked(c)[i] \in Engines
         /\ DOMAIN client[c].calls = DOMAIN Asked(c)
<1>1. client[c] \in Handler
  BY DEF TypeOK, Step, Idle
<1>2. Len(client[c].calls) = Len(Asked(c))
  BY DEF TypeOK
<1>3. QED
  BY <1>1, <1>2, RequestFacts DEF Handler, Asked

\* The cache stays within its bound whatever is stored.
LEMMA StoreFacts ==
  ASSUME NEW k, NEW d, CacheAssumption, IsFiniteSet(DOMAIN entries),
         Cardinality(DOMAIN entries) <= MaxSize, Set(k, d)
  PROVE  /\ IsFiniteSet(DOMAIN entries') /\ Cardinality(DOMAIN entries') <= MaxSize
         /\ DOMAIN entries' \subseteq Live \cup {k}
         /\ k \in DOMAIN entries'
         /\ entries'[k] = [data |-> d, age |-> 0]
         /\ \A j \in DOMAIN entries' : j # k => entries'[j] = entries[j]
<1>1. PICK gone \in Victims(k) :
        entries' = [j \in (Live \ gone) \cup {k} |->
                      IF j = k THEN [data |-> d, age |-> 0] ELSE entries[j]]
  BY DEF Set
<1> DEFINE K == Live \ gone
<1>2. DOMAIN entries' = K \cup {k}
  BY <1>1
<1>3. IsFiniteSet(Live) /\ Cardinality(Live) <= Cardinality(DOMAIN entries)
  BY FS_Subset DEF Live
<1>4. Cardinality(Live) <= MaxSize /\ Cardinality(Live) \in Nat
  BY <1>3, FS_CardinalityType DEF CacheAssumption
<1>5. IsFiniteSet(K)
  BY <1>3, FS_Subset
<1>6. Cardinality(K \cup {k}) <= MaxSize /\ IsFiniteSet(K \cup {k})
  <2>1. CASE k \in Live
    <3>1. gone = {}
      BY <2>1 DEF Victims
    <3>2. K \cup {k} = Live
      BY <2>1, <3>1
    <3>3. QED
      BY <3>2, <1>3, <1>4
  <2>2. CASE k \notin Live /\ Cardinality(Live) >= MaxSize
    <3>1. PICK g \in Oldest(Live) : gone = {g}
      BY <2>2 DEF Victims
    <3>2. g \in Live /\ k \notin K
      BY <2>2, <3>1 DEF Oldest
    <3>3. Cardinality(K) = Cardinality(Live) - 1
      BY <1>3, <3>1, <3>2, FS_RemoveElement
    <3>4. Cardinality(K \cup {k}) = Cardinality(K) + 1 /\ IsFiniteSet(K \cup {k})
      BY <1>5, <3>2, FS_AddElement
    <3>5. QED
      BY <3>3, <3>4, <1>4, FS_CardinalityType, <1>5 DEF CacheAssumption
  <2>3. CASE k \notin Live /\ ~(Cardinality(Live) >= MaxSize)
    <3>1. gone = {}
      BY <2>3 DEF Victims
    <3>2. K = Live
      BY <3>1
    <3>3. Cardinality(K \cup {k}) = Cardinality(Live) + 1 /\ IsFiniteSet(K \cup {k})
      BY <1>3, <2>3, <3>2, FS_AddElement
    <3>4. QED
      BY <3>3, <2>3, <1>4 DEF CacheAssumption
  <2>4. QED
    BY <2>1, <2>2, <2>3
<1>7. QED
  BY <1>1, <1>2, <1>6

\* What TypeOK says of the cache, with its finiteness.
CacheOK ==
  /\ IsFiniteSet(DOMAIN entries) /\ Cardinality(DOMAIN entries) <= MaxSize
  /\ \A k \in DOMAIN entries : k \in Keys /\ entries[k] \in [data : Envelopes, age : 0 .. TTL]

LEMMA AddedFacts ==
  ASSUME NEW env \in Envelopes, NEW e \in Engines, NEW outcome
  PROVE  /\ Added(env, e, outcome) \in Envelopes
         /\ Added(env, e, outcome).asked = env.asked
         /\ Added(env, e, outcome).kept = env.kept
         /\ Added(env, e, outcome).responded \cup Added(env, e, outcome).failed
              = env.responded \cup env.failed \cup {e}
         /\ \A x : x # e => /\ x \in Added(env, e, outcome).responded <=> x \in env.responded
                            /\ x \in Added(env, e, outcome).failed <=> x \in env.failed
         /\ e \notin env.responded \cup env.failed =>
              e \notin Added(env, e, outcome).responded \cap Added(env, e, outcome).failed
         /\ env.found \subseteq env.responded =>
              Added(env, e, outcome).found \subseteq Added(env, e, outcome).responded
  BY DEF Added, Envelopes

LEMMA PrunedCache ==
  ASSUME CacheOK, Prune
  PROVE  CacheOK'
<1>1. DOMAIN entries' = Live /\ \A k \in Live : entries'[k] = entries[k]
  BY DEF Prune, Pruned
<1>2. Live \subseteq DOMAIN entries
  BY DEF Live
<1>3. IsFiniteSet(Live) /\ Cardinality(Live) <= Cardinality(DOMAIN entries)
  BY <1>2, FS_Subset DEF CacheOK
<1>4. Cardinality(Live) <= MaxSize
  BY <1>3, FS_CardinalityType, CacheAssumption DEF CacheOK
<1>5. QED
  BY <1>1, <1>2, <1>3, <1>4 DEF CacheOK

LEMMA AgedCache ==
  ASSUME CacheOK, Age
  PROVE  CacheOK'
<1>1. DOMAIN entries' = DOMAIN entries
  BY DEF Age
<1>2. ASSUME NEW k \in DOMAIN entries
      PROVE  entries'[k] \in [data : Envelopes, age : 0 .. TTL]
  <2>1. entries[k] \in [data : Envelopes, age : 0 .. TTL]
    BY DEF CacheOK
  <2>2. entries'[k] = [entries[k] EXCEPT !.age = IF @ < TTL THEN @ + 1 ELSE @]
    BY DEF Age
  <2>3. QED
    BY <2>1, <2>2, CacheAssumption
<1>3. QED
  BY <1>1, <1>2 DEF CacheOK

LEMMA StoredCache ==
  ASSUME CacheOK, NEW k \in Keys, NEW d \in Envelopes, Set(k, d)
  PROVE  CacheOK'
<1>1. ASSUME NEW j \in DOMAIN entries'
      PROVE  j \in Keys /\ entries'[j] \in [data : Envelopes, age : 0 .. TTL]
  <2> USE CacheAssumption DEF CacheAssumption
  <2>1. CASE j = k
    <3>1. entries'[k] = [data |-> d, age |-> 0]
      BY StoreFacts DEF CacheOK
    <3>2. 0 \in 0 .. TTL
      OBVIOUS
    <3>3. QED
      BY <2>1, <3>1, <3>2
  <2>2. CASE j # k
    BY <2>2, StoreFacts DEF CacheOK, Live
  <2>3. QED
    BY <2>1, <2>2
<1>2. QED
  BY <1>1, CacheAssumption, StoreFacts DEF CacheOK

LEMMA CandidateKeys ==
  ASSUME NEW q \in Requests
  PROVE  /\ Key(q, Names(q.engines)) \in Keys /\ Key(q, Cacheable(q)) \in Keys
         /\ Candidates(q) \in Seq(Keys)
<1>1. ASSUME NEW E \in SUBSET Engines PROVE Key(q, E) \in Keys
  BY RequestFacts DEF Key, Keys
<1>2. Key(q, Names(q.engines)) \in Keys /\ Key(q, Cacheable(q)) \in Keys
  BY <1>1, RequestFacts DEF Cacheable
<1> HIDE DEF Key
<1>3. QED
  BY <1>2 DEF Candidates

\* Every step of a handler that goes on replaces it by another one.
Becomes(c, h) ==
  /\ client' = [client EXCEPT ![c] = h]
  /\ h \in Handler /\ Len(h.calls) = Len(h.ask.engines)
  /\ h.step = "storing" => h.keys # <<>>

LEMMA BecomesTyped ==
  ASSUME TypeOK, NEW c \in Clients, NEW h, Becomes(c, h), CacheOK', open' = open
  PROVE  TypeOK' /\ CacheOK'
<1>1. /\ client' \in [Clients -> {Idle} \cup Handler]
      /\ client'[c] = h /\ \A d \in Clients : d # c => client'[d] = client[d]
  BY DEF TypeOK, Becomes
<1>2. QED
  BY <1>1 DEF TypeOK, CacheOK, Becomes, Step, Asked

LEMMA CallSet ==
  ASSUME NEW s \in Seq(CallStates), NEW i \in 1 .. Len(s), NEW x \in CallStates
  PROVE  /\ [s EXCEPT ![i] = x] \in Seq(CallStates)
         /\ Len([s EXCEPT ![i] = x]) = Len(s)
         /\ \A j \in 1 .. Len(s) : [s EXCEPT ![i] = x][j] = IF j = i THEN x ELSE s[j]
  BY ExceptSeq

LEMMA HandlerStep ==
  ASSUME TypeOK, CacheOK, NEW c \in Clients, Handle(c) \/ Deadline(c) \/ CallEnds(c)
  PROVE  TypeOK' /\ CacheOK'
<1>1. Step(c) # "idle"
  BY DEF Handle, Hit, Miss, Begin, Merge, PickKey, Store, StartEngine, StopStarting, Collect,
     AllCollected, CollectorLeaves, TryEngine, NoneLeft, Race, SearchDedicated, Deadline, CallEnds
<1> DEFINE h == client[c]
<1>2. /\ h \in Handler /\ h.ask \in Requests /\ h.env \in Envelopes /\ h.keys \in Seq(Keys)
      /\ h.calls \in Seq(CallStates) /\ Len(h.calls) = Len(h.ask.engines)
      /\ h.next \in Nat \ {0} /\ Asked(c) = h.ask.engines
      /\ h.step = "storing" => h.keys # <<>>
  BY <1>1, HandlerFacts DEF TypeOK, Asked, Step
<1>3. /\ Names(Asked(c)) \subseteq Engines
      /\ \A i \in 1 .. Len(Asked(c)) : Asked(c)[i] \in Engines
  BY <1>1, HandlerFacts
<1> DEFINE Goes(g) == Becomes(c, g) /\ open' = open
<1>4. ASSUME NEW g, Goes(g), entries' = entries \/ Prune
      PROVE  TypeOK' /\ CacheOK'
  <2>1. CacheOK'
    <3>1. CASE entries' = entries
      BY <3>1 DEF CacheOK
    <3>2. CASE Prune
      BY <3>2, PrunedCache
    <3>3. QED
      BY <3>1, <3>2, <1>4
  <2>2. QED
    BY <1>4, <2>1, BecomesTyped
<1> HIDE DEF h
<1>5. CASE Hit(c)
  <2>1. Head(h.keys) \in DOMAIN entries
    BY <1>5 DEF Hit, Live, h
  <2> DEFINE env == entries[Head(h.keys)].data
             g == [h EXCEPT !.step = "answered", !.hit = TRUE, !.env = env]
  <2>2. env \in Envelopes
    BY <2>1 DEF TypeOK
  <2>3. client' = [client EXCEPT ![c].step = "answered", ![c].hit = TRUE, ![c].env = env]
    BY <1>5 DEF Hit, h
  <2> HIDE DEF env
  <2>4. g \in Handler /\ client' = [client EXCEPT ![c] = g]
    BY <1>2, <2>2, <2>3 DEF Handler, Steps, h
  <2>5. Goes(g)
    BY <1>2, <1>5, <2>4 DEF Becomes, Hit, Handler
  <2>6. QED
    BY <1>4, <1>5, <2>5 DEF Hit
<1>6. CASE Miss(c)
  <2> DEFINE g == [h EXCEPT !.keys = Tail(h.keys)]
  <2>1. Tail(h.keys) \in Seq(Keys)
    BY <1>2, <1>6 DEF Miss, h
  <2>2. g \in Handler /\ client' = [client EXCEPT ![c] = g]
    BY <1>2, <1>6, <2>1 DEF Miss, Handler, h
  <2>3. Goes(g)
    BY <1>2, <1>6, <2>2 DEF Becomes, Miss, Handler, Step, h
  <2>4. QED
    BY <1>4, <1>6, <2>3 DEF Miss
<1>7. CASE Begin(c)
  <2> DEFINE g == [h EXCEPT !.step = CASE h.ask.mode = "balanced" -> "starting"
                                       [] h.ask.mode = "any" -> "trying"
                                       [] h.ask.mode = "fast" -> "racing"
                                       [] OTHER -> "dedicated"]
  <2>1. g \in Handler /\ client' = [client EXCEPT ![c] = g]
    BY <1>2, <1>7 DEF Begin, Handler, Steps, h
  <2>2. Goes(g)
    BY <1>2, <1>7, <2>1 DEF Becomes, Begin, Handler
  <2>3. QED
    BY <1>4, <1>7, <2>2 DEF Begin
<1>8. CASE Merge(c)
  <2> DEFINE kept == IF h.ask.merge THEN h.env.found ELSE FirstFound(h.ask.engines, h.env.found)
             env == [h.env EXCEPT !.kept = kept]
             step == IF h.env.responded # {} /\ h.ask.cached /\ h.ask.mode # "fast"
                       THEN "keying" ELSE "answered"
             g == [h EXCEPT !.env = env, !.step = step]
  <2>1. FirstFound(h.ask.engines, h.env.found) \subseteq Names(h.ask.engines)
    BY DEF FirstFound, Names
  <2>2. kept \in SUBSET Engines
    BY <2>1, <1>2, <1>3 DEF Envelopes
  <2>3. client' = [client EXCEPT ![c].env.kept = kept, ![c].step = step]
    BY <1>8 DEF Merge, h
  <2> HIDE DEF kept
  <2>4. env \in Envelopes
    BY <2>2, <1>2 DEF Envelopes
  <2>5. step \in Steps
    BY DEF Steps
  <2>9. step # "storing"
    OBVIOUS
  <2> HIDE DEF step
  <2>6. g \in Handler /\ client' = [client EXCEPT ![c] = g]
    BY <1>2, <2>3, <2>4, <2>5 DEF Handler, h
  <2>7. Goes(g)
    BY <1>2, <1>8, <2>6, <2>9 DEF Becomes, Merge, Handler
  <2>8. QED
    BY <1>4, <1>8, <2>7 DEF Merge
<1>9. CASE PickKey(c)
  <2>1. CASE Storable(c)
    <3> DEFINE keys == <<Key(h.ask, Cacheable(h.ask))>>
               g == [h EXCEPT !.step = "storing", !.keys = keys]
    <3>1. Key(h.ask, Cacheable(h.ask)) \in Keys
      BY <1>2, CandidateKeys
    <3> HIDE DEF Key
    <3>2. keys \in Seq(Keys) /\ keys # <<>>
      BY <3>1
    <3>3. client' = [client EXCEPT ![c].step = "storing", ![c].keys = keys]
      BY <1>9, <2>1 DEF PickKey, h
    <3> HIDE DEF keys
    <3>4. g \in Handler /\ client' = [client EXCEPT ![c] = g]
      BY <1>2, <3>2, <3>3 DEF Handler, Steps, h
    <3>5. Goes(g)
      BY <1>2, <1>9, <3>2, <3>4 DEF Becomes, PickKey, Handler
    <3>6. QED
      BY <1>4, <1>9, <3>5 DEF PickKey
  <2>2. CASE ~Storable(c)
    <3> DEFINE g == [h EXCEPT !.step = "answered"]
    <3>1. g \in Handler /\ client' = [client EXCEPT ![c] = g]
      BY <1>2, <1>9, <2>2 DEF PickKey, Handler, Steps, h
    <3>2. Goes(g)
      BY <1>2, <1>9, <3>1 DEF Becomes, PickKey, Handler
    <3>3. QED
      BY <1>4, <1>9, <3>2 DEF PickKey
  <2>3. QED
    BY <2>1, <2>2
<1>10. CASE Store(c)
  <2> DEFINE g == [h EXCEPT !.step = "answered"]
  <2>1. Head(h.keys) \in Keys /\ Set(Head(h.keys), h.env)
    BY <1>2, <1>10 DEF Store, Step, h
  <2>2. CacheOK'
    BY <2>1, <1>2, StoredCache
  <2>3. g \in Handler /\ client' = [client EXCEPT ![c] = g]
    BY <1>2, <1>10 DEF Store, Handler, Steps, h
  <2>4. Becomes(c, g) /\ open' = open
    BY <1>2, <1>10, <2>3 DEF Becomes, Store, Handler
  <2>5. QED
    BY <2>2, <2>4, BecomesTyped
<1>11. CASE StartEngine(c)
  <2> DEFINE n == h.next
             next == n + 1
             state == IF Asked(c)[n] \in Callable THEN "running" ELSE "error"
             calls == [h.calls EXCEPT ![n] = state]
             g == [h EXCEPT !.next = next, !.calls = calls]
  <2>1. client' = [client EXCEPT ![c].next = next, ![c].calls[n] = state]
    BY <1>11 DEF StartEngine, h
  <2>2. n \in 1 .. Len(h.calls) /\ next \in Nat \ {0}
    BY <1>2, <1>3, <1>11, HandlerFacts DEF StartEngine, h
  <2>3. state \in CallStates
    BY DEF CallStates, Outcomes
  <2> HIDE DEF state, next
  <2>4. calls \in Seq(CallStates) /\ Len(calls) = Len(h.calls)
    BY <1>2, <2>2, <2>3, CallSet
  <2>5. client' = [client EXCEPT ![c] = g]
    BY <1>2, <2>1 DEF Handler, h
  <2> HIDE DEF calls, n
  <2>6. g \in Handler
    BY <1>2, <2>2, <2>4 DEF Handler
  <2>7. Goes(g)
    BY <1>2, <1>11, <2>4, <2>5, <2>6 DEF Becomes, StartEngine, Handler, Step, h
  <2>8. QED
    BY <1>4, <1>11, <2>7 DEF StartEngine
<1>12. CASE StopStarting(c) \/ AllCollected(c) \/ NoneLeft(c) \/ Deadline(c)
  <2>1. PICK g \in Handler :
          client' = [client EXCEPT ![c] = g] /\ Len(g.calls) = Len(g.ask.engines)
          /\ g.step # "storing"
    <3> DEFINE g(step) == [h EXCEPT !.step = step]
               late == [h EXCEPT !.expired = TRUE]
    <3>1. CASE StopStarting(c)
      <4>1. g("collecting") \in Handler /\ client' = [client EXCEPT ![c] = g("collecting")]
        BY <1>2, <3>1 DEF StopStarting, Handler, Steps, h
      <4>2. Len(g("collecting").calls) = Len(g("collecting").ask.engines)
            /\ g("collecting").step # "storing"
        BY <1>2 DEF Handler
      <4>3. QED
        BY <4>1, <4>2
    <3>2. CASE AllCollected(c) \/ NoneLeft(c)
      <4>1. g("merging") \in Handler /\ client' = [client EXCEPT ![c] = g("merging")]
        BY <1>2, <3>2 DEF AllCollected, NoneLeft, Handler, Steps, h
      <4>2. Len(g("merging").calls) = Len(g("merging").ask.engines)
            /\ g("merging").step # "storing"
        BY <1>2 DEF Handler
      <4>3. QED
        BY <4>1, <4>2
    <3>3. CASE Deadline(c)
      <4>1. late \in Handler /\ client' = [client EXCEPT ![c] = late]
        BY <1>2, <3>3 DEF Deadline, Handler, h
      <4>2. Len(late.calls) = Len(late.ask.engines) /\ late.step # "storing"
        BY <1>2, <3>3 DEF Handler, Deadline, Step, h
      <4>3. QED
        BY <4>1, <4>2
    <3>4. QED
      BY <1>12, <3>1, <3>2, <3>3
  <2>2. Goes(g)
    BY <1>12, <2>1 DEF Becomes, StopStarting, AllCollected, NoneLeft, Deadline
  <2>3. QED
    BY <1>4, <1>12, <2>2 DEF StopStarting, AllCollected, NoneLeft, Deadline
<1>13. CASE CallEnds(c)
  <2>1. PICK i \in Running(c), outcome \in Outcomes :
          client' = [client EXCEPT ![c].calls[i] = outcome]
    BY <1>13 DEF CallEnds
  <2> DEFINE calls == [h.calls EXCEPT ![i] = outcome]
             g == [h EXCEPT !.calls = calls]
  <2>2. calls \in Seq(CallStates) /\ Len(calls) = Len(h.calls)
    <3>1. i \in 1 .. Len(h.calls) /\ outcome \in CallStates
      BY <1>2, <2>1 DEF Running, CallStates, h
    <3>2. QED
      BY <1>2, <3>1, CallSet
  <2>3. g \in Handler /\ client' = [client EXCEPT ![c] = g]
    BY <1>2, <2>1, <2>2 DEF Handler, h
  <2>4. Goes(g)
    BY <1>2, <1>13, <2>2, <2>3 DEF Becomes, CallEnds, Handler
  <2>5. QED
    BY <1>4, <1>13, <2>4 DEF CallEnds
<1>14. CASE Collect(c)
  <2>1. PICK i \in Sent(c) :
          client' = [client EXCEPT ![c].calls[i] = "collected",
                                   ![c].env = Added(@, Asked(c)[i], client[c].calls[i])]
    BY <1>14 DEF Collect
  <2> DEFINE env == Added(h.env, Asked(c)[i], h.calls[i])
             calls == [h.calls EXCEPT ![i] = "collected"]
             g == [h EXCEPT !.calls = calls, !.env = env]
  <2>2. calls \in Seq(CallStates) /\ Len(calls) = Len(h.calls)
    <3>1. i \in 1 .. Len(h.calls) /\ "collected" \in CallStates
      BY <1>2, <2>1 DEF Sent, CallStates, h
    <3>2. QED
      BY <1>2, <3>1, CallSet
  <2>3. env \in Envelopes
    BY <1>2, <1>3, AddedFacts DEF Sent, h
  <2>4. client' = [client EXCEPT ![c].calls[i] = "collected", ![c].env = env]
    BY <2>1 DEF h
  <2> HIDE DEF env
  <2>5. g \in Handler /\ client' = [client EXCEPT ![c] = g]
    BY <1>2, <2>2, <2>3, <2>4 DEF Handler, h
  <2>6. Goes(g)
    BY <1>2, <1>14, <2>2, <2>5 DEF Becomes, Collect, Handler, Step, h
  <2>7. QED
    BY <1>4, <1>14, <2>6 DEF Collect
<1>15. CASE CollectorLeaves(c)
  <2> DEFINE env == [h.env EXCEPT !.failed = h.env.failed \cup Pending(c)]
             g == [h EXCEPT !.step = "merging", !.env = env]
  <2>1. Pending(c) \subseteq Engines
    BY <1>3 DEF Pending
  <2>2. env \in Envelopes
    BY <1>2, <2>1 DEF Envelopes
  <2>3. client' = [client EXCEPT ![c].step = "merging", ![c].env.failed = @ \cup Pending(c)]
    BY <1>15 DEF CollectorLeaves
  <2>4. g \in Handler /\ client' = [client EXCEPT ![c] = g]
    BY <1>2, <2>2, <2>3 DEF Handler, Steps, h
  <2>5. Goes(g)
    BY <1>2, <1>15, <2>4 DEF Becomes, CollectorLeaves, Handler
  <2>6. QED
    BY <1>4, <1>15, <2>5 DEF CollectorLeaves
<1>16. CASE TryEngine(c)
  <2> DEFINE n == h.next
             e == Asked(c)[n]
  <2>1. PICK outcome \in Outcomes :
          client' = [client EXCEPT
            ![c].env = Added(@, e, outcome), ![c].next = n + 1,
            ![c].step = IF client[c].expired \/ outcome # "error" THEN "merging" ELSE @]
    BY <1>16 DEF TryEngine, Outcomes, h
  <2> DEFINE env == Added(h.env, e, outcome)
             step == IF h.expired \/ outcome # "error" THEN "merging" ELSE "trying"
             next == n + 1
             g == [h EXCEPT !.env = env, !.next = next, !.step = step]
  <2>2. env \in Envelopes
    BY <1>1, <1>2, <1>3, <1>16, HandlerFacts, AddedFacts DEF TryEngine, h
  <2>3. step \in Steps /\ step # "storing" /\ next \in Nat \ {0}
    BY <1>2 DEF Steps
  <2>4. client' = [client EXCEPT ![c].env = env, ![c].next = next, ![c].step = step]
    BY <1>16, <2>1 DEF TryEngine, Step, h
  <2> HIDE DEF env, step, next
  <2>5. g \in Handler /\ client' = [client EXCEPT ![c] = g]
    BY <1>2, <2>2, <2>3, <2>4 DEF Handler, h
  <2>6. Goes(g)
    BY <1>2, <1>16, <2>3, <2>5 DEF Becomes, TryEngine, Handler
  <2>7. QED
    BY <1>4, <1>16, <2>6 DEF TryEngine
<1>17. ASSUME NEW env \in Envelopes, UNCHANGED <<entries, open>>,
              client' = [client EXCEPT ![c].step = "merging", ![c].env = env]
       PROVE  TypeOK' /\ CacheOK'
  <2> DEFINE g == [h EXCEPT !.step = "merging", !.env = env]
  <2>1. g \in Handler /\ client' = [client EXCEPT ![c] = g]
    BY <1>2, <1>17 DEF Handler, Steps, h
  <2>2. Goes(g)
    BY <1>2, <1>17, <2>1 DEF Becomes, Handler
  <2>3. QED
    BY <1>4, <1>17, <2>2
<1>18. CASE Race(c)
  <2>1. CASE client' = [client EXCEPT ![c].step = "merging", ![c].env.failed = Names(Asked(c))]
    <3> DEFINE env == [h.env EXCEPT !.failed = Names(Asked(c))]
    <3>1. env \in Envelopes
      BY <1>2, <1>3 DEF Envelopes
    <3>2. client' = [client EXCEPT ![c].step = "merging", ![c].env = env]
      BY <2>1 DEF h
    <3>3. QED
      BY <1>17, <1>18, <3>1, <3>2 DEF Race
  <2>2. ASSUME NEW e \in Names(Asked(c)), NEW outcome \in Outcomes,
               client' = [client EXCEPT ![c].step = "merging", ![c].env = Added(@, e, outcome)]
        PROVE  TypeOK' /\ CacheOK'
    <3> DEFINE env == Added(h.env, e, outcome)
    <3>1. env \in Envelopes
      BY <1>2, <1>3, AddedFacts
    <3>2. client' = [client EXCEPT ![c].step = "merging", ![c].env = env]
      BY <2>2 DEF h
    <3>3. QED
      BY <1>17, <1>18, <3>1, <3>2 DEF Race
  <2>3. QED
    BY <1>18, <2>1, <2>2 DEF Race
<1>19. CASE SearchDedicated(c)
  <2> DEFINE e == Head(Asked(c))
  <2>1. e \in Engines
    BY <1>1, <1>3, HandlerFacts
  <2>2. ASSUME NEW outcome \in Outcomes,
               client' = [client EXCEPT ![c].step = "merging", ![c].env = Added(@, e, outcome)]
        PROVE  TypeOK' /\ CacheOK'
    <3> DEFINE env == Added(h.env, e, outcome)
    <3>1. env \in Envelopes
      BY <1>2, <2>1, AddedFacts
    <3>2. client' = [client EXCEPT ![c].step = "merging", ![c].env = env]
      BY <2>2 DEF h
    <3>3. QED
      BY <1>17, <1>19, <3>1, <3>2 DEF SearchDedicated
  <2>3. ASSUME NEW u \in Engines, NEW outcome \in Outcomes,
               client' = [client EXCEPT ![c].step = "merging",
                            ![c].env = Added(Added(@, e, "error"), u, outcome)]
        PROVE  TypeOK' /\ CacheOK'
    <3> DEFINE env == Added(Added(h.env, e, "error"), u, outcome)
    <3>1. env \in Envelopes
      BY <1>2, <2>1, AddedFacts
    <3>2. client' = [client EXCEPT ![c].step = "merging", ![c].env = env]
      BY <2>3 DEF h
    <3>3. QED
      BY <1>17, <1>19, <3>1, <3>2 DEF SearchDedicated
  <2> HIDE DEF e
  <2>4. QED
    BY <1>19, <2>2, <2>3, MegaAssumption DEF SearchDedicated, Callable, Outcomes, e
<1>20. QED
  BY <1>5, <1>6, <1>7, <1>8, <1>9, <1>10, <1>11, <1>12, <1>13, <1>14, <1>15, <1>16, <1>18, <1>19
     DEF Handle

LEMMA ArriveStep ==
  ASSUME TypeOK, CacheOK, NEW c \in Clients, Arrive(c)
  PROVE  TypeOK' /\ CacheOK'
<1>1. PICK q \in Requests :
        client' = [client EXCEPT ![c] =
          [step |-> "lookup", ask |-> q, keys |-> Candidates(q), shut |-> Shut, hit |-> FALSE,
           next |-> 1, calls |-> [i \in DOMAIN q.engines |-> "unstarted"], expired |-> FALSE,
           env |-> Blank(q.engines)]]
  BY DEF Arrive
<1> DEFINE calls == [i \in DOMAIN q.engines |-> "unstarted"]
           env == Blank(q.engines)
           keys == Candidates(q)
           shut == Shut
           g == [step |-> "lookup", ask |-> q, keys |-> keys, shut |-> shut, hit |-> FALSE,
                 next |-> 1, calls |-> calls, expired |-> FALSE, env |-> env]
<1>2. calls \in Seq(CallStates) /\ Len(calls) = Len(q.engines)
  BY RequestFacts DEF CallStates
<1>3. env \in Envelopes
  BY DEF Blank, Envelopes
<1>4. keys \in Seq(Keys)
  BY CandidateKeys
<1>5. shut \in SUBSET Engines
  BY MegaAssumption DEF TypeOK, Shut
<1>6. client' = [client EXCEPT ![c] = g]
  BY <1>1
<1> HIDE DEF calls, env, keys, shut
<1>7. Becomes(c, g)
  BY <1>2, <1>3, <1>4, <1>5, <1>6 DEF Becomes, Handler, Steps
<1>8. QED
  BY <1>7, BecomesTyped DEF Arrive, CacheOK

LEMMA TypeStep ==
  ASSUME TypeOK, CacheOK, [Next]_vars
  PROVE  TypeOK' /\ CacheOK'
<1>1. ASSUME NEW c \in Clients, Leave(c)
      PROVE  TypeOK' /\ CacheOK'
  <2>1. /\ client' \in [Clients -> {Idle} \cup Handler] /\ client'[c] = Idle
        /\ \A d \in Clients : d # c => client'[d] = client[d]
    BY <1>1 DEF TypeOK, Leave
  <2>2. QED
    BY <1>1, <2>1 DEF TypeOK, CacheOK, Leave, Step, Asked, Idle
<1>2. ASSUME NEW b \in Breakers, BreakerMoves(b)
      PROVE  TypeOK' /\ CacheOK'
  BY <1>2 DEF TypeOK, CacheOK, BreakerMoves, Step, Asked
<1>3. ASSUME Stats \/ Tick
      PROVE  TypeOK' /\ CacheOK'
  <2>1. CacheOK'
    BY <1>3, PrunedCache, AgedCache DEF Stats, Tick
  <2>2. QED
    BY <1>3, <2>1 DEF TypeOK, CacheOK, Stats, Tick, Step, Asked
<1>4. ASSUME UNCHANGED vars
      PROVE  TypeOK' /\ CacheOK'
  BY <1>4 DEF TypeOK, CacheOK, vars, Step, Asked
<1>5. QED
  BY <1>1, <1>2, <1>3, <1>4, HandlerStep, ArriveStep DEF Next

LEMMA TypeInit ==
  ASSUME Init
  PROVE  TypeOK /\ CacheOK
<1>1. DOMAIN entries = {} /\ IsFiniteSet({}) /\ Cardinality({}) = 0
  BY FS_EmptySet DEF Init, NoEntries
<1>2. QED
  BY <1>1, CacheAssumption DEF Init, TypeOK, CacheOK, CacheAssumption, Step, Idle

\* The cache never holds more entries than its bound, the keys and envelopes in it
\* are well formed, and a handler has a call per engine and a key before it stores.
THEOREM TypeCorrect == Spec => []TypeOK
<1>1. Init => TypeOK /\ CacheOK
  BY TypeInit
<1>2. (TypeOK /\ CacheOK) /\ [Next]_vars => (TypeOK /\ CacheOK)'
  BY TypeStep
<1>3. QED
  BY <1>1, <1>2, PTL DEF Spec

-----------------------------------------------------------------------------
(* The invariant under EveryCallAccounted and HitsFit, of each handler and of the cache. *)

\* Which search a handler goes through is settled by the mode of its request.
ModeFits(h) ==
  /\ h.step \in {"starting", "collecting"} => h.ask.mode = "balanced"
  /\ h.step = "trying" => h.ask.mode = "any"
  /\ h.step = "racing" => h.ask.mode = "fast"
  /\ h.step = "dedicated" => h.ask.mode = "dedicated"

\* A key under which an answer to q may be looked up while the breakers in shut are open.
LookedUp(k, q, shut) ==
  /\ k.mode = q.mode
  /\ Names(q.engines) \ k.engines \subseteq shut
  /\ q.mode = "dedicated" => k.engines = Names(q.engines)

\* An answer fits the key it is stored under.
DataFits(k, d) ==
  /\ k.engines \subseteq Names(d.asked)
  /\ k.mode = "dedicated" => d.kept = k.engines

AnswerFits(h) ==
  /\ h.step = "lookup" => \A i \in DOMAIN h.keys : LookedUp(h.keys[i], h.ask, h.shut)
  /\ h.step \in Steps \ {"answered"} =>
       h.env.asked = h.ask.engines /\ h.env.found \subseteq h.env.responded /\ ~h.hit
  /\ h.step = "keying" => h.env.kept \subseteq h.env.found
  /\ h.step = "storing" => DataFits(Head(h.keys), h.env)
  /\ h.step = "answered" /\ h.hit =>
       /\ Names(h.ask.engines) \ Names(h.env.asked) \subseteq h.shut
       /\ h.ask.mode = "dedicated" => h.env.kept = Names(h.ask.engines)

CacheFits == \A k \in DOMAIN entries : DataFits(k, entries[k].data)

\* The engines whose outcome has been collected.
Heard(h) == {h.ask.engines[i] : i \in {j \in DOMAIN h.calls : h.calls[j] = "collected"}}
Started(h) == {h.ask.engines[i] : i \in 1 .. h.next - 1}
Named(h) == h.env.responded \cup h.env.failed
Parted(h) == NoRepeats(h.ask.engines) => h.env.responded \cap h.env.failed = {}

CallsFit(h) ==
  h.ask.mode = "balanced" =>
    /\ h.next <= Len(h.ask.engines) + 1
    /\ \A i \in DOMAIN h.calls : h.calls[i] = "unstarted" <=> i >= h.next
    /\ h.step \in {"lookup", "starting", "collecting"} => Named(h) = Heard(h) /\ Parted(h)
    /\ h.step \in {"merging", "keying", "storing"} => Started(h) \subseteq Named(h) /\ Parted(h)

HandlerFits(h) == h.step # "idle" => ModeFits(h) /\ AnswerFits(h) /\ CallsFit(h)

MegaInv == CacheFits /\ \A c \in Clients : HandlerFits(client[c])

LEMMA InvInit ==
  ASSUME Init
  PROVE  MegaInv
BY DEF Init, NoEntries, MegaInv, CacheFits, HandlerFits, Idle

\* What the cache loses or what grows old in it disturbs nothing.
LEMMA CacheKept ==
  ASSUME CacheFits, TypeOK, entries' = entries \/ Prune \/ Age
  PROVE  CacheFits'
<1>1. ASSUME NEW k \in DOMAIN entries'
      PROVE  k \in DOMAIN entries /\ entries'[k].data = entries[k].data
  <2>1. CASE entries' = entries
    BY <1>1, <2>1
  <2>2. CASE Prune
    BY <1>1, <2>2 DEF Prune, Pruned, Live
  <2>3. CASE Age
    <3>1. k \in DOMAIN entries /\ entries[k] \in [data : Envelopes, age : 0 .. TTL]
      BY <1>1, <2>3 DEF Age, TypeOK
    <3>2. entries'[k] = [entries[k] EXCEPT !.age = IF @ < TTL THEN @ + 1 ELSE @]
      BY <2>3, <3>1 DEF Age
    <3>3. QED
      BY <3>1, <3>2
  <2>4. QED
    BY <2>1, <2>2, <2>3
<1>2. QED
  BY <1>1 DEF CacheFits, DataFits

\* A step that leaves the calls and what is known of them alone.
LEMMA CallsKept ==
  ASSUME NEW h, NEW g, CallsFit(h), g.ask = h.ask, g.next = h.next, g.calls = h.calls,
         g.env.responded = h.env.responded, g.env.failed = h.env.failed,
         g.step = h.step \/ g.step = "answered"
           \/ {h.step, g.step} \subseteq {"lookup", "starting", "collecting"}
           \/ {h.step, g.step} \subseteq {"merging", "keying", "storing"}
           \/ g.step \notin Steps
           \/ g.step \in {"trying", "racing", "dedicated"}
  PROVE  CallsFit(g)
BY DEF CallsFit, Named, Heard, Started, Parted, Steps

LEMMA ArriveFits ==
  ASSUME TypeOK, MegaInv, NEW c \in Clients, Arrive(c)
  PROVE  HandlerFits(client'[c])
<1>1. PICK q \in Requests :
        client' = [client EXCEPT ![c] =
          [step |-> "lookup", ask |-> q, keys |-> Candidates(q), shut |-> Shut, hit |-> FALSE,
           next |-> 1, calls |-> [i \in DOMAIN q.engines |-> "unstarted"], expired |-> FALSE,
           env |-> Blank(q.engines)]]
  BY DEF Arrive
<1> DEFINE g == client'[c]
<1>2. g = [step |-> "lookup", ask |-> q, keys |-> Candidates(q), shut |-> Shut, hit |-> FALSE,
           next |-> 1, calls |-> [i \in DOMAIN q.engines |-> "unstarted"], expired |-> FALSE,
           env |-> Blank(q.engines)]
  BY <1>1 DEF TypeOK
<1>3. LookedUp(Key(q, Names(q.engines)), q, Shut)
  BY DEF LookedUp, Key
<1>4. q.mode = "balanced" => LookedUp(Key(q, Cacheable(q)), q, Shut)
  BY DEF LookedUp, Key, Cacheable
<1>5. \A i \in DOMAIN Candidates(q) : LookedUp(Candidates(q)[i], q, Shut)
  BY <1>3, <1>4 DEF Candidates
<1>6. /\ g.step = "lookup" /\ g.ask = q /\ g.keys = Candidates(q) /\ g.shut = Shut /\ ~g.hit
      /\ g.next = 1 /\ g.calls = [i \in DOMAIN q.engines |-> "unstarted"]
      /\ g.env = Blank(q.engines)
  BY <1>2
<1> HIDE DEF g
<1>7. ModeFits(g) /\ AnswerFits(g)
  BY <1>5, <1>6 DEF ModeFits, AnswerFits, Blank
<1>8. CallsFit(g)
  BY <1>6, RequestFacts DEF CallsFit, Blank, Named, Heard, Parted
<1>9. QED
  BY <1>7, <1>8 DEF HandlerFits, g

\* The steps around the search.
LEMMA AroundFits ==
  ASSUME TypeOK, MegaInv, NEW c \in Clients,
         Hit(c) \/ Miss(c) \/ Begin(c) \/ Merge(c) \/ PickKey(c) \/ Store(c)
  PROVE  HandlerFits(client'[c])
<1> DEFINE h == client[c]
           g == client'[c]
<1>1. Step(c) # "idle"
  BY DEF Hit, Miss, Begin, Merge, PickKey, Store
<1>2. /\ h \in Handler /\ h.ask \in Requests /\ h.env \in Envelopes /\ h.keys \in Seq(Keys)
      /\ h.step = Step(c) /\ Asked(c) = h.ask.engines
      /\ ModeFits(h) /\ AnswerFits(h) /\ CallsFit(h)
  BY <1>1, HandlerFacts DEF MegaInv, HandlerFits, Step, Asked
<1>3. client \in [Clients -> {Idle} \cup Handler]
  BY DEF TypeOK
<1>5. CASE Hit(c)
  <2> DEFINE k == Head(h.keys)
  <2>1. k \in DOMAIN entries /\ 1 \in DOMAIN h.keys /\ k = h.keys[1]
    BY <1>2, <1>5 DEF Hit, Live
  <2>2. DataFits(k, entries[k].data) /\ LookedUp(k, h.ask, h.shut)
    BY <1>2, <1>5, <2>1 DEF Hit, MegaInv, CacheFits, AnswerFits
  <2>3. g = [h EXCEPT !.step = "answered", !.hit = TRUE, !.env = entries[k].data]
    BY <1>2, <1>3, <1>5 DEF Hit, Handler
  <2>4. g.step = "answered" /\ g.ask = h.ask /\ g.shut = h.shut /\ g.next = h.next
        /\ g.calls = h.calls /\ g.env = entries[k].data
    BY <1>2, <2>3 DEF Handler
  <2> HIDE DEF k, h, g
  <2>5. ModeFits(g) /\ AnswerFits(g)
    BY <2>2, <2>4 DEF ModeFits, AnswerFits, DataFits, LookedUp
  <2>6. CallsFit(g)
    BY <1>2, <2>4 DEF CallsFit
  <2>7. QED
    BY <2>5, <2>6 DEF HandlerFits, g
<1>6. CASE Miss(c)
  <2>1. g = [h EXCEPT !.keys = Tail(h.keys)]
    BY <1>2, <1>3, <1>6 DEF Miss, Handler
  <2>2. /\ g.step = "lookup" /\ h.step = "lookup" /\ g.ask = h.ask /\ g.shut = h.shut
        /\ g.next = h.next /\ g.calls = h.calls /\ g.env = h.env /\ g.hit = h.hit
        /\ g.keys = Tail(h.keys)
    BY <1>2, <1>6, <2>1 DEF Handler, Miss
  <2>3. \A i \in DOMAIN Tail(h.keys) : i + 1 \in DOMAIN h.keys /\ Tail(h.keys)[i] = h.keys[i + 1]
    BY <1>2, <1>6 DEF Miss
  <2> HIDE DEF h, g
  <2>4. ModeFits(g) /\ AnswerFits(g)
    BY <1>2, <2>2, <2>3 DEF ModeFits, AnswerFits, Steps
  <2>5. CallsFit(g)
    BY <1>2, <2>2, CallsKept
  <2>6. QED
    BY <2>4, <2>5 DEF HandlerFits, g
<1>7. CASE Begin(c)
  <2> DEFINE step == CASE h.ask.mode = "balanced" -> "starting"
                       [] h.ask.mode = "any" -> "trying"
                       [] h.ask.mode = "fast" -> "racing"
                       [] OTHER -> "dedicated"
  <2>1. g = [h EXCEPT !.step = step]
    BY <1>2, <1>3, <1>7 DEF Begin, Handler
  <2>2. /\ g.step = step /\ h.step = "lookup" /\ g.ask = h.ask /\ g.next = h.next
        /\ g.calls = h.calls /\ g.env = h.env /\ g.hit = h.hit
    BY <1>2, <1>7, <2>1 DEF Handler, Begin
  <2>3. h.ask.mode \in Modes
    BY <1>2, RequestFacts
  <2> HIDE DEF h, g
  <2>4. ModeFits(g) /\ AnswerFits(g)
    BY <1>2, <2>2, <2>3 DEF ModeFits, AnswerFits, Modes, Steps
  <2>5. CallsFit(g)
    BY <1>2, <2>2, CallsKept
  <2>6. QED
    BY <2>4, <2>5 DEF HandlerFits, g
<1>8. CASE Merge(c)
  <2> DEFINE found == h.env.found
             kept == IF h.ask.merge THEN found ELSE FirstFound(h.ask.engines, found)
             step == IF h.env.responded # {} /\ h.ask.cached /\ h.ask.mode # "fast"
                       THEN "keying" ELSE "answered"
  <2>1. g = [h EXCEPT !.env = [h.env EXCEPT !.kept = kept], !.step = step]
    BY <1>2, <1>3, <1>8 DEF Merge, Handler, Envelopes
  <2>2. kept \subseteq found
    BY DEF FirstFound
  <2>3. step \in {"keying", "answered"}
    OBVIOUS
  <2> HIDE DEF kept, step
  <2>4. /\ g.step = step /\ h.step = "merging" /\ g.ask = h.ask /\ g.next = h.next
        /\ g.calls = h.calls /\ g.env.asked = h.env.asked /\ g.env.found = found
        /\ g.env.responded = h.env.responded /\ g.env.failed = h.env.failed
        /\ g.hit = h.hit /\ g.env.kept = kept
    <3>1. /\ g.step = step /\ g.ask = h.ask /\ g.next = h.next /\ g.calls = h.calls
          /\ g.hit = h.hit /\ g.env = [h.env EXCEPT !.kept = kept]
      BY <1>2, <2>1 DEF Handler
    <3>2. h.step = "merging"
      BY <1>2, <1>8 DEF Merge
    <3> HIDE DEF h, g
    <3>3. QED
      BY <1>2, <3>1, <3>2 DEF Envelopes
  <2> HIDE DEF h, g
  <2>5. ModeFits(g) /\ AnswerFits(g)
    BY <1>2, <2>2, <2>3, <2>4 DEF ModeFits, AnswerFits, Steps
  <2>6. CallsFit(g)
    BY <1>2, <2>3, <2>4, CallsKept
  <2>7. QED
    BY <2>5, <2>6 DEF HandlerFits, g
<1>9. CASE PickKey(c)
  <2> DEFINE k == Key(h.ask, Cacheable(h.ask))
  <2>1. h.step = "keying" /\ h.env.kept \subseteq h.env.found /\ h.env.found \subseteq h.env.responded
        /\ h.env.asked = h.ask.engines /\ ~h.hit
    BY <1>2, <1>9 DEF PickKey, AnswerFits, Steps
  <2>2. CASE Storable(c)
    <3>1. g = [h EXCEPT !.step = "storing", !.keys = <<k>>]
      BY <1>2, <1>3, <1>9, <2>2 DEF PickKey, Handler
    <3>2. k.mode = h.ask.mode /\ k.engines = Cacheable(h.ask)
      BY DEF Key
    <3>3. k.engines \subseteq Names(h.env.asked)
      BY <2>1, <3>2 DEF Cacheable
    <3>4. ASSUME h.ask.mode = "dedicated"
          PROVE  h.env.kept = k.engines
      <4>1. Len(h.ask.engines) = 1 /\ Names(h.ask.engines) = {h.ask.engines[1]}
        BY <1>2, <3>4, RequestFacts, MegaAssumption DEF Names
      <4>2. h.env.kept # {} /\ h.env.kept \subseteq Names(h.ask.engines)
        BY <1>2, <2>1, <2>2, <3>4 DEF Storable
      <4>3. k.engines = Names(h.ask.engines)
        BY <3>2, <3>4 DEF Cacheable
      <4>4. QED
        BY <4>1, <4>2, <4>3
    <3>5. DataFits(k, h.env)
      BY <3>2, <3>3, <3>4 DEF DataFits
    <3> HIDE DEF k
    <3>6. /\ g.step = "storing" /\ g.ask = h.ask /\ g.next = h.next /\ g.calls = h.calls
          /\ g.env = h.env /\ g.hit = h.hit /\ Head(g.keys) = k
      BY <1>2, <3>1 DEF Handler
    <3> HIDE DEF h, g
    <3>7. ModeFits(g) /\ AnswerFits(g)
      BY <2>1, <3>5, <3>6 DEF ModeFits, AnswerFits
    <3>8. CallsFit(g)
      BY <1>2, <2>1, <3>6, CallsKept
    <3>9. QED
      BY <3>7, <3>8 DEF HandlerFits, g
  <2>3. CASE ~Storable(c)
    <3>1. g = [h EXCEPT !.step = "answered"]
      BY <1>2, <1>3, <1>9, <2>3 DEF PickKey, Handler
    <3>2. g.step = "answered" /\ g.ask = h.ask /\ g.next = h.next /\ g.calls = h.calls
          /\ g.env = h.env /\ g.hit = h.hit
      BY <1>2, <3>1 DEF Handler
    <3> HIDE DEF h, g
    <3>3. ModeFits(g) /\ AnswerFits(g)
      BY <2>1, <3>2 DEF ModeFits, AnswerFits
    <3>4. CallsFit(g)
      BY <1>2, <3>2, CallsKept
    <3>5. QED
      BY <3>3, <3>4 DEF HandlerFits, g
  <2>4. QED
    BY <2>2, <2>3
<1>10. CASE Store(c)
  <2>1. g = [h EXCEPT !.step = "answered"]
    BY <1>2, <1>3, <1>10 DEF Store, Handler
  <2>2. /\ h.step = "storing" /\ g.step = "answered" /\ g.ask = h.ask /\ g.next = h.next
        /\ g.calls = h.calls /\ g.env = h.env /\ g.hit = h.hit
    BY <1>2, <1>10, <2>1 DEF Handler, Store
  <2> HIDE DEF h, g
  <2>3. ModeFits(g) /\ AnswerFits(g)
    BY <1>2, <2>2 DEF ModeFits, AnswerFits, Steps
  <2>4. CallsFit(g)
    BY <1>2, <2>2, CallsKept
  <2>5. QED
    BY <2>3, <2>4 DEF HandlerFits, g
<1>11. QED
  BY <1>5, <1>6, <1>7, <1>8, <1>9, <1>10

\* The steps of the sequential searches: none of them is of a balanced request.
LEMMA SequentialFits ==
  ASSUME TypeOK, MegaInv, NEW c \in Clients,
         TryEngine(c) \/ NoneLeft(c) \/ Race(c) \/ SearchDedicated(c)
  PROVE  HandlerFits(client'[c])
<1> DEFINE h == client[c]
           g == client'[c]
<1>1. Step(c) # "idle"
  BY DEF TryEngine, NoneLeft, Race, SearchDedicated
<1>2. /\ h \in Handler /\ h.ask \in Requests /\ h.env \in Envelopes
      /\ h.step = Step(c) /\ Asked(c) = h.ask.engines
      /\ ModeFits(h) /\ AnswerFits(h) /\ CallsFit(h)
      /\ Names(Asked(c)) \subseteq Engines /\ h.next \in Nat \ {0}
      /\ Len(Asked(c)) \in Nat \ {0} /\ DOMAIN Asked(c) = 1 .. Len(Asked(c))
      /\ \A i \in 1 .. Len(Asked(c)) : Asked(c)[i] \in Engines
  BY <1>1, HandlerFacts DEF MegaInv, HandlerFits, Step, Asked
<1>3. client \in [Clients -> {Idle} \cup Handler]
  BY DEF TypeOK
<1>4. /\ h.step \in {"trying", "racing", "dedicated"} /\ h.ask.mode # "balanced"
      /\ h.env.asked = h.ask.engines /\ h.env.found \subseteq h.env.responded /\ ~h.hit
  BY <1>2 DEF TryEngine, NoneLeft, Race, SearchDedicated, ModeFits, AnswerFits, Steps
<1>5. ASSUME NEW env \in Envelopes, env.asked = h.env.asked, env.found \subseteq env.responded,
             g.step = "merging" \/ g.step = h.step,
             g.ask = h.ask, g.env = env, g.hit = h.hit
      PROVE  HandlerFits(client'[c])
  <2> HIDE DEF h, g
  <2>1. ModeFits(g) /\ AnswerFits(g) /\ CallsFit(g)
    BY <1>2, <1>4, <1>5 DEF ModeFits, AnswerFits, CallsFit
  <2>2. QED
    BY <2>1 DEF HandlerFits, g
<1>6. CASE TryEngine(c)
  <2> DEFINE e == Asked(c)[h.next]
  <2>1. PICK outcome \in Outcomes :
          client' = [client EXCEPT
            ![c].env = Added(@, e, outcome), ![c].next = h.next + 1,
            ![c].step = IF h.expired \/ outcome # "error" THEN "merging" ELSE @]
    BY <1>6 DEF TryEngine, Outcomes
  <2> DEFINE env == Added(h.env, e, outcome)
             step == IF h.expired \/ outcome # "error" THEN "merging" ELSE h.step
  <2>2. e \in Engines
    <3>1. h.next <= Len(Asked(c))
      BY <1>6 DEF TryEngine
    <3> HIDE DEF h
    <3>2. QED
      BY <1>2, <3>1
  <2>3. env \in Envelopes /\ env.asked = h.env.asked /\ env.found \subseteq env.responded
    BY <1>2, <1>4, <2>2, AddedFacts
  <2>4. g = [h EXCEPT !.env = env, !.next = h.next + 1, !.step = step]
    BY <1>2, <1>3, <2>1 DEF Handler
  <2>5. step \in {"merging", h.step}
    OBVIOUS
  <2> HIDE DEF env, step
  <2>6. g.step = step /\ g.ask = h.ask /\ g.env = env /\ g.hit = h.hit
    BY <1>2, <2>4 DEF Handler
  <2>7. QED
    BY <1>5, <2>3, <2>5, <2>6
<1>7. CASE NoneLeft(c)
  <2>1. g = [h EXCEPT !.step = "merging"]
    BY <1>2, <1>3, <1>7 DEF NoneLeft, Handler
  <2>2. g.step = "merging" /\ g.ask = h.ask /\ g.env = h.env /\ g.hit = h.hit
    BY <1>2, <2>1 DEF Handler
  <2>3. QED
    BY <1>2, <1>4, <1>5, <2>2
<1>8. ASSUME NEW env \in Envelopes, env.asked = h.env.asked, env.found \subseteq env.responded,
             client' = [client EXCEPT ![c].step = "merging", ![c].env = env]
      PROVE  HandlerFits(client'[c])
  <2>1. g = [h EXCEPT !.step = "merging", !.env = env]
    BY <1>2, <1>3, <1>8 DEF Handler
  <2>2. g.step = "merging" /\ g.ask = h.ask /\ g.env = env /\ g.hit = h.hit
    BY <1>2, <2>1 DEF Handler
  <2>3. QED
    BY <1>5, <1>8, <2>2
<1>9. ASSUME NEW e \in Engines, NEW outcome,
             client' = [client EXCEPT ![c].step = "merging", ![c].env = Added(@, e, outcome)]
      PROVE  HandlerFits(client'[c])
  <2> DEFINE env == Added(h.env, e, outcome)
  <2>1. env \in Envelopes /\ env.asked = h.env.asked /\ env.found \subseteq env.responded
    BY <1>2, <1>4, AddedFacts
  <2>2. client' = [client EXCEPT ![c].step = "merging", ![c].env = env]
    BY <1>9
  <2> HIDE DEF env
  <2>3. QED
    BY <1>8, <2>1, <2>2
<1>10. CASE Race(c)
  <2>1. CASE client' = [client EXCEPT ![c].step = "merging", ![c].env.failed = Names(Asked(c))]
    <3> DEFINE env == [h.env EXCEPT !.failed = Names(Asked(c))]
    <3>1. client' = [client EXCEPT ![c].step = "merging", ![c].env = env]
      BY <2>1
    <3>2. env \in Envelopes /\ env.asked = h.env.asked /\ env.found \subseteq env.responded
      <4> HIDE DEF h
      <4>1. QED
        BY <1>2, <1>4 DEF Envelopes
    <3>3. QED
      BY <1>8, <3>1, <3>2
  <2>2. QED
    BY <1>2, <1>9, <1>10, <2>1 DEF Race
<1>11. CASE SearchDedicated(c)
  <2> DEFINE e == Head(Asked(c))
  <2>1. e \in Engines
    BY <1>2
  <2>2. ASSUME NEW u \in Engines, NEW outcome,
               client' = [client EXCEPT ![c].step = "merging",
                            ![c].env = Added(Added(@, e, "error"), u, outcome)]
        PROVE  HandlerFits(client'[c])
    <3> DEFINE mid == Added(h.env, e, "error")
               env == Added(mid, u, outcome)
    <3>1. mid \in Envelopes /\ mid.asked = h.env.asked /\ mid.found \subseteq mid.responded
      BY <1>2, <1>4, <2>1, AddedFacts
    <3>2. client' = [client EXCEPT ![c].step = "merging", ![c].env = env]
      BY <2>2
    <3> HIDE DEF mid
    <3>3. env \in Envelopes /\ env.asked = h.env.asked /\ env.found \subseteq env.responded
      BY <3>1, AddedFacts
    <3> HIDE DEF env
    <3>4. QED
      BY <1>8, <3>2, <3>3
  <2> HIDE DEF e
  <2>3. QED
    BY <1>9, <1>11, <2>1, <2>2, MegaAssumption DEF SearchDedicated, Callable, e
<1>12. QED
  BY <1>6, <1>7, <1>10, <1>11

\* The steps of runParallelDetailed, of its goroutines and of the deadline.
LEMMA BalancedFits ==
  ASSUME TypeOK, MegaInv, NEW c \in Clients,
         StartEngine(c) \/ StopStarting(c) \/ Collect(c) \/ AllCollected(c)
           \/ CollectorLeaves(c) \/ Deadline(c) \/ CallEnds(c)
  PROVE  HandlerFits(client'[c])
<1> DEFINE h == client[c]
           g == client'[c]
<1>1. Step(c) # "idle"
  BY DEF StartEngine, StopStarting, Collect, AllCollected, CollectorLeaves, Deadline, CallEnds
<1>2. /\ h \in Handler /\ h.env \in Envelopes /\ h.next \in Nat \ {0}
      /\ h.step = Step(c) /\ Asked(c) = h.ask.engines
      /\ ModeFits(h) /\ AnswerFits(h) /\ CallsFit(h)
      /\ h.calls \in Seq(CallStates) /\ DOMAIN h.calls = 1 .. Len(h.ask.engines)
      /\ Len(h.ask.engines) \in Nat /\ DOMAIN h.ask.engines = 1 .. Len(h.ask.engines)
      /\ \A i \in 1 .. Len(h.ask.engines) : h.ask.engines[i] \in Engines
  BY <1>1, HandlerFacts DEF MegaInv, HandlerFits, Step, Asked
<1>3. client \in [Clients -> {Idle} \cup Handler]
  BY DEF TypeOK
<1>4. CASE StartEngine(c)
  <2> DEFINE n == h.next
             state == IF Asked(c)[n] \in Callable THEN "running" ELSE "error"
             calls == [h.calls EXCEPT ![n] = state]
  <2>1. h.step = "starting" /\ n <= Len(h.ask.engines) /\ n \in DOMAIN h.calls
    BY <1>2, <1>4 DEF StartEngine
  <2>2. g = [h EXCEPT !.next = n + 1, !.calls = calls]
    BY <1>2, <1>3, <1>4 DEF StartEngine, Handler
  <2>3. state \in {"running", "error"}
    OBVIOUS
  <2> HIDE DEF state
  <2>4. /\ g.step = h.step /\ g.ask = h.ask /\ g.env = h.env /\ g.hit = h.hit
        /\ g.next = n + 1 /\ g.calls = calls
    BY <1>2, <2>2 DEF Handler
  <2>5. /\ DOMAIN calls = DOMAIN h.calls
        /\ calls[n] = state /\ \A i \in DOMAIN h.calls : i # n => calls[i] = h.calls[i]
    BY <2>1
  <2> HIDE DEF h, g, calls
  <2>6. h.ask.mode = "balanced"
    BY <1>2, <2>1 DEF ModeFits
  <2>7. ModeFits(g) /\ AnswerFits(g)
    BY <1>2, <2>1, <2>4 DEF ModeFits, AnswerFits, Steps
  <2>8. h.calls[n] = "unstarted"
    BY <1>2, <2>1, <2>6 DEF CallsFit
  <2>9. Heard(g) = Heard(h) /\ Named(g) = Named(h) /\ (Parted(g) <=> Parted(h))
    BY <2>3, <2>4, <2>5, <2>8 DEF Heard, Named, Parted
  <2>10. \A i \in DOMAIN g.calls : g.calls[i] = "unstarted" <=> i >= g.next
    BY <1>2, <2>1, <2>3, <2>4, <2>5, <2>6 DEF CallsFit
  <2>11. CallsFit(g)
    BY <1>2, <2>1, <2>4, <2>6, <2>9, <2>10 DEF CallsFit
  <2>12. QED
    BY <2>7, <2>11 DEF HandlerFits, g
<1>5. CASE StopStarting(c)
  <2>1. h.step = "starting" /\ g = [h EXCEPT !.step = "collecting"]
    BY <1>2, <1>3, <1>5 DEF StopStarting, Handler
  <2>2. /\ g.step = "collecting" /\ g.ask = h.ask /\ g.next = h.next /\ g.calls = h.calls
        /\ g.env = h.env /\ g.hit = h.hit
    BY <1>2, <2>1 DEF Handler
  <2> HIDE DEF h, g
  <2>3. ModeFits(g) /\ AnswerFits(g)
    BY <1>2, <2>1, <2>2 DEF ModeFits, AnswerFits, Steps
  <2>4. CallsFit(g)
    BY <1>2, <2>1, <2>2, CallsKept
  <2>5. QED
    BY <2>3, <2>4 DEF HandlerFits, g
<1>6. CASE Collect(c)
  <2>1. PICK i \in Sent(c) :
          client' = [client EXCEPT ![c].calls[i] = "collected",
                                   ![c].env = Added(@, Asked(c)[i], client[c].calls[i])]
    BY <1>6 DEF Collect
  <2> DEFINE e == h.ask.engines[i]
             env == Added(h.env, e, h.calls[i])
             calls == [h.calls EXCEPT ![i] = "collected"]
  <2>2. i \in DOMAIN h.calls /\ h.calls[i] \in Outcomes /\ e \in Engines
    BY <1>2, <2>1 DEF Sent
  <2>3. g = [h EXCEPT !.calls = calls, !.env = env]
    BY <1>2, <1>3, <2>1 DEF Handler
  <2>4. h.step = "collecting" /\ h.ask.mode = "balanced"
    BY <1>2, <1>6 DEF Collect, ModeFits
  <2>5. /\ env.asked = h.env.asked
        /\ env.responded \cup env.failed = Named(h) \cup {e}
        /\ \A x : x # e => /\ x \in env.responded <=> x \in h.env.responded
                           /\ x \in env.failed <=> x \in h.env.failed
        /\ e \notin Named(h) => e \notin env.responded \cap env.failed
        /\ h.env.found \subseteq h.env.responded => env.found \subseteq env.responded
    <3> HIDE DEF h, e
    <3>1. QED
      BY <1>2, <2>2, AddedFacts DEF Named
  <2>6. /\ DOMAIN calls = DOMAIN h.calls /\ calls[i] = "collected"
        /\ \A j \in DOMAIN h.calls : j # i => calls[j] = h.calls[j]
    BY <2>2
  <2> HIDE DEF env, calls
  <2>7. /\ g.step = h.step /\ g.ask = h.ask /\ g.env = env /\ g.hit = h.hit
        /\ g.next = h.next /\ g.calls = calls
    BY <1>2, <2>3 DEF Handler
  <2> HIDE DEF h, g
  <2>8. ModeFits(g) /\ AnswerFits(g)
    BY <1>2, <2>4, <2>5, <2>7 DEF ModeFits, AnswerFits, Steps
  <2>9. Named(g) = Named(h) \cup {e} /\ Heard(g) = Heard(h) \cup {e}
    BY <2>2, <2>5, <2>6, <2>7 DEF Named, Heard
  <2>10. Named(h) = Heard(h) /\ Parted(h)
    BY <1>2, <2>4 DEF CallsFit
  <2>11. NoRepeats(h.ask.engines) => e \notin Heard(h)
    BY <1>2, <2>2 DEF NoRepeats, Heard, Outcomes
  <2>12. Parted(g)
    BY <2>5, <2>7, <2>10, <2>11 DEF Parted
  <2>13. \A j \in DOMAIN g.calls : g.calls[j] = "unstarted" <=> j >= g.next
    BY <1>2, <2>2, <2>4, <2>6, <2>7 DEF CallsFit, Outcomes
  <2>14. CallsFit(g)
    BY <1>2, <2>4, <2>7, <2>9, <2>10, <2>12, <2>13 DEF CallsFit
  <2>15. QED
    BY <2>8, <2>14 DEF HandlerFits, g
<1>7. CASE AllCollected(c)
  <2>1. g = [h EXCEPT !.step = "merging"]
    BY <1>2, <1>3, <1>7 DEF AllCollected, Handler
  <2>2. /\ g.step = "merging" /\ g.ask = h.ask /\ g.next = h.next /\ g.calls = h.calls
        /\ g.env = h.env /\ g.hit = h.hit
    BY <1>2, <2>1 DEF Handler
  <2>3. h.step = "collecting" /\ h.ask.mode = "balanced"
    BY <1>2, <1>7 DEF AllCollected, ModeFits
  <2>4. Collected(c) = 1 .. h.next - 1
    <3>1. Collected(c) \subseteq 1 .. h.next - 1
      BY <1>2, <2>3 DEF Collected, CallsFit
    <3>2. IsFiniteSet(1 .. h.next - 1) /\ Cardinality(1 .. h.next - 1) = h.next - 1
      <4> DEFINE m == h.next - 1
      <4>1. m \in Nat /\ 1 \in Int
        BY <1>2
      <4> HIDE DEF m
      <4>2. IsFiniteSet(1 .. m) /\ Cardinality(1 .. m) = m
        BY <4>1, FS_Interval
      <4>3. QED
        BY <4>2 DEF m
    <3>3. QED
      BY <1>7, <3>1, <3>2, FS_Subset DEF AllCollected
  <2>5. Started(h) = Heard(h)
    BY <2>4 DEF Started, Heard, Collected
  <2> HIDE DEF h, g
  <2>6. ModeFits(g) /\ AnswerFits(g)
    BY <1>2, <2>2, <2>3 DEF ModeFits, AnswerFits, Steps
  <2>7. CallsFit(g)
    BY <1>2, <2>2, <2>3, <2>5 DEF CallsFit, Started, Named, Parted
  <2>8. QED
    BY <2>6, <2>7 DEF HandlerFits, g
<1>8. CASE CollectorLeaves(c)
  <2> DEFINE env == [h.env EXCEPT !.failed = h.env.failed \cup Pending(c)]
  <2>1. g = [h EXCEPT !.step = "merging", !.env = env]
    BY <1>2, <1>3, <1>8 DEF CollectorLeaves, Handler
  <2>2. /\ g.step = "merging" /\ g.ask = h.ask /\ g.next = h.next /\ g.calls = h.calls
        /\ g.env = env /\ g.hit = h.hit
    BY <1>2, <2>1 DEF Handler
  <2>3. h.step = "collecting" /\ h.ask.mode = "balanced"
    BY <1>2, <1>8 DEF CollectorLeaves, ModeFits
  <2>4. Pending(c) = Names(h.ask.engines) \ Heard(h)
    BY <1>2 DEF Pending, Collected, Heard
  <2> HIDE DEF h, g
  <2>5. /\ env.asked = h.env.asked /\ env.found = h.env.found
        /\ env.responded = h.env.responded /\ env.failed = h.env.failed \cup Pending(c)
    BY <1>2 DEF Envelopes
  <2> HIDE DEF env
  <2>6. ModeFits(g) /\ AnswerFits(g)
    BY <1>2, <2>2, <2>3, <2>5 DEF ModeFits, AnswerFits, Steps
  <2>7. Named(h) = Heard(h) /\ Parted(h) /\ h.next <= Len(h.ask.engines) + 1
    BY <1>2, <2>3 DEF CallsFit
  <2>8. Started(g) \subseteq Names(h.ask.engines)
    BY <1>2, <2>2, <2>7 DEF Started, Names
  <2>9. Started(g) \subseteq Named(g) /\ Parted(g)
    BY <2>2, <2>4, <2>5, <2>7, <2>8 DEF Named, Parted
  <2>10. CallsFit(g)
    BY <1>2, <2>2, <2>3, <2>9 DEF CallsFit
  <2>11. QED
    BY <2>6, <2>10 DEF HandlerFits, g
<1>9. CASE Deadline(c)
  <2>1. g = [h EXCEPT !.expired = TRUE]
    BY <1>2, <1>3, <1>9 DEF Deadline, Handler
  <2>2. /\ g.step = h.step /\ g.ask = h.ask /\ g.next = h.next /\ g.calls = h.calls
        /\ g.env = h.env /\ g.hit = h.hit
    BY <1>2, <2>1 DEF Handler
  <2>3. h.step \in {"starting", "collecting", "trying"}
    BY <1>2, <1>9 DEF Deadline
  <2> HIDE DEF h, g
  <2>4. ModeFits(g) /\ AnswerFits(g)
    BY <1>2, <2>2, <2>3 DEF ModeFits, AnswerFits
  <2>5. CallsFit(g)
    BY <1>2, <2>2, CallsKept
  <2>6. QED
    BY <2>4, <2>5 DEF HandlerFits, g
<1>10. CASE CallEnds(c)
  <2>1. PICK i \in Running(c), outcome \in Outcomes :
          client' = [client EXCEPT ![c].calls[i] = outcome]
    BY <1>10 DEF CallEnds
  <2> DEFINE calls == [h.calls EXCEPT ![i] = outcome]
  <2>2. g = [h EXCEPT !.calls = calls]
    BY <1>2, <1>3, <2>1 DEF Handler
  <2>3. i \in DOMAIN h.calls /\ h.calls[i] = "running"
    BY <2>1 DEF Running
  <2>4. /\ DOMAIN calls = DOMAIN h.calls /\ calls[i] = outcome
        /\ \A j \in DOMAIN h.calls : j # i => calls[j] = h.calls[j]
    BY <2>3
  <2> HIDE DEF calls
  <2>5. /\ g.step = h.step /\ g.ask = h.ask /\ g.next = h.next /\ g.calls = calls
        /\ g.env = h.env /\ g.hit = h.hit /\ g.keys = h.keys /\ g.shut = h.shut
    BY <1>2, <2>2 DEF Handler
  <2> HIDE DEF h, g
  <2>6. ModeFits(g) /\ AnswerFits(g)
    BY <1>2, <2>5 DEF ModeFits, AnswerFits
  <2>7. Heard(g) = Heard(h) /\ Named(g) = Named(h) /\ Started(g) = Started(h)
        /\ (Parted(g) <=> Parted(h))
    BY <2>3, <2>4, <2>5 DEF Heard, Named, Started, Parted, Outcomes
  <2>8. h.ask.mode = "balanced" =>
          \A j \in DOMAIN g.calls : g.calls[j] = "unstarted" <=> j >= g.next
    BY <1>2, <2>3, <2>4, <2>5 DEF CallsFit, Outcomes
  <2>9. CallsFit(g)
    BY <1>2, <2>5, <2>7, <2>8 DEF CallsFit
  <2>10. QED
    BY <2>6, <2>9 DEF HandlerFits, g
<1>11. QED
  BY <1>4, <1>5, <1>6, <1>7, <1>8, <1>9, <1>10

\* What is stored fits its key, as whatever is in the cache already.
LEMMA CacheStep ==
  ASSUME TypeOK, MegaInv, [Next]_vars
  PROVE  CacheFits'
<1>1. CASE entries' = entries \/ Prune \/ Age
  BY <1>1, CacheKept DEF MegaInv
<1>2. ASSUME NEW c \in Clients, Store(c)
      PROVE  CacheFits'
  <2> DEFINE k == Head(client[c].keys)
             d == client[c].env
  <2>1. DataFits(k, d)
    BY <1>2 DEF Store, Step, MegaInv, HandlerFits, AnswerFits
  <2> HIDE DEF k, d
  <2>2. Set(k, d)
    BY <1>2 DEF Store, k, d
  <2>3. PICK gone \in Victims(k) :
          entries' = [j \in (Live \ gone) \cup {k} |->
                        IF j = k THEN [data |-> d, age |-> 0] ELSE entries[j]]
    BY <2>2 DEF Set
  <2>4. ASSUME NEW j \in DOMAIN entries'
        PROVE  DataFits(j, entries'[j].data)
    <3>1. CASE j = k
      BY <2>1, <2>3, <3>1
    <3>2. CASE j # k
      BY <2>3, <2>4, <3>2 DEF Live, MegaInv, CacheFits
    <3>3. QED
      BY <3>1, <3>2
  <2>5. QED
    BY <2>4 DEF CacheFits
<1>3. QED
  BY <1>1, <1>2 DEF Next, vars, Handle, Arrive, Hit, Miss, Begin, Merge, PickKey, Leave,
     StartEngine, StopStarting, Collect, AllCollected, CollectorLeaves, TryEngine, NoneLeft,
     Race, SearchDedicated, Deadline, CallEnds, BreakerMoves, Stats, Tick

LEMMA InvStep ==
  ASSUME TypeOK, MegaInv, [Next]_vars
  PROVE  MegaInv'
<1>1. ASSUME NEW c \in Clients,
             Arrive(c) \/ Handle(c) \/ Deadline(c) \/ CallEnds(c) \/ Leave(c)
      PROVE  \A d \in Clients : HandlerFits(client'[d])
  <2>1. ASSUME NEW d \in Clients, d # c
        PROVE  client'[d] = client[d]
    BY <1>1, <2>1 DEF TypeOK, Handle, Arrive, Hit, Miss, Begin, Merge, PickKey, Store, Leave,
       StartEngine, StopStarting, Collect, AllCollected, CollectorLeaves, TryEngine, NoneLeft,
       Race, SearchDedicated, Deadline, CallEnds
  <2>2. HandlerFits(client'[c])
    <3>1. CASE Leave(c)
      BY <3>1 DEF Leave, TypeOK, HandlerFits, Idle
    <3>2. QED
      BY <1>1, <3>1, ArriveFits, AroundFits, SequentialFits, BalancedFits DEF Handle
  <2>3. QED
    BY <2>1, <2>2 DEF MegaInv
<1>2. CASE client' = client
  BY <1>2, CacheStep DEF MegaInv
<1>3. QED
  BY <1>1, <1>2, CacheStep DEF Next, vars, BreakerMoves, Stats, Tick, MegaInv

LEMMA InvImplies ==
  ASSUME TypeOK, MegaInv
  PROVE  EveryCallAccounted /\ HitsFit
<1>1. ASSUME NEW c \in Clients, Step(c) # "idle"
      PROVE  AnswerFits(client[c]) /\ CallsFit(client[c])
  BY <1>1 DEF MegaInv, HandlerFits, Step
<1>2. EveryCallAccounted
  BY <1>1 DEF EveryCallAccounted, CallsFit, Started, Named, Parted, Step, Asked
<1>3. HitsFit
  BY <1>1 DEF HitsFit, HitsCoverRequest, DedicatedHitsPure, AnswerFits, Step, Asked
<1>4. QED
  BY <1>2, <1>3

\* The invariant: every handler goes through the search of its mode, keeps its calls
\* and outcomes in step, and what is looked up, stored and cached fits its key.
THEOREM MegaInvariant == Spec => [](TypeOK /\ MegaInv)
<1>1. Init => (TypeOK /\ CacheOK) /\ MegaInv
  BY TypeInit, InvInit
<1>2. ((TypeOK /\ CacheOK) /\ MegaInv) /\ [Next]_vars => ((TypeOK /\ CacheOK) /\ MegaInv)'
  BY TypeStep, InvStep
<1>3. QED
  BY <1>1, <1>2, PTL DEF Spec

\* However the deadline falls between the calls, their outcomes and the collector,
\* a balanced answer names every engine whose call was started, and none as both
\* responding and failed if none is asked twice.
THEOREM AlwaysAccounted == Spec => []EveryCallAccounted
<1>1. TypeOK /\ MegaInv => EveryCallAccounted
  BY InvImplies
<1>2. QED
  BY <1>1, MegaInvariant, PTL

\* Whatever the breakers did since the answer was stored, an answer from the cache
\* lacks an engine that was asked only if its breaker was open, and is the engine's
\* own on a dedicated endpoint.
THEOREM AlwaysFits == Spec => []HitsFit
<1>1. TypeOK /\ MegaInv => HitsFit
  BY InvImplies
<1>2. QED
  BY <1>1, MegaInvariant, PTL

\* resultCh has room for the outcome of every call, so that no goroutine is left
\* behind when the collector leaves before the calls end.
THEOREM AlwaysDeliver == Spec => []ReturnedCallsDeliver
<1>1. TypeOK => ReturnedCallsDeliver
  <2>1. ASSUME TypeOK, NEW c \in Clients, Step(c) # "idle", Running(c) # {}
        PROVE  Cardinality(Sent(c)) < Room(c)
    <3> DEFINE n == Len(Asked(c))
               C == 1 .. n
    <3>1. n \in Nat \ {0} /\ DOMAIN client[c].calls = C
      BY <2>1, HandlerFacts
    <3>2. PICK i \in C : client[c].calls[i] = "running"
      BY <2>1, <3>1 DEF Running
    <3>3. Sent(c) \subseteq C /\ i \notin Sent(c)
      BY <3>1, <3>2 DEF Sent, Outcomes
    <3> HIDE DEF n
    <3>4. IsFiniteSet(C) /\ Cardinality(C) = n
      BY <3>1, FS_Interval
    <3> HIDE DEF C
    <3>5. /\ IsFiniteSet(Sent(c)) /\ Cardinality(Sent(c)) <= Cardinality(C)
          /\ Cardinality(Sent(c)) # Cardinality(C)
      BY <3>2, <3>3, <3>4, FS_Subset
    <3>6. Cardinality(Sent(c)) \in Nat
      BY <3>5, FS_CardinalityType
    <3>7. QED
      BY <3>1, <3>4, <3>5, <3>6 DEF Room, n
  <2>2. QED
    BY <2>1 DEF ReturnedCallsDeliver
<1>2. QED
  BY <1>1, TypeCorrect, PTL

\* An entry that is still valid leaves the cache only when a new key finds it full,
\* and only the oldest one does.
THEOREM AlwaysOldestEvicted == Spec => OnlyOldestEvicted
<1>1. ASSUME TypeOK, CacheOK, [Next]_vars, NEW k \in Live \ DOMAIN entries'
      PROVE  k \in Oldest(Live) /\ Cardinality(Live) = MaxSize /\ DOMAIN entries' \ Live # {}
  <2>1. ~(entries' = entries \/ Prune \/ Age)
    BY <1>1 DEF Prune, Pruned, Age, Live
  <2>2. PICK j \in Keys, d \in Envelopes : Set(j, d)
    <3>1. PICK c \in Clients : Store(c)
      BY <1>1, <2>1 DEF Next, vars, Handle, Arrive, Hit, Miss, Begin, Merge, PickKey, Leave,
         StartEngine, StopStarting, Collect, AllCollected, CollectorLeaves, TryEngine, NoneLeft,
         Race, SearchDedicated, Deadline, CallEnds, BreakerMoves, Stats, Tick
    <3>2. client[c].env \in Envelopes /\ client[c].keys \in Seq(Keys) /\ client[c].keys # <<>>
      BY <1>1, <3>1, HandlerFacts DEF Store, TypeOK
    <3>3. QED
      BY <3>1, <3>2 DEF Store
  <2>3. PICK gone \in Victims(j) :
          entries' = [i \in (Live \ gone) \cup {j} |->
                        IF i = j THEN [data |-> d, age |-> 0] ELSE entries[i]]
    BY <2>2 DEF Set
  <2>4. DOMAIN entries' = (Live \ gone) \cup {j} /\ k \in gone
    BY <1>1, <2>3
  <2>5. j \notin Live /\ Cardinality(Live) >= MaxSize /\ k \in Oldest(Live)
    BY <2>3, <2>4 DEF Victims
  <2>6. Cardinality(Live) <= MaxSize /\ Cardinality(Live) \in Nat
    <3>1. IsFiniteSet(Live) /\ Cardinality(Live) <= Cardinality(DOMAIN entries)
      BY <1>1, FS_Subset DEF Live, CacheOK
    <3>2. QED
      BY <1>1, <3>1, FS_CardinalityType, CacheAssumption DEF CacheOK
  <2>7. QED
    BY <2>4, <2>5, <2>6, CacheAssumption
<1>2. (TypeOK /\ CacheOK) /\ [Next]_vars =>
        [\A k \in Live \ DOMAIN entries' :
           k \in Oldest(Live) /\ Cardinality(Live) = MaxSize /\ DOMAIN entries' \ Live # {}]_vars
  BY <1>1
<1>3. Init => TypeOK /\ CacheOK
  BY TypeInit
<1>4. (TypeOK /\ CacheOK) /\ [Next]_vars => (TypeOK /\ CacheOK)'
  BY TypeStep
<1>5. QED
  BY <1>2, <1>3, <1>4, PTL DEF Spec, OnlyOldestEvicted
=============================================================================
