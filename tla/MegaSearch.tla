------------------------------ MODULE MegaSearch ------------------------------
(***************************************************************************)
(* The search endpoints of core/server.go around the response cache: a     *)
(* dedicated endpoint of one engine, and the mega endpoint that asks       *)
(* several, in one of the modes balanced, any and fast.  Balanced is       *)
(* runParallelDetailed of core/resilient.go: one goroutine per engine, a   *)
(* channel with room for all of them, and a collector that leaves at the   *)
(* mega deadline while calls may go on.                                    *)
(*                                                                         *)
(* The clients search for the same thing, so that their keys differ only   *)
(* in the mode, the merge flag and the engines; "dedicated" is the key of  *)
(* BuildCacheKey without the mega prefix.  An answer is kept as the sets   *)
(* of engines in it.  How one engine's search goes is ResilientSearch, how *)
(* its breaker moves CircuitBreaker: here a search ends in any way, and    *)
(* breakers open and stop being open at any time.                          *)
(***************************************************************************)
EXTENDS ResponseCache, Sequences

CONSTANTS
  Engines,        \* Server.searchEngines
  Initialized,    \* those whose IsInitialized holds
  Breakers,       \* the breakers that may open, of an engine and a capability
  Clients,        \* requests served concurrently
  Requests,       \* what they may ask
  AllowFallback   \* ServerOptions.AllowEndpointFallback

Modes == {"balanced", "any", "fast", "dedicated"}
\* cached: JSON without extraction, and not through a proxy of unknown market.
Request == [mode : Modes, engines : Seq(Engines), merge : BOOLEAN, cached : BOOLEAN]

\* resolveEngines skips a name it has seen, but not an alias of one: an engine may repeat.
ASSUME MegaAssumption ==
  /\ Requests \subseteq Request
  /\ \A q \in Requests : q.engines # <<>> /\ (q.mode = "dedicated" => Len(q.engines) = 1)
  /\ Initialized \subseteq Engines /\ Breakers \subseteq Engines \X {"web", "image"}
  /\ AllowFallback \in BOOLEAN

VARIABLES
  open,   \* the breakers that are open
  client  \* what the handler of each request is doing

vars == <<entries, open, client>>

Names(s) == {s[i] : i \in DOMAIN s}
NoRepeats(s) == \A i, j \in DOMAIN s : s[i] = s[j] => i = j
Keys == [mode : Modes, merge : BOOLEAN, engines : SUBSET Engines]
Key(q, E) == [mode |-> q.mode, merge |-> q.merge, engines |-> E]

(* An envelope. asked: engines_requested. responded, failed: those lists of its *)
(* meta. found: the engines that returned results, of which kept are in it.     *)
Envelopes == [asked : {q.engines : q \in Requests}, responded : SUBSET Engines,
              failed : SUBSET Engines, found : SUBSET Engines, kept : SUBSET Engines]
Blank(s) == [asked |-> s, responded |-> {}, failed |-> {}, found |-> {}, kept |-> {}]

Steps == {"lookup", "starting", "collecting", "trying", "racing", "dedicated",
          "merging", "keying", "storing", "answered"}
Idle == [step |-> "idle"]
Outcomes == {"some", "none", "error"}
CallStates == {"unstarted", "running", "collected"} \cup Outcomes

Step(c) == client[c].step
Asked(c) == client[c].ask.engines
\* The calls whose outcome is in resultCh, is out of it, and is still to come.
Sent(c) == {i \in DOMAIN client[c].calls : client[c].calls[i] \in Outcomes}
Collected(c) == {i \in DOMAIN client[c].calls : client[c].calls[i] = "collected"}
Running(c) == {i \in DOMAIN client[c].calls : client[c].calls[i] = "running"}

\* GetCircuitBreakerStats names engines, whichever of their breakers is open.
Shut == {b[1] : b \in open}
\* The engines a web search may call.
Callable == {e \in Initialized : <<e, "web">> \notin open}

Init == entries = NoEntries /\ open = {} /\ client = [c \in Clients |-> Idle]

-----------------------------------------------------------------------------
(* Around the search. *)

\* megaCacheableEngines; a dedicated endpoint does not ask its breaker.
Cacheable(q) == IF q.mode = "dedicated" THEN Names(q.engines) ELSE Names(q.engines) \ Shut

\* The keys under which the request looks for an answer, in this order.
Candidates(q) ==
  LET all == Names(q.engines)
      partial == q.mode = "balanced" /\ Cacheable(q) \notin {{}, all}
  IN IF ~q.cached \/ q.mode = "fast" THEN <<>>
     ELSE IF partial THEN <<Key(q, all), Key(q, Cacheable(q))>> ELSE <<Key(q, all)>>

\* shut is what the handler saw of the breakers when it built its keys.
Arrive(c) ==
  /\ Step(c) = "idle"
  /\ \E q \in Requests :
       client' = [client EXCEPT ![c] =
         [step |-> "lookup", ask |-> q, keys |-> Candidates(q), shut |-> Shut, hit |-> FALSE,
          next |-> 1, calls |-> [i \in DOMAIN q.engines |-> "unstarted"], expired |-> FALSE,
          env |-> Blank(q.engines)]]
  /\ UNCHANGED <<entries, open>>

\* tryServeCacheHit, for one of the keys.
Hit(c) ==
  /\ Step(c) = "lookup" /\ client[c].keys # <<>>
  /\ Head(client[c].keys) \in Live
  /\ client' = [client EXCEPT ![c].step = "answered", ![c].hit = TRUE,
                              ![c].env = entries[Head(client[c].keys)].data]
  /\ Prune
  /\ UNCHANGED open

Miss(c) ==
  /\ Step(c) = "lookup" /\ client[c].keys # <<>>
  /\ Head(client[c].keys) \notin Live
  /\ client' = [client EXCEPT ![c].keys = Tail(@)]
  /\ Prune
  /\ UNCHANGED open

Begin(c) ==
  /\ Step(c) = "lookup" /\ client[c].keys = <<>>
  /\ client' = [client EXCEPT ![c].step = CASE client[c].ask.mode = "balanced" -> "starting"
                                            [] client[c].ask.mode = "any" -> "trying"
                                            [] client[c].ask.mode = "fast" -> "racing"
                                            [] OTHER -> "dedicated"]
  /\ UNCHANGED <<entries, open>>

\* The engine of found that comes first in s.
FirstFound(s, found) ==
  {s[i] : i \in {n \in DOMAIN s : s[n] \in found /\ \A m \in 1 .. n - 1 : s[m] \notin found}}

\* applyMegaMergePolicy, and the error of a request that no engine responded to.
Merge(c) ==
  LET q == client[c].ask
      found == client[c].env.found
  IN /\ Step(c) = "merging"
     /\ client' = [client EXCEPT
          ![c].env.kept = IF q.merge THEN found ELSE FirstFound(q.engines, found),
          ![c].step = IF client[c].env.responded # {} /\ q.cached /\ q.mode # "fast"
                        THEN "keying" ELSE "answered"]
     /\ UNCHANGED <<entries, open>>

\* Broken: a fallback's answer is as good as the engine's own.
StorableMutant(c) == client[c].env.kept # {} /\ Cacheable(client[c].ask) # {}
\* An answer with results, and of the engine itself on a dedicated endpoint.
Storable(c) ==
  /\ client[c].env.kept # {}
  /\ Cacheable(client[c].ask) # {}
  /\ client[c].ask.mode = "dedicated" => client[c].env.responded = Names(Asked(c))

\* cacheMegaEnvelopeResults and cacheEnvelopeIfEligible, up to the key.
PickKey(c) ==
  /\ Step(c) = "keying"
  /\ client' = IF Storable(c)
       THEN [client EXCEPT ![c].step = "storing",
                           ![c].keys = <<Key(client[c].ask, Cacheable(client[c].ask))>>]
       ELSE [client EXCEPT ![c].step = "answered"]
  /\ UNCHANGED <<entries, open>>

\* cacheJSON
Store(c) ==
  /\ Step(c) = "storing"
  /\ Set(Head(client[c].keys), client[c].env)
  /\ client' = [client EXCEPT ![c].step = "answered"]
  /\ UNCHANGED open

\* A handler's place is taken by the next request once none of its calls goes on.
Leave(c) ==
  /\ Step(c) = "answered" /\ Running(c) = {}
  /\ client' = [client EXCEPT ![c] = Idle]
  /\ UNCHANGED <<entries, open>>

-----------------------------------------------------------------------------
(* Searching. *)

\* An engine's outcome in the envelope.
Added(env, e, outcome) ==
  IF outcome = "error" THEN [env EXCEPT !.failed = @ \cup {e}]
  ELSE [env EXCEPT !.responded = @ \cup {e},
                   !.found = IF outcome = "some" THEN @ \cup {e} ELSE @]

\* The deadline of the mega request.
Deadline(c) ==
  /\ Step(c) \in {"starting", "collecting", "trying"} /\ ~client[c].expired
  /\ client' = [client EXCEPT ![c].expired = TRUE]
  /\ UNCHANGED <<entries, open>>

\* The capacity of resultCh.
Room(c) == Len(Asked(c))

\* runParallelDetailed starts one more engine, or notes that it cannot.
StartEngine(c) ==
  LET n == client[c].next
  IN /\ Step(c) = "starting" /\ ~client[c].expired /\ n <= Len(Asked(c))
     /\ Asked(c)[n] \in Callable \/ Cardinality(Sent(c)) < Room(c)
     /\ client' = [client EXCEPT ![c].next = n + 1,
                     ![c].calls[n] = IF Asked(c)[n] \in Callable THEN "running" ELSE "error"]
     /\ UNCHANGED <<entries, open>>

StopStarting(c) ==
  /\ Step(c) = "starting" /\ (client[c].expired \/ client[c].next > Len(Asked(c)))
  /\ client' = [client EXCEPT ![c].step = "collecting"]
  /\ UNCHANGED <<entries, open>>

\* searchWithProtection returns to the goroutine of a call, which sends its outcome.
CallEnds(c) ==
  /\ Step(c) # "idle"
  /\ \E i \in Running(c), outcome \in Outcomes :
       /\ Cardinality(Sent(c)) < Room(c)
       /\ client' = [client EXCEPT ![c].calls[i] = outcome]
  /\ UNCHANGED <<entries, open>>

Collect(c) ==
  /\ Step(c) = "collecting"
  /\ \E i \in Sent(c) :
       client' = [client EXCEPT ![c].calls[i] = "collected",
                                ![c].env = Added(@, Asked(c)[i], client[c].calls[i])]
  /\ UNCHANGED <<entries, open>>

AllCollected(c) ==
  /\ Step(c) = "collecting" /\ Cardinality(Collected(c)) = client[c].next - 1
  /\ client' = [client EXCEPT ![c].step = "merging"]
  /\ UNCHANGED <<entries, open>>

\* Broken: an engine is pending although it has answered.
PendingMutant(c) == Names(Asked(c))
\* pending: by name, those nothing was collected of, started or not.
Pending(c) == Names(Asked(c)) \ {Asked(c)[i] : i \in Collected(c)}

\* Broken: the collector waits for the calls it has started.
CollectorLeavesMutant(c) ==
  /\ Step(c) = "collecting" /\ client[c].expired
  /\ Cardinality(Collected(c)) < client[c].next - 1 /\ Running(c) = {}
  /\ client' = [client EXCEPT ![c].step = "merging", ![c].env.failed = @ \cup Pending(c)]
  /\ UNCHANGED <<entries, open>>
\* The collector does not wait for the others.
CollectorLeaves(c) ==
  /\ Step(c) = "collecting" /\ client[c].expired
  /\ Cardinality(Collected(c)) < client[c].next - 1
  /\ client' = [client EXCEPT ![c].step = "merging", ![c].env.failed = @ \cup Pending(c)]
  /\ UNCHANGED <<entries, open>>

\* searchAnyDetailed tries one more engine, until one has responded.
TryEngine(c) ==
  LET n == client[c].next
      e == Asked(c)[n]
  IN /\ Step(c) = "trying" /\ n <= Len(Asked(c))
     /\ \E outcome \in IF client[c].expired \/ e \notin Callable THEN {"error"}
                                                                ELSE Outcomes :
          client' = [client EXCEPT
            ![c].env = Added(@, e, outcome), ![c].next = n + 1,
            ![c].step = IF client[c].expired \/ outcome # "error" THEN "merging" ELSE @]
     /\ UNCHANGED <<entries, open>>

NoneLeft(c) ==
  /\ Step(c) = "trying" /\ client[c].next > Len(Asked(c))
  /\ client' = [client EXCEPT ![c].step = "merging"]
  /\ UNCHANGED <<entries, open>>

\* searchFastestDetailed: any admitted engine may be the fastest so far.
Race(c) ==
  LET candidates == Names(Asked(c)) \cap Callable
  IN /\ Step(c) = "racing"
     /\ \/ /\ candidates = {}
           /\ client' = [client EXCEPT ![c].step = "merging",
                                       ![c].env.failed = Names(Asked(c))]
        \/ \E e \in candidates, outcome \in Outcomes :
             client' = [client EXCEPT ![c].step = "merging", ![c].env = Added(@, e, outcome)]
     /\ UNCHANGED <<entries, open>>

\* handleDedicatedEndpoint: the engine itself, or another one in its place.
SearchDedicated(c) ==
  LET e == Head(Asked(c))
      others == IF AllowFallback THEN Callable \ {e} ELSE {}
  IN /\ Step(c) = "dedicated"
     /\ \/ \E outcome \in IF e \in Callable THEN Outcomes ELSE {"error"} :
             client' = [client EXCEPT ![c].step = "merging", ![c].env = Added(@, e, outcome)]
        \/ \E u \in others, outcome \in {"some", "none"} :
             client' = [client EXCEPT ![c].step = "merging",
                          ![c].env = Added(Added(@, e, "error"), u, outcome)]
     /\ UNCHANGED <<entries, open>>

-----------------------------------------------------------------------------
\* A breaker is moved, by this search or by any other.
BreakerMoves(b) ==
  /\ open' = IF b \in open THEN open \ {b} ELSE open \cup {b}
  /\ UNCHANGED <<entries, client>>

\* /stats and /stats/cache
Stats == Prune /\ UNCHANGED <<open, client>>

Tick == Age /\ UNCHANGED <<open, client>>

Handle(c) ==
  \/ Hit(c) \/ Miss(c) \/ Begin(c) \/ Merge(c) \/ PickKey(c) \/ Store(c)
  \/ StartEngine(c) \/ StopStarting(c) \/ Collect(c) \/ AllCollected(c) \/ CollectorLeaves(c)
  \/ TryEngine(c) \/ NoneLeft(c) \/ Race(c) \/ SearchDedicated(c)

Next ==
  \/ \E c \in Clients : Arrive(c) \/ Handle(c) \/ Deadline(c) \/ CallEnds(c) \/ Leave(c)
  \/ \E b \in Breakers : BreakerMoves(b)
  \/ Stats \/ Tick

(* The handler goes on by itself, the deadline of a mega request comes, and the  *)
(* searches of the sequential modes and of dedicated endpoints end, which is     *)
(* EveryRequestAnswered of ResilientSearch.  No call of the balanced mode has to. *)
Fairness == \A c \in Clients : WF_vars(Handle(c)) /\ WF_vars(Deadline(c))

Spec == Init /\ [][Next]_vars /\ Fairness

-----------------------------------------------------------------------------
(* Properties. *)

Handler == [step : Steps, ask : Requests, shut : SUBSET Engines, hit : BOOLEAN, next : Nat \ {0},
            expired : BOOLEAN, env : Envelopes,
            keys : Seq(Keys),
            calls : Seq(CallStates)]

\* The cache is within its bound and holds envelopes; a handler has a call per
\* engine, and a key before it stores.
TypeOK ==
  /\ Cardinality(DOMAIN entries) <= MaxSize
  /\ \A k \in DOMAIN entries :
       /\ k \in Keys
       /\ entries[k] \in [data : Envelopes, age : 0 .. TTL]
  /\ open \subseteq Breakers
  /\ client \in [Clients -> {Idle} \cup Handler]
  /\ \A c \in Clients : Step(c) # "idle" => Len(client[c].calls) = Len(Asked(c))
  /\ \A c \in Clients : Step(c) = "storing" => client[c].keys # <<>>

\* Whenever an engine's search returns, even after the collector has left, its
\* goroutine can send the outcome and end.
ReturnedCallsDeliver ==
  \A c \in Clients : Step(c) # "idle" /\ Running(c) # {} => Cardinality(Sent(c)) < Room(c)

\* A balanced answer names every engine whose call was started among those that
\* responded or those that failed, however the deadline falls between the calls,
\* the sends and the collector, and none in both if none is asked twice.
EveryCallAccounted ==
  \A c \in Clients :
    Step(c) \in {"merging", "keying", "storing"} /\ client[c].ask.mode = "balanced" =>
      LET env == client[c].env
          started == {Asked(c)[i] : i \in 1 .. client[c].next - 1}
      IN /\ started \subseteq env.responded \cup env.failed
         /\ NoRepeats(Asked(c)) => env.responded \cap env.failed = {}

\* An engine that was asked and that an answer from the cache says nothing of had
\* an open breaker when the request came in.
HitsCoverRequest ==
  \A c \in Clients :
    Step(c) = "answered" /\ client[c].hit =>
      Names(Asked(c)) \ Names(client[c].env.asked) \subseteq client[c].shut

\* Answers of another engine are never served from the cache of a dedicated
\* endpoint, so that its own engine can recover.
DedicatedHitsPure ==
  \A c \in Clients :
    Step(c) = "answered" /\ client[c].hit /\ client[c].ask.mode = "dedicated" =>
      client[c].env.kept = Names(Asked(c))

\* What the cache answers fits the request.
HitsFit == HitsCoverRequest /\ DedicatedHitsPure

\* An entry that is still valid leaves the cache only for a key that is new, and
\* only if none of the entries is older.
OnlyOldestEvicted ==
  [][\A k \in Live \ DOMAIN entries' :
       k \in Oldest(Live) /\ Cardinality(Live) = MaxSize /\ DOMAIN entries' \ Live # {}]_vars

\* Every request is answered, by its deadline if engines never return.
EveryRequestAnswered == \A c \in Clients : Step(c) = "lookup" ~> Step(c) = "answered"

\* docs/openapi.yaml: merge=false keeps the first requested engine that returned results.
FirstRequestedKept ==
  \A c \in Clients :
    Step(c) = "answered" /\ ~client[c].ask.merge =>
      client[c].env.kept \subseteq FirstFound(Asked(c), client[c].env.found)

\* docs/openapi.yaml: the engines parameter selects the engines that are queried.
OnlyRequestedAnswer ==
  \A c \in Clients : Step(c) = "answered" => client[c].env.kept \subseteq Names(Asked(c))
=============================================================================
