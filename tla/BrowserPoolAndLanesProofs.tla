-------------------- MODULE BrowserPoolAndLanesProofs --------------------
(***************************************************************************)
(* Theorems of BrowserPool, for every set of requests and of keys, every   *)
(* limit and any number of launches, and of ProxyLanes, for every set of   *)
(* lanes, pages and profiles and every size of the store. Both keep their  *)
(* entries in the order of their last use and evict the least recent one:  *)
(* the lemmas on Recency serve both.                                       *)
(***************************************************************************)
EXTENDS BrowserPool, ProxyLanesHistory, FiniteSetTheorems, SequenceTheorems, TLAPS

-----------------------------------------------------------------------------
(* The order of the last uses. *)

LEMMA TouchedOrders ==
  ASSUME NEW K, NEW R, NEW k, Orders(R, K)
  PROVE  Orders(Touched(R, K, k), K \cup {k})
<1> DEFINE T == Touched(R, K, k)
           all == K \cup {k}
<1>1. /\ T \subseteq all \X all
      /\ \A i, j \in all : i = j \/ <<i, j>> \in T \/ <<j, i>> \in T
      /\ \A i, j \in all : <<i, j>> \in T => <<j, i>> \notin T
      /\ \A h, i, j \in all : <<h, i>> \in T /\ <<i, j>> \in T => <<h, j>> \in T
  BY DEF Orders, Touched
<1>2. ASSUME NEW G \in SUBSET all, G # {} PROVE Oldest(G, T) # {}
  <2>1. CASE G \subseteq {k}
    BY <1>2, <2>1 DEF Oldest, Touched
  <2>2. CASE G \ {k} # {}
    <3>1. PICK i \in G \ {k} : \A j \in G \ {k} : <<j, i>> \notin R
      <4>1. G \ {k} \in SUBSET K /\ G \ {k} # {}
        BY <2>2
      <4>2. Oldest(G \ {k}, R) # {}
        BY <4>1 DEF Orders
      <4>3. QED
        BY <4>2 DEF Oldest
    <3>2. \A j \in G : <<j, i>> \notin T
      BY <3>1 DEF Touched
    <3>3. QED
      BY <3>1, <3>2 DEF Oldest
  <2>3. QED
    BY <2>1, <2>2
<1>3. QED
  BY <1>1, <1>2 DEF Orders

LEMMA SubOrder ==
  ASSUME NEW K, NEW R, NEW G, Orders(R, K)
  PROVE  Orders(Without(R, G), K \ G)
<1>1. \A H \in SUBSET (K \ G) : H # {} => Oldest(H, Without(R, G)) # {}
  BY DEF Orders, Oldest, Without
<1>2. QED
  BY <1>1 DEF Orders, Without

\* A map that has held at most n keys holds at most n again once a key is used
\* and, if there is one too many, the oldest is deleted. The key used stays.
LEMMA OldestMakesRoom ==
  ASSUME NEW K, NEW R, NEW k, NEW n \in Nat \ {0},
         IsFiniteSet(K), Cardinality(K) <= n, Orders(R, K)
  PROVE  LET all == K \cup {k}
             gone == IF Cardinality(all) > n THEN Oldest(all, Touched(R, K, k)) ELSE {}
         IN IsFiniteSet(all \ gone) /\ Cardinality(all \ gone) <= n /\ k \notin gone
<1> DEFINE all == K \cup {k}
           gone == IF Cardinality(all) > n THEN Oldest(all, Touched(R, K, k)) ELSE {}
<1>1. IsFiniteSet(all) /\ Cardinality(all) <= n + 1 /\ Cardinality(all) \in Nat
  <2>1. IsFiniteSet(all) /\ Cardinality(all) = IF k \in K THEN Cardinality(K) ELSE Cardinality(K) + 1
    BY FS_AddElement
  <2>2. Cardinality(K) \in Nat
    BY FS_CardinalityType
  <2>3. QED
    BY <2>1, <2>2
<1>2. CASE Cardinality(all) <= n
  <2>1. gone = {}
    BY <1>1, <1>2
  <2>2. all \ gone = all
    BY <2>1
  <2>3. QED
    BY <1>1, <1>2, <2>1, <2>2
<1>3. CASE Cardinality(all) > n
  <2>1. gone = Oldest(all, Touched(R, K, k))
    BY <1>3
  <2>2. PICK j \in gone : j \in all
    <3>1. all # {} /\ Orders(Touched(R, K, k), all)
      BY TouchedOrders
    <3> HIDE DEF all
    <3>2. Oldest(all, Touched(R, K, k)) # {}
      BY <1>1, <3>1 DEF Orders
    <3>3. QED
      BY <2>1, <3>2 DEF Oldest
  <2>3. IsFiniteSet(all \ {j}) /\ Cardinality(all \ {j}) = Cardinality(all) - 1
    BY <1>1, <2>2, FS_RemoveElement
  <2>4. all \ gone \subseteq all \ {j}
    BY <2>2
  <2>5. IsFiniteSet(all \ gone) /\ Cardinality(all \ gone) <= Cardinality(all \ {j})
    BY <2>3, <2>4, FS_Subset
  <2>6. Cardinality(all \ gone) \in Nat
    BY <2>5, FS_CardinalityType
  <2>7. k \notin gone
    <3>1. K \ {k} # {}
      <4> SUFFICES ASSUME K \ {k} = {} PROVE FALSE
        OBVIOUS
      <4>1. all = {} \cup {k}
        OBVIOUS
      <4>2. Cardinality({} \cup {k}) = 0 + 1
        BY FS_EmptySet, FS_AddElement
      <4>3. QED
        BY <1>3, <4>1, <4>2
    <3>2. PICK i \in K : <<i, k>> \in Touched(R, K, k)
      BY <3>1 DEF Touched
    <3>3. QED
      BY <2>1, <3>2 DEF Oldest
  <2>8. QED
    BY <1>1, <2>3, <2>5, <2>6, <2>7
<1>4. QED
  BY <1>1, <1>2, <1>3

-----------------------------------------------------------------------------
(* The pool: what its steps do to the Chromes. *)

\* A Chrome changes its state and nothing else.
ChromeBecomes(c, state) == chrome' = [chrome EXCEPT ![c].state = state]

LEMMA BecomesFacts ==
  ASSUME TypeOK, NEW c \in Chromes, NEW state \in {"live", "dead", "left"},
         ChromeBecomes(c, state)
  PROVE  /\ chrome' \in Seq(Processes) /\ Chromes' = Chromes
         /\ chrome'[c].state = state
         /\ \A d \in Chromes : chrome'[d].key = chrome[d].key
         /\ \A d \in Chromes : d # c => chrome'[d] = chrome[d]
<1>1. chrome \in Seq(Processes) /\ c \in 1 .. Len(chrome) /\ Chromes = 1 .. Len(chrome)
  BY DEF TypeOK, Chromes
<1>2. chrome[c] \in Processes
  BY <1>1
<1> DEFINE e == [chrome[c] EXCEPT !.state = state]
<1>3. e \in Processes /\ e.state = state /\ e.key = chrome[c].key
  BY <1>2 DEF Processes
<1>4. chrome' = [chrome EXCEPT ![c] = e]
  BY DEF ChromeBecomes
<1> HIDE DEF e
<1>5. /\ chrome' \in Seq(Processes) /\ Len(chrome') = Len(chrome)
      /\ \A j \in 1 .. Len(chrome) : chrome'[j] = IF j = c THEN e ELSE chrome[j]
  BY <1>1, <1>3, <1>4, ExceptSeq
<1>6. Chromes' = 1 .. Len(chrome)
  BY <1>5 DEF Chromes
<1>7. QED
  BY <1>1, <1>3, <1>5, <1>6

LEMMA LaunchFacts ==
  ASSUME TypeOK, NEW k \in Keys, chrome' = Append(chrome, [key |-> k, state |-> "live"])
  PROVE  LET c == Len(chrome) + 1 IN
         /\ chrome' \in Seq(Processes)
         /\ c \notin Chromes /\ c # NoChrome /\ Chromes' = Chromes \cup {c}
         /\ chrome'[c].key = k /\ chrome'[c].state = "live"
         /\ \A d \in Chromes : chrome'[d] = chrome[d]
<1> DEFINE e == [key |-> k, state |-> "live"]
<1>1. chrome \in Seq(Processes) /\ Len(chrome) \in Nat /\ Chromes = 1 .. Len(chrome)
  BY DEF TypeOK, Chromes
<1>2. e \in Processes /\ e.key = k /\ e.state = "live"
  BY DEF Processes
<1> HIDE DEF e
<1>3. /\ chrome' \in Seq(Processes) /\ Len(chrome') = Len(chrome) + 1
      /\ \A i \in 1 .. Len(chrome) : chrome'[i] = chrome[i]
      /\ chrome'[Len(chrome) + 1] = e
  BY <1>1, <1>2, AppendProperties DEF e
<1>4. Chromes' = 1 .. Len(chrome) + 1
  BY <1>3 DEF Chromes
<1>5. QED
  BY <1>1, <1>2, <1>3, <1>4 DEF NoChrome

LEMMA ChromesAreNumbers ==
  ASSUME TypeOK
  PROVE  NoChrome \notin Chromes /\ Pooled \subseteq Chromes
BY DEF TypeOK, Chromes, NoChrome, Pooled

\* After a launch the pool is within its limit, and keeps the entry it has stored.
LEMMA EvictionFacts ==
  ASSUME TypeOK, NEW k
  PROVE  LET gone == Evicted(kept \cup {k}, Touched(before, kept, k))
         IN /\ IsFiniteSet((kept \cup {k}) \ gone)
            /\ Cardinality((kept \cup {k}) \ gone) <= MaxProcesses
            /\ k \notin gone
<1>1. IsFiniteSet(kept) /\ Cardinality(kept) <= MaxProcesses /\ Orders(before, kept)
  BY DEF TypeOK
<1>2. MaxProcesses \in Nat \ {0}
  BY PoolAssumption
<1>3. QED
  BY <1>1, <1>2, OldestMakesRoom DEF Evicted

-----------------------------------------------------------------------------
(* The pool: types. *)

LEMMA LaunchTypes ==
  ASSUME TypeOK, NEW r \in Requests, NEW k \in Keys, GetLaunched(r, k)
  PROVE  TypeOK'
<1> DEFINE c == Len(chrome) + 1
           gone == Evicted(kept \cup {k}, Touched(before, kept, k))
<1> USE DEF TypeOK
<1>1. /\ chrome' = Append(chrome, [key |-> k, state |-> "live"])
      /\ kept' = (kept \cup {k}) \ gone
      /\ before' = Without(Touched(before, kept, k), gone)
      /\ entry' = [j \in Keys |-> IF j \in gone THEN NoChrome ELSE IF j = k THEN c ELSE entry[j]]
      /\ closing' = closing \cup ({IF j = k THEN c ELSE entry[j] : j \in gone} \ {NoChrome})
      /\ idle' = idle \ (gone \cup {k})
      /\ req' = [req EXCEPT ![r] = Holding(k, c)]
      /\ UNCHANGED shutdown
  BY DEF GetLaunched
<1>2. /\ chrome' \in Seq(Processes) /\ Chromes' = Chromes \cup {c}
  <2> HIDE DEF TypeOK
  <2>1. chrome' = Append(chrome, [key |-> k, state |-> "live"])
    BY <1>1
  <2>2. QED
    BY <2>1, LaunchFacts
<1>3. kept' \subseteq Keys /\ IsFiniteSet(kept') /\ Cardinality(kept') <= MaxProcesses
  <2>1. kept \subseteq Keys
    OBVIOUS
  <2> HIDE DEF TypeOK
  <2>2. IsFiniteSet((kept \cup {k}) \ gone) /\ Cardinality((kept \cup {k}) \ gone) <= MaxProcesses
    BY EvictionFacts
  <2>3. kept' = (kept \cup {k}) \ gone
    BY <1>1
  <2> HIDE DEF gone
  <2>4. QED
    BY <2>1, <2>2, <2>3
<1>4. Orders(before', kept')
  <2>1. Orders(Touched(before, kept, k), kept \cup {k})
    BY TouchedOrders
  <2>2. QED
    BY <1>1, <2>1, SubOrder
<1>5. gone \subseteq kept \cup {k}
  BY DEF Evicted, Oldest
<1> HIDE DEF c, gone
<1>6. entry' \in [Keys -> Chromes' \cup {NoChrome}]
  BY <1>1, <1>2
<1>7. \A j \in Keys \ kept' : entry'[j] = NoChrome
  BY <1>1
<1>8. idle' \subseteq kept'
  BY <1>1
<1>9. closing' \subseteq Chromes' /\ taken' \subseteq Chromes'
  BY <1>1, <1>2, <1>5 DEF shutdown
<1>10. req' \in [Requests -> {Away} \cup {Asking(j) : j \in Keys}
                          \cup {Holding(j, d) : j \in Keys, d \in Chromes'}]
  <2>1. Holding(k, c) \in {Holding(j, d) : j \in Keys, d \in Chromes'}
    BY <1>2
  <2>2. {Holding(j, d) : j \in Keys, d \in Chromes} \subseteq
          {Holding(j, d) : j \in Keys, d \in Chromes'}
    BY <1>2
  <2>3. req \in [Requests -> {Away} \cup {Asking(j) : j \in Keys}
                        \cup {Holding(j, d) : j \in Keys, d \in Chromes}]
    OBVIOUS
  <2>4. req' = [req EXCEPT ![r] = Holding(k, c)]
    BY <1>1
  <2> HIDE DEF TypeOK
  <2>5. QED
    BY <2>1, <2>2, <2>3, <2>4
<1>11. QED
  BY <1>1, <1>2, <1>3, <1>4, <1>6, <1>7, <1>8, <1>9, <1>10 DEF shutdown

LEMMA SweepTypes == ASSUME TypeOK, Sweep PROVE TypeOK'
<1> DEFINE gone == {k \in idle : entry[k] # NoChrome}
<1> USE DEF TypeOK
<1>1. /\ kept' = kept \ gone
      /\ before' = Without(before, gone)
      /\ entry' = [k \in Keys |-> IF k \in gone THEN NoChrome ELSE entry[k]]
      /\ closing' = closing \cup ({entry[k] : k \in gone} \ {NoChrome})
      /\ idle' = idle \ gone
      /\ UNCHANGED <<chrome, req, shutdown>>
  BY DEF Sweep, Leave
<1>2. gone \subseteq Keys
  OBVIOUS
<1> HIDE DEF gone
<1>3. IsFiniteSet(kept') /\ Cardinality(kept') <= MaxProcesses
  <2>1. IsFiniteSet(kept') /\ Cardinality(kept') <= Cardinality(kept)
    BY <1>1, FS_Subset
  <2>2. Cardinality(kept) \in Nat /\ Cardinality(kept') \in Nat
    BY <2>1, FS_CardinalityType
  <2>3. QED
    BY <2>1, <2>2, PoolAssumption
<1>4. Orders(before', kept')
  <2>1. Orders(Without(before, gone), kept \ gone)
    <3>1. Orders(before, kept)
      OBVIOUS
    <3>2. QED
      BY <3>1, SubOrder, Zenon
  <2>2. QED
    BY <1>1, <2>1
<1>5. Chromes' = Chromes
  BY <1>1 DEF Chromes
<1>6. QED
  BY <1>1, <1>2, <1>3, <1>4, <1>5 DEF shutdown

LEMMA TypeStep == TypeOK /\ [Next]_vars => TypeOK'
<1> SUFFICES ASSUME TypeOK, [Next]_vars PROVE TypeOK'
  OBVIOUS
<1> USE DEF TypeOK
<1>1. ASSUME chrome' = chrome PROVE Chromes' = Chromes
  BY <1>1 DEF Chromes
<1>2. ASSUME NEW r \in Requests, NEW k \in Keys, Arrive(r, k) PROVE TypeOK'
  BY <1>1, <1>2 DEF Arrive, pool, shutdown
<1>3. ASSUME NEW r \in Requests, NEW k \in Keys, GetPooled(r, k) PROVE TypeOK'
  <2>1. k \in kept /\ entry[k] \in Chromes
    BY <1>3 DEF GetPooled
  <2>2. Orders(before', kept')
    <3>1. Orders(Touched(before, kept, k), kept \cup {k}) /\ kept \cup {k} = kept
      BY <2>1, TouchedOrders
    <3>2. QED
      BY <1>3, <3>1 DEF GetPooled
  <2>3. QED
    BY <1>1, <1>3, <2>1, <2>2 DEF GetPooled, shutdown
<1>4. ASSUME NEW r \in Requests, NEW k \in Keys, GetLaunched(r, k) PROVE TypeOK'
  BY <1>4, LaunchTypes
<1>5. ASSUME NEW r \in Requests, NEW k \in Keys, GetFails(r, k) PROVE TypeOK'
  BY <1>1, <1>5 DEF GetFails, AfterFailure, Continues, pool, shutdown
<1>6. ASSUME NEW r \in Requests, Answer(r) \/ CallFails(r) PROVE TypeOK'
  <2>1. CASE Answer(r)
    BY <1>1, <2>1 DEF Answer, Continues, pool, shutdown
  <2>2. CASE CallFails(r)
    BY <1>1, <2>2 DEF CallFails, AfterFailure, Continues, pool, shutdown
  <2>3. QED
    BY <1>6, <2>1, <2>2
<1>7. ASSUME NEW c \in Chromes, CloserStep(c) \/ Crash(c) PROVE TypeOK'
  <2>1. ChromeBecomes(c, "dead") \/ ChromeBecomes(c, "left")
    <3> HIDE DEF TypeOK
    <3> QED
      BY <1>7 DEF CloserStep, CloseEvicted, CloseEvictedFails, CloseTaken, CloseTakenFails,
                  Crash, ChromeBecomes
  <2>2. chrome' \in Seq(Processes) /\ Chromes' = Chromes
    BY <2>1, BecomesFacts
  <2>3. /\ UNCHANGED <<pool, req, phase, sweeping, callsLeft>>
        /\ closing' \subseteq closing /\ taken' \subseteq taken
        /\ shutdownErr' = shutdownErr \/ shutdownErr' = TRUE
    <3> HIDE DEF TypeOK
    <3>1. CASE CloseEvicted(c) \/ CloseEvictedFails(c) \/ Crash(c)
      BY <3>1 DEF CloseEvicted, CloseEvictedFails, Crash, shutdown
    <3>2. CASE CloseTaken(c) \/ CloseTakenFails(c)
      BY <3>2 DEF CloseTaken, CloseTakenFails
    <3>3. QED
      BY <1>7, <3>1, <3>2 DEF CloserStep
  <2>4. shutdownErr' \in BOOLEAN
    <3>1. CASE shutdownErr' = shutdownErr
      BY <3>1
    <3>2. CASE shutdownErr' = TRUE
      BY <3>2
    <3>3. QED
      BY <2>3, <3>1, <3>2
  <2>5. QED
    BY <2>2, <2>3, <2>4 DEF pool
<1>8. CASE Age
  BY <1>1, <1>8 DEF Age, shutdown
<1>9. CASE Sweep
  BY <1>9, SweepTypes
<1>10. CASE Signal \/ Drained \/ SweeperStops \/ Exit
  <2>1. UNCHANGED <<chrome, pool, closing, req, taken>>
    <3> HIDE DEF TypeOK
    <3> QED
      BY <1>10 DEF Signal, Drained, SweeperStops, Exit
  <2>2. /\ phase' \in Phases /\ sweeping' \in BOOLEAN
        /\ callsLeft' \in BOOLEAN /\ shutdownErr' \in BOOLEAN
    <3>1. CASE Signal
      BY <3>1 DEF Signal, Phases
    <3>2. CASE Drained
      BY <3>2 DEF Drained, Phases
    <3>3. CASE SweeperStops
      <4>1. phase' = phase /\ shutdownErr' = shutdownErr /\ callsLeft' = callsLeft
        BY <3>3 DEF SweeperStops
      <4>2. sweeping' \in BOOLEAN
        BY <3>3 DEF SweeperStops
      <4>3. QED
        BY <4>1, <4>2
    <3>4. CASE Exit
      BY <3>4 DEF Exit, Phases
    <3>5. QED
      BY <1>10, <3>1, <3>2, <3>3, <3>4
  <2>3. QED
    BY <1>1, <2>1, <2>2 DEF pool
<1>11. CASE TakeEntries
  <2>1. IsFiniteSet({}) /\ Cardinality({}) <= MaxProcesses
    BY FS_EmptySet, PoolAssumption
  <2>2. QED
    BY <1>1, <1>11, <2>1, ChromesAreNumbers DEF TakeEntries, Orders, Phases
<1>12. CASE UNCHANGED vars
  BY <1>1, <1>12 DEF vars, pool, shutdown
<1>13. QED
  BY <1>2, <1>3, <1>4, <1>5, <1>6, <1>7, <1>8, <1>9, <1>10, <1>11, <1>12 DEF Next

\* Type correctness; in particular the pool never outgrows its limit.
THEOREM TypeCorrect == Spec => []TypeOK
<1>1. Init => TypeOK
  <2>1. Orders({}, PreBound)
    <3>1. ASSUME NEW j \in PreBound, NEW k \in PreBound, j # k PROVE FALSE
      <4>1. IsFiniteSet({j}) /\ Cardinality({j}) = 1
        <5>1. {j} = {} \cup {j}
          OBVIOUS
        <5>2. QED
          BY <5>1, FS_EmptySet, FS_AddElement
      <4>2. Cardinality({j} \cup {k}) = 2
        BY <3>1, <4>1, FS_AddElement
      <4>3. {j} \cup {k} \subseteq PreBound
        OBVIOUS
      <4>4. Cardinality({j} \cup {k}) <= Cardinality(PreBound)
        BY <4>3, FS_Subset, PoolAssumption
      <4>5. Cardinality(PreBound) \in Nat /\ Cardinality(PreBound) <= 1
        BY FS_CardinalityType, PoolAssumption
      <4>6. QED
        BY <4>2, <4>4, <4>5
    <3>2. \A G \in SUBSET PreBound : G # {} => Oldest(G, {}) # {}
      BY DEF Oldest
    <3>3. QED
      BY <3>1, <3>2 DEF Orders
  <2>2. Cardinality(PreBound) <= MaxProcesses
    BY FS_CardinalityType, PoolAssumption
  <2>3. QED
    <3> SUFFICES ASSUME Init PROVE TypeOK
      OBVIOUS
    <3>1. chrome \in Seq(Processes) /\ closing \subseteq Chromes /\ taken \subseteq Chromes
      BY DEF Init, Chromes
    <3>2. kept \subseteq Keys /\ IsFiniteSet(kept) /\ Cardinality(kept) <= MaxProcesses
      BY <2>2, PoolAssumption DEF Init
    <3>3. Orders(before, kept)
      BY <2>1 DEF Init
    <3>4. sweeping \in BOOLEAN /\ callsLeft \in BOOLEAN /\ shutdownErr \in BOOLEAN
      BY Zenon DEF Init
    <3>5. /\ entry \in [Keys -> Chromes \cup {NoChrome}] /\ phase \in Phases
          /\ \A k \in Keys \ kept : entry[k] = NoChrome
          /\ idle \subseteq kept
      BY DEF Init, Phases
    <3>6. req \in [Requests -> {Away} \cup {Asking(k) : k \in Keys}
                          \cup {Holding(k, c) : k \in Keys, c \in Chromes}]
      BY DEF Init
    <3>7. QED
      BY <3>1, <3>2, <3>3, <3>4, <3>5, <3>6 DEF TypeOK
<1>2. QED
  BY <1>1, TypeStep, PTL DEF Spec

-----------------------------------------------------------------------------
(* Owners. A Chrome enters the pool when it is launched and leaves it for     *)
(* closing or, once the phase is closing, for taken.                          *)

TakenWhenClosing == phase # "closing" => taken = {}

OwnerInv == EveryChromeHasOneOwner /\ TakenWhenClosing

\* Most steps leave the Chromes where they are.
StaysPut == UNCHANGED <<chrome, kept, entry, closing, taken>>

LEMMA StepKinds ==
  ASSUME TypeOK, [Next]_vars
  PROVE  \/ StaysPut /\ (phase' = "closing" <=> phase = "closing")
         \/ StaysPut /\ Exit
         \/ \E r \in Requests, k \in Keys : GetLaunched(r, k)
         \/ \E c \in Chromes : CloserStep(c) \/ Crash(c)
         \/ Sweep \/ TakeEntries
<1>1. ASSUME NEW r \in Requests, NEW k \in Keys,
             Arrive(r, k) \/ GetPooled(r, k) \/ GetFails(r, k)
      PROVE  StaysPut /\ phase' = phase
  BY <1>1 DEF Arrive, GetPooled, GetFails, StaysPut, pool, shutdown
<1>2. ASSUME NEW r \in Requests, Answer(r) \/ CallFails(r)
      PROVE  StaysPut /\ phase' = phase
  BY <1>2 DEF Answer, CallFails, StaysPut, pool, shutdown
<1>3. ASSUME Age PROVE StaysPut /\ phase' = phase
  BY <1>3 DEF Age, StaysPut, shutdown
<1>4. ASSUME Signal \/ Drained \/ SweeperStops
      PROVE  StaysPut /\ phase' # "closing" /\ phase # "closing"
  BY <1>4 DEF Signal, Drained, SweeperStops, StaysPut, pool
<1>5. ASSUME Exit PROVE StaysPut
  BY <1>5 DEF Exit, StaysPut, pool
<1>6. ASSUME UNCHANGED vars PROVE StaysPut /\ phase' = phase
  BY <1>6 DEF vars, StaysPut, pool, shutdown
<1>7. QED
  BY <1>1, <1>2, <1>3, <1>4, <1>5, <1>6 DEF Next

\* What a launch does to the pool, the new Chrome being kept.
LEMMA LaunchOwners ==
  ASSUME TypeOK, NEW r \in Requests, NEW k \in Keys, GetLaunched(r, k)
  PROVE  LET c == Len(chrome) + 1
             gone == Evicted(kept \cup {k}, Touched(before, kept, k))
         IN /\ c \notin Chromes /\ c # NoChrome /\ Chromes' = Chromes \cup {c}
            /\ chrome'[c].key = k
            /\ \A d \in Chromes : chrome'[d] = chrome[d]
            /\ k \notin gone /\ k \in kept' /\ gone \subseteq kept \cup {k}
            /\ kept' = (kept \cup {k}) \ gone
            /\ entry'[k] = c
            /\ \A j \in Keys \ {k} : j \notin gone => entry'[j] = entry[j]
            /\ closing' = closing \cup ({entry[j] : j \in gone} \ {NoChrome})
            /\ taken' = taken /\ phase' = phase
            /\ callsLeft' = callsLeft /\ shutdownErr' = shutdownErr
            /\ req' = [req EXCEPT ![r] = Holding(k, c)]
<1> DEFINE c == Len(chrome) + 1
           gone == Evicted(kept \cup {k}, Touched(before, kept, k))
<1>1. /\ chrome' = Append(chrome, [key |-> k, state |-> "live"])
      /\ kept' = (kept \cup {k}) \ gone
      /\ entry' = [j \in Keys |-> IF j \in gone THEN NoChrome ELSE IF j = k THEN c ELSE entry[j]]
      /\ closing' = closing \cup ({IF j = k THEN c ELSE entry[j] : j \in gone} \ {NoChrome})
      /\ req' = [req EXCEPT ![r] = Holding(k, c)]
      /\ taken' = taken /\ phase' = phase
      /\ callsLeft' = callsLeft /\ shutdownErr' = shutdownErr
  BY DEF GetLaunched, shutdown
<1>2. /\ c \notin Chromes /\ c # NoChrome /\ Chromes' = Chromes \cup {c}
      /\ chrome'[c].key = k
      /\ \A d \in Chromes : chrome'[d] = chrome[d]
  BY <1>1, LaunchFacts
<1>3. k \notin gone
  BY EvictionFacts
<1>4. gone \subseteq kept \cup {k}
  BY DEF Evicted, Oldest
<1> HIDE DEF gone, c
<1>5. {IF j = k THEN c ELSE entry[j] : j \in gone} = {entry[j] : j \in gone}
  BY <1>3
<1>6. QED
  BY <1>1, <1>2, <1>3, <1>4, <1>5 DEF c, gone

LEMMA OwnerStep ==
  ASSUME TypeOK, OwnerInv, [Next]_vars
  PROVE  OwnerInv'
<1> USE DEF OwnerInv, EveryChromeHasOneOwner, TakenWhenClosing
<1>1. CASE StaysPut /\ (phase' = "closing" <=> phase = "closing")
  BY <1>1 DEF StaysPut, Pooled, Chromes, Running
<1>2. CASE StaysPut /\ Exit
  BY <1>2 DEF StaysPut, Exit, Pooled, Chromes, Running
<1>3. ASSUME NEW r \in Requests, NEW k \in Keys, GetLaunched(r, k) PROVE OwnerInv'
  <2> DEFINE c == Len(chrome) + 1
             gone == Evicted(kept \cup {k}, Touched(before, kept, k))
             evicted == {entry[j] : j \in gone} \ {NoChrome}
  <2>1. /\ c \notin Chromes /\ c # NoChrome /\ Chromes' = Chromes \cup {c}
        /\ \A d \in Chromes : chrome'[d] = chrome[d]
        /\ k \notin gone /\ k \in kept' /\ gone \subseteq kept \cup {k}
        /\ kept' = (kept \cup {k}) \ gone
        /\ entry'[k] = c
        /\ \A j \in Keys \ {k} : j \notin gone => entry'[j] = entry[j]
        /\ closing' = closing \cup evicted
        /\ taken' = taken /\ phase' = phase
    BY <1>3, LaunchOwners
  <2>2. kept \subseteq Keys /\ entry[k] = NoChrome
    BY <1>3 DEF GetLaunched, TypeOK
  <2> HIDE DEF c, gone
  <2>3. evicted \subseteq Pooled
    BY <2>1, <2>2 DEF Pooled
  <2>4. Pooled' = (Pooled \ evicted) \cup {c}
    <3>1. \A j \in kept' \ {k} : entry'[j] = entry[j] /\ j \in kept
      BY <2>1, <2>2
    <3>2. \A j \in kept' \ {k} : entry[j] # NoChrome => entry[j] \notin evicted
      BY <2>1, <2>2
    <3>3. Pooled' \subseteq (Pooled \ evicted) \cup {c}
      BY <2>1, <3>1, <3>2 DEF Pooled
    <3>4. (Pooled \ evicted) \cup {c} \subseteq Pooled'
      BY <2>1, <2>2, <3>1 DEF Pooled
    <3>5. QED
      BY <3>3, <3>4
  <2>5. Pooled \subseteq Chromes /\ closing \subseteq Chromes /\ taken \subseteq Chromes
    BY ChromesAreNumbers DEF TypeOK
  <2>6. ASSUME NEW d \in Chromes', Running(d)'
        PROVE  d \in (Pooled \cup closing \cup taken)' \/ chrome'[d].state = "left"
    BY <2>1, <2>4, <2>6 DEF Running
  <2>7. /\ Pooled' \cap closing' = {} /\ Pooled' \cap taken' = {}
        /\ closing' \cap taken' = {}
    BY <2>1, <2>3, <2>4, <2>5
  <2>8. ASSUME NEW i \in kept', NEW j \in kept', entry'[i] = entry'[j], entry'[i] # NoChrome
        PROVE  i = j
    <3>1. \A x \in kept' \ {k} : entry'[x] = entry[x] /\ x \in kept /\ entry[x] # c
      <4>1. \A x \in kept : entry[x] # c
        BY <2>1, <2>2 DEF TypeOK
      <4>2. QED
        BY <2>1, <2>2, <4>1
    <3>2. QED
      BY <2>1, <2>8, <3>1
  <2>9. QED
    BY <2>1, <2>6, <2>7, <2>8
<1>4. ASSUME NEW c \in Chromes, CloserStep(c) \/ Crash(c) PROVE OwnerInv'
  <2>1. Pooled' = Pooled /\ phase' = phase /\ kept' = kept /\ entry' = entry
    BY <1>4 DEF CloserStep, CloseEvicted, CloseEvictedFails, CloseTaken, CloseTakenFails,
                Crash, Pooled, pool, shutdown
  <2>2. /\ closing' = closing \/ closing' = closing \ {c}
        /\ taken' = taken \/ taken' = taken \ {c}
    BY <1>4 DEF CloserStep, CloseEvicted, CloseEvictedFails, CloseTaken, CloseTakenFails,
                Crash, shutdown
  <2>3. ChromeBecomes(c, "dead") \/ ChromeBecomes(c, "left")
    BY <1>4 DEF CloserStep, CloseEvicted, CloseEvictedFails, CloseTaken, CloseTakenFails,
                Crash, ChromeBecomes
  <2>4. /\ Chromes' = Chromes /\ chrome'[c].state \in {"dead", "left"}
        /\ \A d \in Chromes : d # c => chrome'[d] = chrome[d]
    BY <2>3, BecomesFacts
  <2>5. ASSUME NEW d \in Chromes', Running(d)'
        PROVE  d \in (Pooled \cup closing \cup taken)' \/ chrome'[d].state = "left"
    BY <2>1, <2>2, <2>4, <2>5 DEF Running
  <2>6. QED
    BY <2>1, <2>2, <2>5
<1>5. CASE Sweep
  <2> DEFINE gone == {k \in idle : entry[k] # NoChrome}
             evicted == {entry[k] : k \in gone} \ {NoChrome}
  <2>1. /\ kept' = kept \ gone
        /\ entry' = [k \in Keys |-> IF k \in gone THEN NoChrome ELSE entry[k]]
        /\ closing' = closing \cup evicted
        /\ UNCHANGED <<chrome, taken, phase>>
    BY <1>5 DEF Sweep, Leave, shutdown
  <2>2. kept \subseteq Keys /\ gone \subseteq kept
    BY DEF TypeOK
  <2> HIDE DEF gone
  <2>3. \A j \in kept' : j \in kept /\ entry'[j] = entry[j]
    BY <2>1, <2>2
  <2>4. evicted \subseteq Pooled
    BY <2>2 DEF Pooled
  <2>5. \A j \in kept' : entry[j] # NoChrome => entry[j] \notin evicted
    BY <2>1, <2>2
  <2>6. Pooled' = Pooled \ evicted
    <3>1. Pooled' \subseteq Pooled \ evicted
      BY <2>3, <2>5 DEF Pooled
    <3>2. Pooled \ evicted \subseteq Pooled'
      BY <2>1, <2>2, <2>3 DEF Pooled
    <3>3. QED
      BY <3>1, <3>2
  <2> HIDE DEF evicted
  <2>7. Chromes' = Chromes /\ \A d \in Chromes : Running(d)' <=> Running(d)
    BY <2>1 DEF Chromes, Running
  <2>8. QED
    BY <2>1, <2>3, <2>4, <2>6, <2>7
<1>6. CASE TakeEntries
  <2>1. /\ taken = {} /\ taken' = Pooled /\ Pooled' = {} /\ phase' = "closing"
        /\ kept' = {} /\ UNCHANGED <<chrome, closing>>
    BY <1>6 DEF TakeEntries, Pooled
  <2>2. Chromes' = Chromes /\ \A d \in Chromes : Running(d)' <=> Running(d)
    BY <2>1 DEF Chromes, Running
  <2>3. QED
    BY <2>1, <2>2
<1>7. QED
  BY <1>1, <1>2, <1>3, <1>4, <1>5, <1>6, StepKinds

LEMMA OwnerAlways == Spec => []OwnerInv
<1>1. Init => OwnerInv
  <2> SUFFICES ASSUME Init PROVE OwnerInv
    OBVIOUS
  <2>1. Chromes = {} /\ closing = {} /\ taken = {} /\ phase = "serving"
    BY DEF Init, Chromes
  <2>2. \A k \in kept : entry[k] = NoChrome
    BY PoolAssumption DEF Init
  <2>3. Pooled = {}
    BY <2>2 DEF Pooled
  <2>4. QED
    BY <2>1, <2>2, <2>3 DEF OwnerInv, EveryChromeHasOneOwner, TakenWhenClosing
<1>2. QED
  BY <1>1, OwnerStep, TypeCorrect, PTL DEF Spec

\* No Chrome is lost, and none is handed out that somebody is about to close.
THEOREM OneOwner == Spec => []EveryChromeHasOneOwner
<1>1. OwnerInv => EveryChromeHasOneOwner
  BY DEF OwnerInv
<1>2. QED
  BY <1>1, OwnerAlways, PTL

-----------------------------------------------------------------------------
(* The Chrome of a request. *)

LEMMA RequestTypes ==
  ASSUME TypeOK, NEW r \in Requests, req[r].step = "holding"
  PROVE  /\ req[r].chrome \in Chromes /\ req[r].key \in Keys
<1>1. req[r] \in {Away} \cup {Asking(k) : k \in Keys}
                   \cup {Holding(k, c) : k \in Keys, c \in Chromes}
  BY DEF TypeOK
<1>2. PICK k \in Keys, c \in Chromes : req[r] = Holding(k, c)
  BY <1>1 DEF Away, Asking
<1>3. QED
  BY <1>2 DEF Holding

\* What a step does to a request: nothing, or it takes its Chrome from it, or
\* hands it the one the pool keeps for its key.
RequestKeeps(r) == req'[r] = req[r]
RequestLetsGo(r) == req'[r].step # "holding"
RequestIsHanded(r) ==
  \E k \in Keys : /\ req'[r].key = k /\ req'[r].chrome = entry'[k]
                  /\ k \in kept' /\ entry'[k] # NoChrome

LEMMA RequestSteps ==
  ASSUME TypeOK, [Next]_vars, NEW r \in Requests
  PROVE  RequestKeeps(r) \/ RequestLetsGo(r) \/ RequestIsHanded(r)
<1> USE DEF RequestKeeps, RequestLetsGo, RequestIsHanded
<1>1. req \in [Requests -> {Away} \cup {Asking(k) : k \in Keys}
                        \cup {Holding(k, c) : k \in Keys, c \in Chromes}]
  BY DEF TypeOK
<1>2. ASSUME NEW q \in Requests, NEW x, req' = [req EXCEPT ![q] = x]
      PROVE  req'[q] = x /\ (r # q => RequestKeeps(r))
  BY <1>1, <1>2
<1>3. ASSUME NEW q \in Requests, NEW k \in Keys, Arrive(q, k)
      PROVE  RequestKeeps(r) \/ RequestLetsGo(r)
  <2>1. req' = [req EXCEPT ![q] = Asking(k)]
    BY <1>3 DEF Arrive
  <2>2. QED
    BY <1>2, <2>1 DEF Asking
<1>4. ASSUME NEW q \in Requests, NEW k \in Keys, GetPooled(q, k)
      PROVE  RequestKeeps(r) \/ RequestIsHanded(r)
  <2>1. /\ req' = [req EXCEPT ![q] = Holding(k, entry[k])]
        /\ entry[k] # NoChrome /\ kept' = kept /\ entry' = entry
    BY <1>4 DEF GetPooled
  <2>2. k \in kept
    BY <2>1 DEF TypeOK
  <2>3. QED
    BY <1>2, <2>1, <2>2 DEF Holding
<1>5. ASSUME NEW q \in Requests, NEW k \in Keys, GetLaunched(q, k)
      PROVE  RequestKeeps(r) \/ RequestIsHanded(r)
  <2> DEFINE c == Len(chrome) + 1
  <2>1. /\ req' = [req EXCEPT ![q] = Holding(k, c)]
        /\ k \in kept' /\ entry'[k] = c /\ c # NoChrome
    BY <1>5, LaunchOwners
  <2> HIDE DEF c
  <2>2. QED
    BY <1>2, <2>1 DEF Holding
<1>6. ASSUME NEW q \in Requests, CallFails(q) \/ \E k \in Keys : GetFails(q, k)
      PROVE  RequestKeeps(r) \/ RequestLetsGo(r)
  <2>1. PICK next \in AfterFailure : req' = [req EXCEPT ![q] = next]
    BY <1>6 DEF CallFails, GetFails, Continues
  <2>2. next.step # "holding"
    BY DEF AfterFailure, Away, Asking
  <2>3. QED
    BY <1>2, <2>1, <2>2
<1>7. ASSUME NEW q \in Requests, Answer(q)
      PROVE  RequestKeeps(r) \/ RequestLetsGo(r)
  <2>1. req' = [req EXCEPT ![q] = Away]
    BY <1>7 DEF Answer, Continues
  <2>2. QED
    BY <1>2, <2>1 DEF Away
<1>8. ASSUME NEW c, CloserStep(c) \/ Crash(c) PROVE RequestKeeps(r)
  BY <1>8 DEF CloserStep, CloseEvicted, CloseEvictedFails, CloseTaken, CloseTakenFails, Crash
<1>9. ASSUME Age \/ Sweep \/ Signal \/ Drained \/ SweeperStops \/ TakeEntries \/ Exit
      PROVE  RequestKeeps(r)
  BY <1>9 DEF Age, Sweep, Signal, Drained, SweeperStops, TakeEntries, Exit
<1>10. ASSUME UNCHANGED vars PROVE RequestKeeps(r)
  BY <1>10 DEF vars
<1> HIDE DEF RequestKeeps, RequestLetsGo, RequestIsHanded
<1>11. QED
  BY <1>3, <1>4, <1>5, <1>6, <1>7, <1>8, <1>9, <1>10 DEF Next

\* A request is handed a Chrome only if the pool keeps it.
THEOREM TriesUseKept == Spec => TriesUseKeptChrome
<1>1. ASSUME TypeOK, [Next]_vars, NEW r \in Requests,
             req'[r] # req[r], req'[r].step = "holding"
      PROVE  req'[r].chrome \in Pooled'
  <2>1. RequestIsHanded(r)
    BY <1>1, RequestSteps DEF RequestKeeps, RequestLetsGo
  <2>2. QED
    BY <2>1 DEF RequestIsHanded, Pooled
<1>2. TypeOK /\ [Next]_vars =>
        [\A r \in Requests : req'[r] # req[r] /\ req'[r].step = "holding" =>
           req'[r].chrome \in Pooled']_vars
  BY <1>1
<1>3. QED
  BY <1>2, TypeCorrect, PTL DEF Spec, TriesUseKeptChrome

-----------------------------------------------------------------------------
(* The proxy identity of a Chrome. *)

EntriesFit == \A k \in kept : entry[k] # NoChrome => chrome[entry[k]].key = k

FitInv == EntriesFit /\ ChromeFitsProxy

\* A Chrome keeps its key, and an entry its Chrome, unless it is deleted or new.
LEMMA KeysStay ==
  ASSUME TypeOK, [Next]_vars
  PROVE  /\ \A c \in Chromes : chrome'[c].key = chrome[c].key
         /\ \A k \in kept' : \/ k \in kept /\ entry'[k] = entry[k]
                             \/ entry'[k] # NoChrome /\ chrome'[entry'[k]].key = k
<1>1. CASE StaysPut
  BY <1>1 DEF StaysPut
<1>2. ASSUME NEW r \in Requests, NEW k \in Keys, GetLaunched(r, k)
      PROVE  /\ \A c \in Chromes : chrome'[c] = chrome[c]
             /\ \A j \in kept' : \/ j \in kept /\ entry'[j] = entry[j]
                                 \/ entry'[j] # NoChrome /\ chrome'[entry'[j]].key = j
  <2> DEFINE c == Len(chrome) + 1
             gone == Evicted(kept \cup {k}, Touched(before, kept, k))
  <2>1. /\ c # NoChrome /\ chrome'[c].key = k
        /\ \A d \in Chromes : chrome'[d] = chrome[d]
        /\ kept' = (kept \cup {k}) \ gone
        /\ entry'[k] = c
        /\ \A j \in Keys \ {k} : j \notin gone => entry'[j] = entry[j]
    BY <1>2, LaunchOwners
  <2> HIDE DEF c, gone
  <2>2. kept \subseteq Keys
    BY DEF TypeOK
  <2>3. QED
    BY <2>1, <2>2
<1>3. ASSUME NEW c \in Chromes, CloserStep(c) \/ Crash(c)
      PROVE  /\ \A d \in Chromes : chrome'[d].key = chrome[d].key
             /\ kept' = kept /\ entry' = entry
  <2>1. kept' = kept /\ entry' = entry
    BY <1>3 DEF CloserStep, CloseEvicted, CloseEvictedFails, CloseTaken, CloseTakenFails,
                Crash, pool
  <2>2. ChromeBecomes(c, "dead") \/ ChromeBecomes(c, "left")
    BY <1>3 DEF CloserStep, CloseEvicted, CloseEvictedFails, CloseTaken, CloseTakenFails,
                Crash, ChromeBecomes
  <2>3. QED
    BY <2>1, <2>2, BecomesFacts
<1>4. CASE Sweep
  <2> DEFINE gone == {k \in idle : entry[k] # NoChrome}
  <2>1. /\ kept' = kept \ gone /\ chrome' = chrome
        /\ entry' = [k \in Keys |-> IF k \in gone THEN NoChrome ELSE entry[k]]
    BY <1>4 DEF Sweep, Leave
  <2> HIDE DEF gone
  <2>2. kept \subseteq Keys
    BY DEF TypeOK
  <2>3. QED
    BY <2>1, <2>2
<1>5. CASE TakeEntries
  BY <1>5 DEF TakeEntries
<1>6. QED
  BY <1>1, <1>2, <1>3, <1>4, <1>5, StepKinds

LEMMA FitStep ==
  ASSUME TypeOK, FitInv, [Next]_vars
  PROVE  FitInv'
<1>1. EntriesFit'
  <2> SUFFICES ASSUME NEW k \in kept', entry'[k] # NoChrome
               PROVE  chrome'[entry'[k]].key = k
    BY DEF EntriesFit
  <2>1. CASE k \in kept /\ entry'[k] = entry[k]
    <3>1. entry[k] \in Chromes
      BY <2>1 DEF TypeOK
    <3>2. QED
      BY <2>1, <3>1, KeysStay DEF FitInv, EntriesFit
  <2>2. QED
    BY <2>1, KeysStay
<1>2. ChromeFitsProxy'
  <2> SUFFICES ASSUME NEW r \in Requests, req'[r].step = "holding"
               PROVE  chrome'[req'[r].chrome].key = req'[r].key
    BY DEF ChromeFitsProxy
  <2>1. CASE RequestKeeps(r)
    BY <2>1, RequestTypes, KeysStay DEF RequestKeeps, FitInv, ChromeFitsProxy
  <2>2. CASE RequestIsHanded(r)
    BY <2>2, <1>1 DEF RequestIsHanded, EntriesFit
  <2>3. QED
    BY <2>1, <2>2, RequestSteps DEF RequestLetsGo
<1>3. QED
  BY <1>1, <1>2 DEF FitInv

\* A request never holds a Chrome that was launched for another proxy identity.
THEOREM ChromeFits == Spec => []ChromeFitsProxy
<1>1. Init => FitInv
  <2> SUFFICES ASSUME Init PROVE FitInv
    OBVIOUS
  <2>1. EntriesFit
    BY PoolAssumption DEF Init, EntriesFit
  <2>2. ChromeFitsProxy
    BY DEF Init, ChromeFitsProxy, Away
  <2>3. QED
    BY <2>1, <2>2 DEF FitInv
<1>2. FitInv => ChromeFitsProxy
  BY DEF FitInv
<1>3. QED
  BY <1>1, <1>2, FitStep, TypeCorrect, PTL DEF Spec

-----------------------------------------------------------------------------
(* The shutdown. *)

\* If no call runs when the drain ends none will, and nothing is put into the
\* pool again once close has emptied it.
Drains == phase \in {"stopping", "closing", "exited"} /\ ~callsLeft
Quiet == Drains => \A r \in Requests : req[r] = Away
EmptyAtClose == phase \in {"closing", "exited"} /\ ~callsLeft => kept = {}

ExitInv == Quiet /\ EmptyAtClose

LEMMA ExitStep ==
  ASSUME TypeOK, ExitInv, [Next]_vars
  PROVE  ExitInv'
<1> USE DEF ExitInv, Quiet, EmptyAtClose, Drains
<1>1. ASSUME NEW r \in Requests, NEW k \in Keys, Arrive(r, k) PROVE ExitInv'
  BY <1>1 DEF Arrive, shutdown
<1>2. ASSUME NEW r \in Requests, req[r] # Away, phase' = phase, callsLeft' = callsLeft
      PROVE  ExitInv'
  <2>1. ~Drains
    BY <1>2
  <2>2. ~Drains'
    BY <1>2, <2>1
  <2>3. QED
    BY <2>2
<1>3. ASSUME NEW r \in Requests, NEW k \in Keys,
             GetPooled(r, k) \/ GetLaunched(r, k) \/ GetFails(r, k)
      PROVE  ExitInv'
  <2>1. req[r] # Away
    BY <1>3 DEF GetPooled, GetLaunched, GetFails, Asks, Asking, Away
  <2>2. phase' = phase /\ callsLeft' = callsLeft
    BY <1>3 DEF GetPooled, GetLaunched, GetFails, shutdown
  <2>3. QED
    BY <1>2, <2>1, <2>2
<1>4. ASSUME NEW r \in Requests, Answer(r) \/ CallFails(r) PROVE ExitInv'
  <2>1. req[r] # Away
    BY <1>4 DEF Answer, CallFails, Away
  <2>2. phase' = phase /\ callsLeft' = callsLeft
    BY <1>4 DEF Answer, CallFails, shutdown
  <2>3. QED
    BY <1>2, <2>1, <2>2
<1>5. ASSUME UNCHANGED <<phase, callsLeft, req>>, kept' \subseteq kept PROVE ExitInv'
  BY <1>5
<1>6. ASSUME NEW c, CloserStep(c) \/ Crash(c) PROVE ExitInv'
  <2>1. UNCHANGED <<phase, callsLeft, req, kept>>
    BY <1>6 DEF CloserStep, CloseEvicted, CloseEvictedFails, CloseTaken, CloseTakenFails,
                Crash, pool, shutdown
  <2>2. QED
    BY <2>1, <1>5
<1>7. ASSUME Age \/ Sweep \/ SweeperStops \/ UNCHANGED vars PROVE ExitInv'
  <2>1. UNCHANGED <<phase, callsLeft, req>> /\ kept' \subseteq kept
    BY <1>7 DEF Age, Sweep, Leave, SweeperStops, vars, pool, shutdown
  <2>2. QED
    BY <2>1, <1>5
<1>8. CASE Signal
  BY <1>8 DEF Signal
<1>9. CASE Drained
  <2>1. phase' = "stopping" /\ req' = req
        /\ callsLeft' = \E r \in Requests : req[r] # Away
    BY <1>9 DEF Drained
  <2>2. QED
    BY <2>1
<1>10. CASE TakeEntries
  <2>1. /\ phase = "stopping" /\ kept' = {} /\ req' = req /\ callsLeft' = callsLeft
    BY <1>10 DEF TakeEntries
  <2>2. QED
    BY <2>1
<1>11. CASE Exit
  <2>1. /\ phase = "closing" /\ kept' = kept /\ req' = req /\ callsLeft' = callsLeft
    BY <1>11 DEF Exit, pool
  <2>2. QED
    BY <2>1
<1>12. QED
  BY <1>1, <1>3, <1>4, <1>6, <1>7, <1>8, <1>9, <1>10, <1>11 DEF Next

\* A shutdown without an error leaves running only what was being closed and what
\* calls the drain did not wait for have launched since the pool was emptied.
THEOREM ExitIsClean == Spec => []CleanExit
<1>1. Init => ExitInv
  BY DEF Init, ExitInv, Quiet, EmptyAtClose, Drains
<1>2. ASSUME TypeOK, OwnerInv, ExitInv PROVE CleanExit
  <2> SUFFICES ASSUME phase = "exited", ~shutdownErr, NEW c \in Live
               PROVE  c \in closing \/ (callsLeft /\ c \in Pooled)
    BY DEF CleanExit
  <2>1. ~callsLeft => kept = {}
    BY <1>2 DEF ExitInv, EmptyAtClose
  <2>2. ~callsLeft => Pooled = {}
    BY <2>1 DEF Pooled
  <2>3. taken = {}
    BY <1>2 DEF OwnerInv, TakenWhenClosing
  <2>4. c \in Chromes /\ Running(c) /\ chrome[c].state # "left"
    BY DEF Live, Running
  <2>5. QED
    BY <1>2, <2>2, <2>3, <2>4 DEF OwnerInv, EveryChromeHasOneOwner
<1>3. QED
  BY <1>1, <1>2, ExitStep, TypeCorrect, OwnerAlways, PTL DEF Spec

-----------------------------------------------------------------------------
(* The lanes, with their inductive invariant: types, with cookies of their own lane only, and   *)
(* pages that still hold what they were given.                                *)

OwnCookies(k) == {c \in Cookies : c.lane = k}
FitLoaded == {x \in LoadedPage :
               /\ x.cookies \subseteq OwnCookies(x.lane)
               /\ \A s \in x.exempt : Cookie(x.lane, s) \in x.cookies}
FitPage == NewPage \cup FitLoaded \cup ChallengedPage

KeptInv ==
  /\ lanes \subseteq Lanes /\ IsFiniteSet(lanes) /\ Cardinality(lanes) <= MaxLanes
  /\ Orders(usedBefore, lanes)
JarInv ==
  /\ profile \in [Lanes -> Profiles \cup {NoProfile}]
  /\ jar \in [Lanes -> SUBSET Cookies]
  /\ \A k \in Lanes : jar[k] \subseteq OwnCookies(k)
  /\ \A k \in Lanes \ lanes : profile[k] = NoProfile /\ jar[k] = {}
StoreInv == KeptInv /\ JarInv
PageInv == page \in [Pages -> {Closed} \cup FitPage]
LaneInv == StoreInv /\ PageInv

\* What a use of a lane does to it and to the others: they are kept or forgotten.
LEMMA PutFacts ==
  ASSUME StoreInv, NEW k \in Lanes, NEW p, NEW c, Put(k, p, c)
  PROVE  /\ KeptInv'
         /\ profile' = [j \in Lanes |-> profile'[j]] /\ jar' = [j \in Lanes |-> jar'[j]]
         /\ k \in lanes' /\ profile'[k] = p /\ jar'[k] = c
         /\ \A j \in Lanes \ {k} :
              \/ j \in lanes' /\ j \in lanes /\ profile'[j] = profile[j] /\ jar'[j] = jar[j]
              \/ j \notin lanes' /\ profile'[j] = NoProfile /\ jar'[j] = {}
<1> DEFINE now == Touched(usedBefore, lanes, k)
           gone == LaneEvicted(lanes \cup {k}, now)
<1>1. /\ lanes' = (lanes \cup {k}) \ gone
      /\ usedBefore' = Without(now, gone)
      /\ profile' = [j \in Lanes |-> IF j \in gone THEN NoProfile ELSE IF j = k THEN p
                                                                   ELSE profile[j]]
      /\ jar' = [j \in Lanes |-> IF j \in gone THEN {} ELSE IF j = k THEN c ELSE jar[j]]
  BY DEF Put
<1>2. /\ lanes \subseteq Lanes /\ IsFiniteSet(lanes) /\ Cardinality(lanes) <= MaxLanes
      /\ Orders(usedBefore, lanes)
  BY DEF StoreInv, KeptInv
<1>3. /\ IsFiniteSet((lanes \cup {k}) \ gone)
      /\ Cardinality((lanes \cup {k}) \ gone) <= MaxLanes
      /\ k \notin gone
  <2>1. MaxLanes \in Nat \ {0}
    BY LaneAssumption
  <2>2. QED
    BY <1>2, <2>1, OldestMakesRoom DEF LaneEvicted
<1>4. Orders(now, lanes \cup {k})
  BY <1>2, TouchedOrders
<1>5. gone \subseteq lanes \cup {k}
  BY DEF LaneEvicted, Oldest
<1> HIDE DEF now, gone
<1>6. KeptInv'
  BY <1>1, <1>2, <1>3, <1>4, SubOrder DEF KeptInv
<1>7. \A j \in Lanes \ {k} : j \notin lanes /\ j \notin gone => profile[j] = NoProfile /\ jar[j] = {}
  BY DEF StoreInv, JarInv
<1>8. QED
  BY <1>1, <1>3, <1>6, <1>7

LEMMA PutKeeps ==
  ASSUME StoreInv, NEW k \in Lanes, NEW p \in Profiles \cup {NoProfile},
         NEW c \in SUBSET OwnCookies(k), Put(k, p, c)
  PROVE  StoreInv'
<1>1. \A j \in Lanes : profile'[j] \in Profiles \cup {NoProfile}
  BY PutFacts DEF StoreInv, JarInv
<1>2. \A j \in Lanes : jar'[j] \subseteq OwnCookies(j)
  BY PutFacts DEF StoreInv, JarInv
<1>3. \A j \in Lanes : jar'[j] \in SUBSET Cookies
  BY <1>2 DEF OwnCookies
<1>4. profile' = [j \in Lanes |-> profile'[j]] /\ jar' = [j \in Lanes |-> jar'[j]]
  BY PutFacts
<1>5. /\ profile' \in [Lanes -> Profiles \cup {NoProfile}]
      /\ jar' \in [Lanes -> SUBSET Cookies]
  BY <1>1, <1>3, <1>4
<1>6. KeptInv' /\ \A j \in Lanes \ lanes' : profile'[j] = NoProfile /\ jar'[j] = {}
  BY PutFacts
<1>7. QED
  BY <1>2, <1>5, <1>6 DEF StoreInv, JarInv

\* A lane that is read stays as it is, but for the order.
LEMMA TouchKeeps ==
  ASSUME KeptInv, NEW k \in Lanes, lanes' = lanes,
         usedBefore' = IF k \in lanes THEN Touched(usedBefore, lanes, k) ELSE usedBefore
  PROVE  KeptInv'
<1>1. CASE k \in lanes
  <2>1. lanes \cup {k} = lanes /\ usedBefore' = Touched(usedBefore, lanes, k)
    BY <1>1
  <2>2. Orders(usedBefore', lanes)
    BY <2>1, TouchedOrders DEF KeptInv
  <2>3. QED
    BY <2>2 DEF KeptInv
<1>2. CASE k \notin lanes
  BY <1>2 DEF KeptInv
<1>3. QED
  BY <1>1, <1>2

\* A page moves: the others stay as they are.
Moves(g, x) == page' = [page EXCEPT ![g] = x]

LEMMA MoveKeeps ==
  ASSUME PageInv, NEW g \in Pages, NEW x \in {Closed} \cup FitPage, Moves(g, x)
  PROVE  PageInv' /\ page'[g] = x
BY DEF PageInv, Moves

LEMMA PageFacts ==
  ASSUME PageInv, NEW g \in Pages
  PROVE  /\ page[g].step = "opened" => page[g] \in NewPage
         /\ OnSitePage(g) => page[g] \in FitLoaded
         /\ page[g].step = "challenged" => page[g] \in ChallengedPage
<1>1. page[g] \in {Closed} \cup NewPage \cup FitLoaded \cup ChallengedPage
  BY DEF PageInv, FitPage
<1>2. \A x \in NewPage : x.step = "opened"
  BY DEF NewPage
<1>3. \A x \in FitLoaded : x.step \in {"loading", "loaded"}
  BY DEF FitLoaded, LoadedPage
<1>4. \A x \in ChallengedPage : x.step = "challenged"
  BY DEF ChallengedPage
<1>5. Closed.step = "closed"
  BY DEF Closed
<1>6. QED
  BY <1>1, <1>2, <1>3, <1>4, <1>5 DEF OnSitePage

\* The lane of an open page is one.
LEMMA PageLane ==
  ASSUME PageInv, NEW g \in Pages,
         page[g].step = "opened" \/ OnSitePage(g) \/ page[g].step = "challenged"
  PROVE  page[g].lane \in Lanes
<1>1. CASE page[g].step = "opened"
  BY <1>1, PageFacts DEF NewPage
<1>2. CASE OnSitePage(g)
  BY <1>2, PageFacts DEF FitLoaded, LoadedPage
<1>3. CASE page[g].step = "challenged"
  BY <1>3, PageFacts DEF ChallengedPage
<1>4. QED
  BY <1>1, <1>2, <1>3

LEMMA OwnCookie ==
  ASSUME NEW k \in Lanes, NEW s \in Sites
  PROVE  Cookie(k, s) \in OwnCookies(k)
BY DEF Cookie, OwnCookies, Cookies

-----------------------------------------------------------------------------
(* The lanes: one lemma per kind of step, what it does to the page and to the store. *)

LEMMA OpenFacts ==
  ASSUME LaneInv, NEW g \in Pages, NEW k \in Lanes, Open(g, k)
  PROVE  /\ \E p \in Profiles \cup {NoProfile} :
              (k \in lanes => p = profile[k]) /\ Put(k, p, jar[k])
         /\ LaneInv'
<1>1. PICK fresh \in Profiles, s \in Sites :
        GetProfile(k, fresh) /\ Moves(g, Opened(k, s, profile'[k]))
  BY DEF Open, Moves
<1> DEFINE p == IF k \in lanes THEN profile[k] ELSE fresh
<1>2. /\ p \in Profiles \cup {NoProfile} /\ (k \in lanes => p = profile[k])
      /\ Put(k, p, jar[k]) /\ jar[k] \in SUBSET OwnCookies(k)
  BY <1>1 DEF GetProfile, LaneInv, StoreInv, JarInv
<1> HIDE DEF p
<1>3. StoreInv'
  BY <1>2, PutKeeps DEF LaneInv
<1>4. Opened(k, s, profile'[k]) \in FitPage
  BY <1>3 DEF StoreInv, JarInv, Opened, FitPage, NewPage
<1>5. PageInv'
  BY <1>1, <1>4, MoveKeeps DEF LaneInv
<1>6. QED
  BY <1>2, <1>3, <1>5 DEF LaneInv

LEMMA OpenForcedFacts ==
  ASSUME LaneInv, NEW g \in Pages, NEW k \in Lanes, OpenForced(g, k)
  PROVE  UNCHANGED store /\ LaneInv'
<1>1. PICK p \in Profiles, s \in Sites : Moves(g, Opened(k, s, p))
  BY DEF OpenForced, Moves
<1>2. Opened(k, s, p) \in FitPage
  BY DEF Opened, FitPage, NewPage
<1>3. PageInv'
  BY <1>1, <1>2, MoveKeeps DEF LaneInv
<1>4. UNCHANGED store
  BY DEF OpenForced
<1>5. StoreInv'
  BY <1>4 DEF store, StoreInv, KeptInv, JarInv, LaneInv
<1>6. QED
  BY <1>3, <1>4, <1>5 DEF LaneInv

LEMMA RestoreFacts ==
  ASSUME LaneInv, NEW g \in Pages, Restore(g)
  PROVE  UNCHANGED <<lanes, profile, jar>> /\ LaneInv'
<1> DEFINE k == page[g].lane
           x == Loading(k, page[g].site, jar[k])
<1>1. /\ UNCHANGED <<lanes, profile, jar>> /\ Moves(g, x)
      /\ usedBefore' = IF k \in lanes THEN Touched(usedBefore, lanes, k) ELSE usedBefore
  BY DEF Restore, Touch, CookiesOf, Moves
<1>2. k \in Lanes /\ page[g].site \in Sites
  BY PageFacts DEF Restore, NewPage, LaneInv
<1>3. x \in FitPage
  <2>1. jar[k] \in SUBSET Cookies /\ jar[k] \subseteq OwnCookies(k)
    BY <1>2 DEF LaneInv, StoreInv, JarInv
  <2>2. x \in LoadedPage /\ x.lane = k /\ x.cookies = jar[k]
        /\ x.exempt = {t \in Sites : Cookie(k, t) \in jar[k]}
    BY <1>2, <2>1 DEF Loading, LoadedPage
  <2> HIDE DEF x
  <2>3. QED
    BY <2>1, <2>2 DEF FitPage, FitLoaded
<1> HIDE DEF x
<1>4. PageInv'
  BY <1>1, <1>3, MoveKeeps DEF LaneInv
<1>5. KeptInv'
  BY <1>1, <1>2, TouchKeeps DEF LaneInv, StoreInv
<1>6. QED
  BY <1>1, <1>4, <1>5 DEF LaneInv, StoreInv, JarInv

\* A page on a site takes a step and holds at least the cookies it had.
LEMMA StayFacts ==
  ASSUME LaneInv, NEW g \in Pages, OnSitePage(g),
         NEW step \in {"loading", "loaded"}, NEW s \in Sites, NEW now,
         page[g].cookies \subseteq now, now \subseteq OwnCookies(page[g].lane),
         Moves(g, [page[g] EXCEPT !.step = step, !.site = s, !.cookies = now])
  PROVE  /\ PageInv' /\ OnSitePage(g)'
         /\ page'[g].lane = page[g].lane /\ page'[g].site = s /\ page'[g].cookies = now
<1> DEFINE x == [page[g] EXCEPT !.step = step, !.site = s, !.cookies = now]
<1>1. /\ page[g] \in LoadedPage
      /\ \A t \in page[g].exempt : Cookie(page[g].lane, t) \in page[g].cookies
  BY PageFacts DEF LaneInv, FitLoaded
<1>2. now \in SUBSET Cookies
  BY DEF OwnCookies
<1>3. /\ x \in LoadedPage /\ x.step = step /\ x.lane = page[g].lane /\ x.site = s
      /\ x.cookies = now /\ x.exempt = page[g].exempt
  BY <1>1, <1>2 DEF LoadedPage
<1>4. Moves(g, x)
  OBVIOUS
<1> HIDE DEF x
<1>5. x \in FitPage
  BY <1>1, <1>3 DEF FitPage, FitLoaded
<1>6. PageInv' /\ page'[g] = x
  BY <1>4, <1>5, MoveKeeps DEF LaneInv
<1>7. QED
  BY <1>3, <1>6 DEF OnSitePage

\* Cookies are saved: those of one site, of at least the cookies the page had.
LEMMA SaveFacts ==
  ASSUME LaneInv, NEW g \in Pages, Save(g) \/ Solve(g)
  PROVE  LET k == page[g].lane IN
         /\ k \in Lanes /\ OnSitePage(g) /\ OnSitePage(g)' /\ page[g] \in FitLoaded
         /\ page[g].cookies \subseteq page'[g].cookies
         /\ Put(k, profile[k], OnSite(page'[g].cookies, page'[g].site))
         /\ LaneInv'
<1> DEFINE k == page[g].lane
<1>1. OnSitePage(g)
  BY DEF Save, Solve, OnSitePage
<1>2. /\ page[g] \in FitLoaded /\ k \in Lanes /\ page[g].site \in Sites
      /\ page[g].cookies \subseteq OwnCookies(k)
      /\ page[g] = [page[g] EXCEPT !.step = page[g].step, !.site = page[g].site]
  BY <1>1, PageFacts DEF LaneInv, FitLoaded, LoadedPage
<1>3. PICK s \in Sites, new \in SUBSET OwnCookies(k) :
        /\ SaveCookies(k, OnSite(page[g].cookies \cup new, s))
        /\ Moves(g, [page[g] EXCEPT !.step = "loaded", !.site = s,
                                    !.cookies = page[g].cookies \cup new])
  <2>1. CASE Save(g)
    <3>1. /\ SaveCookies(k, OnSite(page[g].cookies \cup {}, page[g].site))
          /\ Moves(g, [page[g] EXCEPT !.step = "loaded"])
      BY <2>1 DEF Save, Moves
    <3>2. [page[g] EXCEPT !.step = "loaded"]
            = [page[g] EXCEPT !.step = "loaded", !.site = page[g].site,
                              !.cookies = page[g].cookies \cup {}]
      BY <1>2 DEF FitLoaded, LoadedPage
    <3>3. QED
      BY <1>2, <3>1, <3>2
  <2>2. CASE Solve(g)
    <3>1. PICK s \in Sites, earned \in SUBSET {Cookie(k, page[g].site)} :
            /\ SaveCookies(k, OnSite(page[g].cookies \cup earned, s))
            /\ Moves(g, [page[g] EXCEPT !.site = s, !.cookies = page[g].cookies \cup earned])
            /\ page[g].step = "loaded"
      BY <2>2 DEF Solve, Moves
    <3>2. earned \in SUBSET OwnCookies(k)
      BY <1>2, OwnCookie
    <3>3. [page[g] EXCEPT !.site = s, !.cookies = page[g].cookies \cup earned]
            = [page[g] EXCEPT !.step = "loaded", !.site = s,
                              !.cookies = page[g].cookies \cup earned]
      BY <1>2, <3>1 DEF FitLoaded, LoadedPage
    <3>4. QED
      BY <3>1, <3>2, <3>3
  <2>3. QED
    BY <2>1, <2>2
<1> DEFINE now == page[g].cookies \cup new
<1>4. page[g].cookies \subseteq now /\ now \subseteq OwnCookies(k)
  BY <1>2
<1>5. SaveCookies(k, OnSite(now, s))
      /\ Moves(g, [page[g] EXCEPT !.step = "loaded", !.site = s, !.cookies = now])
  BY <1>3
<1> HIDE DEF now
<1>6. /\ PageInv' /\ OnSitePage(g)' /\ page'[g].site = s /\ page'[g].cookies = now
  BY <1>1, <1>4, <1>5, StayFacts
<1>7. Put(k, profile[k], OnSite(now, s)) /\ profile[k] \in Profiles \cup {NoProfile}
  BY <1>2, <1>5 DEF SaveCookies, LaneInv, StoreInv, JarInv
<1>8. OnSite(now, s) \in SUBSET OwnCookies(k)
  BY <1>4 DEF OnSite
<1>9. StoreInv'
  BY <1>2, <1>7, <1>8, PutKeeps DEF LaneInv
<1>10. QED
  BY <1>1, <1>2, <1>4, <1>6, <1>7, <1>9 DEF LaneInv

LEMMA DropFacts ==
  ASSUME LaneInv, NEW g \in Pages, Drop(g)
  PROVE  /\ page[g].step = "challenged" /\ page'[g] = Closed
         /\ UNCHANGED <<lanes, profile>>
         /\ \A j \in Lanes \ {page[g].lane} : jar'[j] = jar[j]
         /\ LaneInv'
<1> DEFINE k == page[g].lane
<1>1. /\ UNCHANGED <<lanes, profile>> /\ jar' = [jar EXCEPT ![k] = {}]
      /\ usedBefore' = IF k \in lanes THEN Touched(usedBefore, lanes, k) ELSE usedBefore
      /\ Moves(g, Closed) /\ page[g].step = "challenged"
  BY DEF Drop, DropCookies, Moves
<1>2. page[g].lane \in Lanes
  BY <1>1, PageLane DEF LaneInv
<1>3. KeptInv'
  BY <1>1, <1>2, TouchKeeps DEF LaneInv, StoreInv
<1> HIDE DEF k
<1>4. JarInv' /\ \A j \in Lanes \ {k} : jar'[j] = jar[j]
  BY <1>1, <1>2 DEF k, LaneInv, StoreInv, JarInv
<1>5. PageInv' /\ page'[g] = Closed
  BY <1>1, MoveKeeps DEF LaneInv
<1>6. QED
  BY <1>1, <1>2, <1>3, <1>4, <1>5 DEF LaneInv, StoreInv, k

LEMMA LeaveFacts ==
  ASSUME LaneInv, NEW g \in Pages, SaveFails(g) \/ NavigateFails(g) \/ Finish(g) \/ Challenge(g)
  PROVE  UNCHANGED store /\ LaneInv'
<1>1. UNCHANGED store /\ StoreInv'
  BY DEF SaveFails, NavigateFails, Finish, Challenge, LaneInv, StoreInv, KeptInv, JarInv, store
<1>2. CASE NavigateFails(g) \/ Finish(g)
  BY <1>1, <1>2, MoveKeeps DEF NavigateFails, Finish, Moves, LaneInv
<1>3. CASE Challenge(g)
  <2>1. page[g].lane \in Lanes
    BY <1>3, PageLane DEF Challenge, OnSitePage, LaneInv
  <2>2. [step |-> "challenged", lane |-> page[g].lane] \in FitPage
    BY <2>1 DEF FitPage, ChallengedPage
  <2>3. QED
    BY <1>1, <1>3, <2>2, MoveKeeps DEF Challenge, Moves, LaneInv
<1>4. CASE SaveFails(g)
  <2>1. OnSitePage(g)
    BY <1>4 DEF SaveFails, OnSitePage
  <2>2. /\ page[g].site \in Sites /\ page[g].cookies \subseteq OwnCookies(page[g].lane)
        /\ [page[g] EXCEPT !.step = "loaded"]
             = [page[g] EXCEPT !.step = "loaded", !.site = page[g].site, !.cookies = page[g].cookies]
    BY <2>1, PageFacts DEF LaneInv, FitLoaded, LoadedPage
  <2>3. Moves(g, [page[g] EXCEPT !.step = "loaded", !.site = page[g].site, !.cookies = page[g].cookies])
    BY <1>4, <2>2 DEF SaveFails, Moves
  <2>4. PageInv'
    BY <2>1, <2>2, <2>3, StayFacts
  <2>5. QED
    BY <1>1, <2>4 DEF LaneInv
<1>5. QED
  BY <1>2, <1>3, <1>4

LEMMA LaneStep == LaneInv /\ [LanesNext]_laneVars => LaneInv'
<1> SUFFICES ASSUME LaneInv, [LanesNext]_laneVars PROVE LaneInv'
  OBVIOUS
<1>1. CASE UNCHANGED laneVars
  BY <1>1 DEF laneVars, LaneInv, StoreInv, KeptInv, JarInv, PageInv
<1>2. ASSUME NEW g \in Pages, NEW k \in Lanes, Open(g, k) \/ OpenForced(g, k)
      PROVE  LaneInv'
  BY <1>2, OpenFacts, OpenForcedFacts
<1>3. ASSUME NEW g \in Pages,
             Restore(g) \/ Save(g) \/ SaveFails(g) \/ NavigateFails(g) \/ Finish(g)
             \/ Solve(g) \/ Challenge(g) \/ Drop(g)
      PROVE  LaneInv'
  BY <1>3, RestoreFacts, SaveFacts, DropFacts, LeaveFacts
<1>4. QED
  BY <1>1, <1>2, <1>3 DEF LanesNext

LEMMA LaneAlways == LanesSpec => []LaneInv
<1>1. LanesInit => LaneInv
  <2> SUFFICES ASSUME LanesInit PROVE LaneInv
    OBVIOUS
  <2>1. KeptInv
    <3>1. IsFiniteSet({}) /\ Cardinality({}) = 0
      BY FS_EmptySet
    <3>2. QED
      BY <3>1, LaneAssumption DEF LanesInit, KeptInv, Orders
  <2>2. JarInv /\ PageInv
    BY DEF LanesInit, JarInv, PageInv
  <2>3. QED
    BY <2>1, <2>2 DEF LaneInv, StoreInv
<1>2. QED
  BY <1>1, LaneStep, PTL DEF LanesSpec

-----------------------------------------------------------------------------
(* The lanes: the properties. *)

\* Type correctness: in particular the store never holds more than its bound.
THEOREM LanesTypeCorrect == LanesSpec => []LanesTypeOK
<1>1. LaneInv => LanesTypeOK
  BY DEF LaneInv, StoreInv, KeptInv, JarInv, PageInv, FitPage, FitLoaded, LanesTypeOK
<1>2. QED
  BY <1>1, LaneAlways, PTL

\* No cookie ever reaches a lane or a page of another lane.
THEOREM CookiesStay == LanesSpec => []CookiesStayInLane
<1>1. ASSUME LaneInv PROVE CookiesStayInLane
  <2>1. ASSUME NEW k \in Lanes, NEW c \in jar[k] PROVE c.lane = k
    BY <1>1, <2>1 DEF LaneInv, StoreInv, JarInv, OwnCookies
  <2>2. ASSUME NEW g \in Pages, OnSitePage(g), NEW c \in page[g].cookies
        PROVE  c.lane = page[g].lane
    BY <1>1, <2>2, PageFacts DEF LaneInv, FitLoaded, OwnCookies
  <2>3. QED
    BY <2>1, <2>2 DEF CookiesStayInLane
<1>2. QED
  BY <1>1, LaneAlways, PTL

\* A lane changes its profile only by being forgotten.
THEOREM ProfileStays == LanesSpec => ProfileIsSticky
<1> DEFINE Sticky == \A k \in lanes : k \in lanes' => profile'[k] = profile[k]
<1>1. ASSUME LaneInv, NEW k \in Lanes, NEW p, NEW c, Put(k, p, c), k \in lanes => p = profile[k]
      PROVE  Sticky
  BY <1>1, PutFacts DEF LaneInv, StoreInv, KeptInv
<1>2. ASSUME LaneInv, NEW g \in Pages, NEW k \in Lanes, Open(g, k) \/ OpenForced(g, k)
      PROVE  Sticky
  BY <1>1, <1>2, OpenFacts, OpenForcedFacts DEF store
<1>3. ASSUME LaneInv, NEW g \in Pages, Save(g) \/ Solve(g) PROVE Sticky
  BY <1>1, <1>3, SaveFacts
<1>4. ASSUME LaneInv, NEW g \in Pages,
             \/ Restore(g) \/ SaveFails(g) \/ NavigateFails(g) \/ Finish(g)
             \/ Challenge(g) \/ Drop(g)
      PROVE  Sticky
  BY <1>4, RestoreFacts, LeaveFacts, DropFacts DEF store
<1> HIDE DEF Sticky
<1>5. LaneInv /\ [LanesNext]_laneVars => [Sticky]_laneVars
  BY <1>2, <1>3, <1>4 DEF LanesNext
<1>6. LanesSpec => [][Sticky]_laneVars
  BY <1>5, LaneAlways, PTL DEF LanesSpec
<1>7. QED
  BY <1>6 DEF Sticky, ProfileIsSticky

\* The exemption of a site is lost only to a challenge, to a page on another
\* site, to a page that was given the lane's cookies without it, or with the lane.
THEOREM ExemptionLoss == LanesSpec => ExemptionLostOnlyByOthers
<1> DEFINE Blamed(k, s, g) ==
             \/ ChallengeEnds(g, k)
             \/ GivesBack(g, k) /\ (page'[g].site # s \/ s \notin page[g].exempt)
           Explained == \A k \in lanes, s \in Sites :
                          Cookie(k, s) \in jar[k] \ jar'[k] =>
                            k \notin lanes' \/ \E g \in Pages : Blamed(k, s, g)
<1>1. ASSUME LaneInv, NEW k \in Lanes, NEW p, NEW c, Put(k, p, c),
             \A s \in Sites : \/ jar[k] \subseteq c \/ Cookie(k, s) \in c
                              \/ \E g \in Pages : Blamed(k, s, g)
      PROVE  Explained
  <2> HIDE DEF Blamed
  <2> SUFFICES ASSUME NEW j \in lanes, NEW s \in Sites, j \in lanes',
                      Cookie(j, s) \in jar[j] \ jar'[j]
               PROVE  \E g \in Pages : Blamed(j, s, g)
    OBVIOUS
  <2>1. j \in Lanes
    BY <1>1 DEF LaneInv, StoreInv, KeptInv
  <2>2. j = k /\ jar'[k] = c
    BY <1>1, <2>1, PutFacts DEF LaneInv
  <2>3. QED
    BY <1>1, <2>2
<1>2. ASSUME LaneInv, NEW g \in Pages, NEW k \in Lanes, Open(g, k) PROVE Explained
  BY <1>1, <1>2, OpenFacts
<1>3. ASSUME LaneInv, NEW g \in Pages, Save(g) \/ Solve(g) PROVE Explained
  <2> DEFINE k == page[g].lane
             c == OnSite(page'[g].cookies, page'[g].site)
  <2>1. /\ k \in Lanes /\ Put(k, profile[k], c) /\ OnSitePage(g) /\ OnSitePage(g)'
        /\ page[g] \in FitLoaded /\ page[g].cookies \subseteq page'[g].cookies
    BY <1>3, SaveFacts
  <2>2. jar'[k] = c
    BY <1>3, <2>1, PutFacts DEF LaneInv
  <2>3. GivesBack(g, k)
    BY <2>1, <2>2 DEF GivesBack
  <2>4. ASSUME NEW s \in Sites PROVE Cookie(k, s) \in c \/ Blamed(k, s, g)
    <3>1. CASE page'[g].site = s /\ s \in page[g].exempt
      <4>1. Cookie(k, s) \in page'[g].cookies
        BY <2>1, <3>1 DEF FitLoaded
      <4>2. QED
        BY <3>1, <4>1 DEF OnSite, Cookie
    <3>2. CASE ~(page'[g].site = s /\ s \in page[g].exempt)
      BY <2>3, <3>2
    <3>3. QED
      BY <3>1, <3>2
  <2> HIDE DEF Blamed, Explained, k, c
  <2>5. QED
    BY <1>1, <1>3, <2>1, <2>4
<1>4. ASSUME LaneInv, NEW g \in Pages, Drop(g) PROVE Explained
  <2>1. /\ ChallengeEnds(g, page[g].lane)
        /\ \A j \in Lanes \ {page[g].lane} : jar'[j] = jar[j]
    BY <1>4, DropFacts DEF ChallengeEnds
  <2>2. lanes \subseteq Lanes
    BY <1>4 DEF LaneInv, StoreInv, KeptInv
  <2> HIDE DEF ChallengeEnds, GivesBack
  <2>3. QED
    BY <2>1, <2>2
<1>5. ASSUME LaneInv, jar' = jar PROVE Explained
  BY <1>5
<1>6. ASSUME LaneInv, NEW g \in Pages,
             \/ Restore(g) \/ SaveFails(g) \/ NavigateFails(g) \/ Finish(g) \/ Challenge(g)
             \/ \E k \in Lanes : OpenForced(g, k)
      PROVE  Explained
  <2>1. jar' = jar
    BY <1>6, RestoreFacts, LeaveFacts, OpenForcedFacts DEF store
  <2> HIDE DEF Explained
  <2>2. QED
    BY <1>5, <1>6, <2>1
<1>7. LaneInv /\ [LanesNext]_laneVars => [Explained]_laneVars
  <2> HIDE DEF Explained
  <2> QED
    BY <1>2, <1>3, <1>4, <1>6 DEF LanesNext
<1>8. [Explained]_laneVars =>
        [\A k \in lanes, s \in Sites : Cookie(k, s) \in jar[k] \ jar'[k] =>
           \/ k \notin lanes'
           \/ \E g \in Pages :
                \/ ChallengeEnds(g, k)
                \/ /\ GivesBack(g, k)
                   /\ \/ page'[g].site # s
                      \/ s \notin page[g].exempt]_laneVars
  OBVIOUS
<1> HIDE DEF Explained
<1>9. QED
  BY <1>7, <1>8, LaneAlways, PTL DEF LanesSpec, ExemptionLostOnlyByOthers

-----------------------------------------------------------------------------
(* The lane that is forgotten. What was used after a lane, in the order of     *)
(* the store, is among what the history has seen used since.                   *)

UsedInv ==
  /\ usedSince \in [Lanes -> SUBSET Lanes]
  /\ \A k \in Lanes : IsFiniteSet(usedSince[k])
  /\ \A j, k \in Lanes : <<j, k>> \in usedBefore => k \in usedSince[j]

LEMMA RememberFacts ==
  ASSUME UsedInv, NEW k \in Lanes, Remember(k), usedBefore' \subseteq Touched(usedBefore, lanes, k)
  PROVE  UsedInv' /\ \A j \in Lanes \ {k} : usedSince'[j] = usedSince[j] \cup {k}
<1>1. usedSince' = [j \in Lanes |-> IF j = k THEN {} ELSE usedSince[j] \cup {k}]
  BY DEF Remember
<1>2. ASSUME NEW j \in Lanes PROVE IsFiniteSet(usedSince'[j])
  <2>1. IsFiniteSet({}) /\ IsFiniteSet(usedSince[j] \cup {k})
    BY FS_EmptySet, FS_AddElement DEF UsedInv
  <2>2. usedSince'[j] = {} \/ usedSince'[j] = usedSince[j] \cup {k}
    BY <1>1
  <2>3. QED
    BY <2>1, <2>2
<1>3. ASSUME NEW i \in Lanes, NEW j \in Lanes, <<i, j>> \in usedBefore' PROVE j \in usedSince'[i]
  <2>1. <<i, j>> \in Touched(usedBefore, lanes, k)
    BY <1>3
  <2>2. i # k /\ (j = k \/ <<i, j>> \in usedBefore)
    BY <2>1 DEF Touched
  <2>3. QED
    BY <1>1, <2>2 DEF UsedInv
<1>4. usedSince' \in [Lanes -> SUBSET Lanes]
  BY <1>1 DEF UsedInv
<1>5. QED
  BY <1>1, <1>2, <1>3, <1>4 DEF UsedInv

\* What a use of a lane forgets is the oldest lane of a full store, so that all
\* the others were used after it.
LEMMA ForgottenFacts ==
  ASSUME StoreInv, UsedInv, NEW k \in Lanes, NEW p, NEW c, Put(k, p, c), Remember(k)
  PROVE  /\ UsedInv'
         /\ \A j \in lanes : j \notin lanes' => Cardinality(usedSince'[j]) >= MaxLanes
<1> DEFINE now == Touched(usedBefore, lanes, k)
           all == lanes \cup {k}
           gone == LaneEvicted(all, now)
<1>1. lanes' = all \ gone /\ usedBefore' = Without(now, gone)
  BY DEF Put
<1>2. /\ lanes \subseteq Lanes /\ IsFiniteSet(all) /\ Cardinality(all) \in Nat
      /\ Orders(now, all) /\ MaxLanes \in Nat
  BY FS_AddElement, FS_CardinalityType, TouchedOrders, LaneAssumption DEF StoreInv, KeptInv
<1>3. UsedInv' /\ \A j \in Lanes \ {k} : usedSince'[j] = usedSince[j] \cup {k}
  BY <1>1, RememberFacts DEF Without
<1>4. ASSUME NEW j \in lanes, j \notin lanes' PROVE Cardinality(usedSince'[j]) >= MaxLanes
  <2>1. Cardinality(all) > MaxLanes /\ j \in Oldest(all, now)
    BY <1>1, <1>4 DEF LaneEvicted
  <2>2. \A i \in all \ {j} : <<j, i>> \in now
    BY <1>2, <2>1 DEF Orders, Oldest
  <2>3. j # k /\ j \in Lanes
    <3>1. k \in lanes'
      BY PutFacts
    <3>2. QED
      BY <1>2, <1>4, <3>1
  <2>4. ASSUME NEW i \in all \ {j} PROVE i \in usedSince'[j]
    <3>1. i = k \/ <<j, i>> \in usedBefore
      BY <2>2, <2>4 DEF Touched
    <3>2. i \in Lanes
      BY <1>2
    <3>3. QED
      BY <1>3, <2>3, <3>1, <3>2 DEF UsedInv
  <2>5. all \ {j} \subseteq usedSince'[j] /\ IsFiniteSet(usedSince'[j])
    BY <1>3, <2>3, <2>4 DEF UsedInv
  <2> HIDE DEF all, now, gone
  <2>6. j \in all
    BY DEF all
  <2>7. Cardinality(all \ {j}) = Cardinality(all) - 1
    BY <1>2, <2>6, FS_RemoveElement
  <2>8. Cardinality(all \ {j}) <= Cardinality(usedSince'[j])
    BY <2>5, FS_Subset
  <2>9. Cardinality(usedSince'[j]) \in Nat
    BY <2>5, FS_CardinalityType
  <2>10. QED
    BY <1>2, <2>1, <2>7, <2>8, <2>9
<1>5. QED
  BY <1>3, <1>4

EvictionFits == \A k \in lanes : k \notin lanes' => Cardinality(usedSince'[k]) >= MaxLanes

\* Reading the cookies of a lane, or dropping them, forgets none.
LEMMA ReadFacts ==
  ASSUME UsedInv, NEW k \in Lanes, RememberKept(k), lanes' = lanes,
         usedBefore' = IF k \in lanes THEN Touched(usedBefore, lanes, k) ELSE usedBefore
  PROVE  UsedInv' /\ EvictionFits
<1>1. CASE k \in lanes
  BY <1>1, RememberFacts DEF RememberKept, EvictionFits
<1>2. CASE k \notin lanes
  BY <1>2 DEF RememberKept, UsedInv, EvictionFits
<1>3. QED
  BY <1>1, <1>2

LEMMA UsedStep ==
  ASSUME LaneInv, UsedInv, [HNext]_hvars PROVE UsedInv' /\ EvictionFits
<1>1. ASSUME UNCHANGED <<store, usedSince>> PROVE UsedInv' /\ EvictionFits
  BY <1>1 DEF store, UsedInv, EvictionFits
<1>2. ASSUME NEW g \in Pages, NEW k \in Lanes, Open(g, k) /\ Remember(k)
      PROVE  UsedInv' /\ EvictionFits
  BY <1>2, OpenFacts, ForgottenFacts DEF LaneInv, EvictionFits
<1>3. ASSUME NEW g \in Pages, Save(g) \/ Solve(g), Remember(page[g].lane)
      PROVE  UsedInv' /\ EvictionFits
  <2>1. PICK p, c : page[g].lane \in Lanes /\ Put(page[g].lane, p, c)
    BY <1>3, SaveFacts
  <2>2. QED
    BY <1>3, <2>1, ForgottenFacts DEF LaneInv, EvictionFits
<1>4. ASSUME NEW g \in Pages, Restore(g) \/ Drop(g), RememberKept(page[g].lane)
      PROVE  UsedInv' /\ EvictionFits
  <2>1. page[g].lane \in Lanes
    BY <1>4, PageLane DEF Restore, Drop, LaneInv
  <2>2. QED
    BY <1>4, <2>1, ReadFacts DEF Restore, Touch, Drop, DropCookies
<1>5. ASSUME NEW g \in Pages,
             \/ SaveFails(g) \/ NavigateFails(g) \/ Finish(g) \/ Challenge(g)
             \/ \E k \in Lanes : OpenForced(g, k),
             UNCHANGED usedSince
      PROVE  UsedInv' /\ EvictionFits
  BY <1>1, <1>5 DEF SaveFails, NavigateFails, Finish, Challenge, OpenForced
<1>6. CASE UNCHANGED hvars
  BY <1>1, <1>6 DEF hvars, laneVars, store
<1>7. QED
  BY <1>2, <1>3, <1>4, <1>5, <1>6 DEF HNext

\* The store forgets a lane only when as many others as it holds were used since.
THEOREM LeastRecentGoes == HSpec => LeastRecentEvicted
<1>1. HSpec => []LaneInv
  <2>1. HInit => LanesInit
    BY DEF HInit
  <2>2. [HNext]_hvars => [LanesNext]_laneVars
    BY DEF HNext, LanesNext, hvars, laneVars
  <2>3. QED
    BY <2>1, <2>2, LaneAlways, PTL DEF HSpec, LanesSpec
<1>2. HInit => UsedInv
  BY FS_EmptySet DEF HInit, LanesInit, UsedInv
<1>3. LaneInv /\ UsedInv /\ [HNext]_hvars => UsedInv' /\ [EvictionFits]_hvars
  BY UsedStep
<1>4. HSpec => [][EvictionFits]_hvars
  BY <1>1, <1>2, <1>3, PTL DEF HSpec
<1>5. QED
  BY <1>4 DEF EvictionFits, LeastRecentEvicted
=============================================================================
