---------------------------- MODULE BrowserPool ----------------------------
(***************************************************************************)
(* The pool of Chrome processes of cmd/serve.go, the requests that use it, *)
(* and the shutdown of the server.                                         *)
(*                                                                         *)
(* A Chrome is launched for one key: an authenticated proxy identity, or   *)
(* the shared direct one.  get hands it to any number of requests and      *)
(* keeps no count of them.  A Chrome leaves the pool when it is the least  *)
(* recently fetched of too many, when it has not been fetched for idleTTL, *)
(* or at shutdown; it is closed afterwards, by another goroutine, whatever *)
(* its requests are doing.                                                 *)
(*                                                                         *)
(* get, a sweep and the emptying of the pool hold p.mu throughout, the     *)
(* launch of a Chrome included, and Close holds the mutex of the           *)
(* connection, hence each is one step.  lastUsedAt only serves to compare  *)
(* entries and to find the idle ones: it is their order, and the set of    *)
(* those that have reached idleTTL.  A Chrome may crash at any time.       *)
(*                                                                         *)
(* The shutdown waits for HTTP requests, not for the calls they make: a    *)
(* mega search answers at its deadline while calls of it still run, and    *)
(* nothing in get tells such a call that the pool has been closed.         *)
(***************************************************************************)
EXTENDS Integers, Sequences, FiniteSets, Recency

CONSTANTS
  Requests,      \* calls of the engines and of the extractor, concurrently
  Keys,          \* browserPoolKey values
  PreBound,      \* the keys of the pool at start, without a Chrome
  MaxProcesses,  \* browserPool.maxProcesses
  MaxLaunches    \* bound on the Chromes launched

ASSUME PoolAssumption ==
  /\ MaxProcesses \in Nat \ {0}   \* newBrowserPool
  /\ PreBound \subseteq Keys /\ IsFiniteSet(PreBound) /\ Cardinality(PreBound) <= 1
  /\ MaxLaunches \in Nat

NoChrome == 0

VARIABLES
  chrome,       \* the Chromes launched so far, by number
  kept,         \* the keys of browserPool.browsers
  before,       \* <<j, k>>: the last get of key j was before that of key k
  entry,        \* pooledBrowser.browser
  idle,         \* the keys whose entry has not been fetched for idleTTL
  closing,      \* Chromes of the goroutines running closePooledBrowser
  req,          \* what each request is doing
  phase,        \* of listenWithGracefulShutdown
  sweeping,     \* the sweeper runs
  taken,        \* the entries browserPool.close has still to close
  callsLeft,    \* a call was running when the drain ended
  shutdownErr   \* listenWithGracefulShutdown reports an error

pool == <<kept, before, entry, idle>>
shutdown == <<phase, sweeping, taken, callsLeft, shutdownErr>>
vars == <<chrome, pool, closing, req, shutdown>>

Processes == [key : Keys, state : {"live", "dead", "left"}]
Chromes == DOMAIN chrome
\* A Chrome is left when Close has reported an error.
Running(c) == chrome[c].state \in {"live", "left"}
Live == {c \in Chromes : chrome[c].state = "live"}
Pooled == {entry[k] : k \in kept} \ {NoChrome}

\* asking: it calls get. holding: it has a copy of the Browser, and soon a page.
Away == [step |-> "away"]
Asking(k) == [step |-> "asking", key |-> k, chrome |-> NoChrome]
Holding(k, c) == [step |-> "holding", key |-> k, chrome |-> c]
Phases == {"serving", "draining", "stopping", "closing", "exited"}

\* The pool is within its limit, and remembers nothing of other keys.
TypeOK ==
  /\ chrome \in Seq(Processes)
  /\ kept \subseteq Keys /\ IsFiniteSet(kept) /\ Cardinality(kept) <= MaxProcesses
  /\ Orders(before, kept)
  /\ entry \in [Keys -> Chromes \cup {NoChrome}]
  /\ \A k \in Keys \ kept : entry[k] = NoChrome
  /\ idle \subseteq kept
  /\ closing \subseteq Chromes /\ taken \subseteq Chromes
  /\ req \in [Requests -> {Away} \cup {Asking(k) : k \in Keys}
                        \cup {Holding(k, c) : k \in Keys, c \in Chromes}]
  /\ phase \in Phases /\ sweeping \in BOOLEAN
  /\ callsLeft \in BOOLEAN /\ shutdownErr \in BOOLEAN

Init ==
  /\ chrome = <<>>
  /\ kept = PreBound /\ before = {}
  /\ entry = [k \in Keys |-> NoChrome]
  /\ idle = {} /\ closing = {} /\ taken = {}
  /\ req = [r \in Requests |-> Away]
  /\ phase = "serving"
  /\ sweeping = TRUE   \* idleTTL is not 0, which turns the sweeper off
  /\ callsLeft = FALSE /\ shutdownErr = FALSE

Up == phase # "exited"

-----------------------------------------------------------------------------
(* The pool. *)

\* Broken: the most recently fetched entry is evicted.
EvictedNewestMutant(K, R) == IF Cardinality(K) > MaxProcesses THEN Newest(K, R) ELSE {}
\* evictLRULocked: K is at most one key too many.
Evicted(K, R) == IF Cardinality(K) > MaxProcesses THEN Oldest(K, R) ELSE {}

\* Broken: the entry keeps the Chrome that is being closed.
LeaveMutant(gone) ==
  /\ closing' = closing \cup ({entry[k] : k \in gone} \ {NoChrome})
  /\ UNCHANGED <<kept, before, entry>>
\* Broken: nobody closes the Chromes.
LeaveOpenMutant(gone) ==
  /\ kept' = kept \ gone
  /\ before' = Without(before, gone)
  /\ entry' = [k \in Keys |-> IF k \in gone THEN NoChrome ELSE entry[k]]
  /\ UNCHANGED closing
\* The entries of the keys gone are deleted and their Chromes handed to closers.
Leave(gone) ==
  /\ kept' = kept \ gone
  /\ before' = Without(before, gone)
  /\ entry' = [k \in Keys |-> IF k \in gone THEN NoChrome ELSE entry[k]]
  /\ closing' = closing \cup ({entry[k] : k \in gone} \ {NoChrome})

Asks(r, k) == Up /\ req[r] = Asking(k)

\* After a failure: the request is over, or another attempt, possibly through
\* another proxy, resolves its engine anew. ResilientSearch bounds the attempts.
AfterFailure == {Away} \cup {Asking(k) : k \in Keys}
Continues(r, next) == req' = [req EXCEPT ![r] = next]

\* browserPool.get, the key's Chrome is there. Whether it is alive is not asked.
GetPooled(r, k) ==
  /\ Asks(r, k)
  /\ entry[k] # NoChrome
  /\ before' = Touched(before, kept, k)
  /\ idle' = idle \ {k}
  /\ req' = [req EXCEPT ![r] = Holding(k, entry[k])]
  /\ UNCHANGED <<chrome, kept, entry, closing, shutdown>>

\* browserPool.get, NewBrowser starts a Chrome and an entry may have to go.
GetLaunched(r, k) ==
  /\ Asks(r, k)
  /\ entry[k] = NoChrome
  /\ Len(chrome) < MaxLaunches
  /\ LET c == Len(chrome) + 1
         gone == Evicted(kept \cup {k}, Touched(before, kept, k))
     IN /\ chrome' = Append(chrome, [key |-> k, state |-> "live"])
        /\ kept' = (kept \cup {k}) \ gone
        /\ before' = Without(Touched(before, kept, k), gone)
        /\ entry' = [j \in Keys |-> IF j \in gone THEN NoChrome ELSE IF j = k THEN c ELSE entry[j]]
        /\ closing' = closing \cup ({IF j = k THEN c ELSE entry[j] : j \in gone} \ {NoChrome})
        /\ idle' = idle \ (gone \cup {k})
        /\ req' = [req EXCEPT ![r] = Holding(k, c)]
  /\ UNCHANGED shutdown

\* browserPool.get, NewBrowser finds no binary or cannot start it.
GetFails(r, k) ==
  /\ Asks(r, k)
  /\ entry[k] = NoChrome
  /\ \E next \in AfterFailure : Continues(r, next)
  /\ UNCHANGED <<chrome, pool, closing, shutdown>>

\* Time passes: the entry fetched longest ago of those not idle reaches idleTTL.
Age ==
  /\ Up
  /\ \E k \in kept \ idle :
       /\ \A j \in kept : <<j, k>> \in before => j \in idle
       /\ idle' = idle \cup {k}
  /\ UNCHANGED <<chrome, kept, before, entry, closing, req, shutdown>>

\* sweepIdle: a tick of the sweeper that finds idle Chromes.
Sweep ==
  LET gone == {k \in idle : entry[k] # NoChrome}
  IN /\ Up /\ sweeping /\ gone # {}
     /\ Leave(gone)
     /\ idle' = idle \ gone
     /\ UNCHANGED <<chrome, req, shutdown>>

\* closePooledBrowser and Close: Chrome ends, or reports an error that is logged.
CloseEvicted(c) ==
  /\ Up /\ c \in closing
  /\ closing' = closing \ {c}
  /\ chrome' = [chrome EXCEPT ![c].state = "dead"]
  /\ UNCHANGED <<pool, req, shutdown>>
CloseEvictedFails(c) ==
  /\ Up /\ c \in closing /\ c \in Live
  /\ closing' = closing \ {c}
  /\ chrome' = [chrome EXCEPT ![c].state = "left"]
  /\ UNCHANGED <<pool, req, shutdown>>

Crash(c) ==
  /\ Up /\ c \in Live
  /\ chrome' = [chrome EXCEPT ![c].state = "dead"]
  /\ UNCHANGED <<pool, closing, req, shutdown>>

-----------------------------------------------------------------------------
(* Requests. *)

\* The listener accepts a request whose proxy has key k.
Arrive(r, k) ==
  /\ phase = "serving" /\ req[r] = Away
  /\ req' = [req EXCEPT ![r] = Asking(k)]
  /\ UNCHANGED <<chrome, pool, closing, shutdown>>

\* Navigate finds or makes the connection; the page is opened, read and closed.
Answer(r) ==
  /\ Up /\ req[r].step = "holding" /\ Running(req[r].chrome)
  /\ Continues(r, Away)
  /\ UNCHANGED <<chrome, pool, closing, shutdown>>

\* Chrome is gone, the page does not load, or the search finds no results.
CallFails(r) ==
  /\ Up /\ req[r].step = "holding"
  /\ \E next \in AfterFailure : Continues(r, next)
  /\ UNCHANGED <<chrome, pool, closing, shutdown>>

-----------------------------------------------------------------------------
(* listenWithGracefulShutdown and browserPool.close. *)

\* A signal: the listener stops.
Signal ==
  /\ phase = "serving"
  /\ phase' = "draining"
  /\ UNCHANGED <<chrome, pool, closing, req, sweeping, taken, callsLeft, shutdownErr>>

\* ShutdownWithTimeout returns when the HTTP requests are answered, or after 30 s
\* with an error. Calls may go on that it does not wait for: a mega search answers
\* without those that have not come back, and one that waits for p.mu in get will
\* have a Chrome. close then stops the sweeper.
Drained ==
  LET running == {r \in Requests : req[r] # Away} IN
  /\ phase = "draining"
  /\ phase' = "stopping"
  /\ \E waitedFor \in SUBSET running : shutdownErr' = (waitedFor # {})
  /\ callsLeft' = (running # {})
  /\ UNCHANGED <<chrome, pool, closing, req, sweeping, taken>>

\* Broken: the sweeper does not look at stopSweeper.
SweeperStopsMutant == FALSE /\ UNCHANGED vars
SweeperStops ==
  /\ phase = "stopping" /\ sweeping
  /\ sweeping' = FALSE
  /\ UNCHANGED <<chrome, pool, closing, req, phase, taken, callsLeft, shutdownErr>>

\* Broken: the Chromes fetched since the last sweep are forgotten.
TakeEntriesMutant ==
  /\ phase = "stopping" /\ ~sweeping
  /\ phase' = "closing"
  /\ taken' = {entry[k] : k \in idle} \ {NoChrome}
  /\ kept' = {} /\ before' = {} /\ idle' = {}
  /\ entry' = [k \in Keys |-> NoChrome]
  /\ UNCHANGED <<chrome, closing, req, sweeping, callsLeft, shutdownErr>>
\* The sweeper is done: the entries are taken out of the pool.
TakeEntries ==
  /\ phase = "stopping" /\ ~sweeping
  /\ phase' = "closing"
  /\ taken' = Pooled
  /\ kept' = {} /\ before' = {} /\ idle' = {}
  /\ entry' = [k \in Keys |-> NoChrome]
  /\ UNCHANGED <<chrome, closing, req, sweeping, callsLeft, shutdownErr>>

CloseTaken(c) ==
  /\ phase = "closing" /\ c \in taken
  /\ taken' = taken \ {c}
  /\ chrome' = [chrome EXCEPT ![c].state = "dead"]
  /\ UNCHANGED <<pool, closing, req, phase, sweeping, callsLeft, shutdownErr>>
CloseTakenFails(c) ==
  /\ phase = "closing" /\ c \in taken /\ c \in Live
  /\ taken' = taken \ {c}
  /\ chrome' = [chrome EXCEPT ![c].state = "left"]
  /\ shutdownErr' = TRUE
  /\ UNCHANGED <<pool, closing, req, phase, sweeping, callsLeft>>

\* The process ends, with it its goroutines; Chromes that run go on running.
Exit ==
  /\ phase = "closing" /\ taken = {}
  /\ phase' = "exited"
  /\ UNCHANGED <<chrome, pool, closing, req, sweeping, taken, callsLeft, shutdownErr>>

-----------------------------------------------------------------------------

CloserStep(c) ==
  CloseEvicted(c) \/ CloseEvictedFails(c) \/ CloseTaken(c) \/ CloseTakenFails(c)

Next ==
  \/ \E r \in Requests, k \in Keys :
       Arrive(r, k) \/ GetPooled(r, k) \/ GetLaunched(r, k) \/ GetFails(r, k)
  \/ \E r \in Requests : Answer(r) \/ CallFails(r)
  \/ \E c \in Chromes : CloserStep(c) \/ Crash(c)
  \/ Age \/ Sweep
  \/ Signal \/ Drained \/ SweeperStops \/ TakeEntries \/ Exit

Spec == Init /\ [][Next]_vars

\* Ticks of the sweeper come, goroutines are scheduled, and the drain and each
\* Close end. Nothing forces requests to come or to be answered, nor the signal.
Fairness ==
  /\ \A c \in 1..MaxLaunches : WF_vars(c \in Chromes /\ CloserStep(c))
  /\ WF_vars(Sweep)
  /\ WF_vars(Drained) /\ WF_vars(SweeperStops) /\ WF_vars(TakeEntries) /\ WF_vars(Exit)

FairSpec == Spec /\ Fairness

-----------------------------------------------------------------------------
(* Properties. *)

\* No Chrome is lost: one that runs is in the pool, waits for a closer or for
\* close, or its Close has failed; and it is in one of these places only, so
\* that get never returns a Chrome somebody is about to close.
EveryChromeHasOneOwner ==
  /\ \A c \in Chromes : Running(c) =>
       c \in Pooled \cup closing \cup taken \/ chrome[c].state = "left"
  /\ Pooled \cap closing = {} /\ Pooled \cap taken = {} /\ closing \cap taken = {}
  /\ \A j, k \in kept : entry[j] = entry[k] /\ entry[j] # NoChrome => j = k

\* The Chrome of a request was launched for the proxy identity of the request,
\* whatever was evicted, launched again or retried in between.
ChromeFitsProxy ==
  \A r \in Requests : req[r].step = "holding" => chrome[req[r].chrome].key = req[r].key

\* resolveEngine, "a cached engine would carry a stale Browser value": a request
\* is handed a Chrome, at its first try or a later one, only if the pool keeps it.
TriesUseKeptChrome ==
  [][\A r \in Requests : req'[r] # req[r] /\ req'[r].step = "holding" =>
       req'[r].chrome \in Pooled']_vars

\* A shutdown without an error leaves no Chrome running, but those whose closing
\* after an eviction had failed or was not finished when the process ended, and
\* those that calls which the drain did not wait for have launched since close
\* emptied the pool. What was in the pool then is closed in any case.
CleanExit ==
  phase = "exited" /\ ~shutdownErr =>
    Live \subseteq IF callsLeft THEN closing \cup Pooled ELSE closing

\* A Chrome in the pool that is not fetched for idleTTL stops running, unless
\* it is fetched again, its Close fails, or the process ends.
IdleChromeStops ==
  \A c \in 1..MaxLaunches :
    (c \in Pooled /\ \E k \in idle : entry[k] = c)
      ~> \/ c \notin Live
         \/ \E k \in kept \ idle : entry[k] = c
         \/ phase = "exited"

\* The shutdown ends, however long the requests take.
ShutdownEnds == phase = "draining" ~> phase = "exited"
=============================================================================
