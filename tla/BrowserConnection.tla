-------------------------- MODULE BrowserConnection --------------------------
(***************************************************************************)
(* One Browser of core/browser.go: the DevTools connection its navigations *)
(* share, the listener that answers an authenticated proxy's challenges on *)
(* that connection, and the page each navigation opens, sets up, loads,    *)
(* hands to its engine and closes, in a browser context of its own.        *)
(*                                                                         *)
(* A connection is numbered when it is dialled. Its websocket may drop and *)
(* Chrome may crash at any time. browserConnection.mu is held through the  *)
(* whole of ensureConnectedBrowser and of Close: the processes in HoldSteps *)
(* are the ones that hold it. A page load needs the listener of its own    *)
(* connection when the proxy asks for credentials; one that never gets an  *)
(* answer ends at Browser.Timeout. One lane stands for every key of        *)
(* laneProfiles: lanes share nothing.                                      *)
(***************************************************************************)
EXTENDS Naturals, FiniteSets

CONSTANTS
  Navs,       \* requests that may be inside Navigate or hold its page
  Closer,     \* the goroutine that calls Close
  Profiles,   \* browser profiles
  NoProfile,  \* the lane has no profile yet
  Launches,   \* the configurations a Browser may be launched with
  MaxConns    \* bound on the connections dialled

ASSUME ConnectionAssumption ==
  /\ Closer \notin Navs /\ NoProfile \notin Profiles /\ Profiles # {}
  /\ MaxConns \in Nat \ {0}
  /\ Launches \subseteq [mode : {"direct", "proxied", "auth"}, leaveOpen : BOOLEAN]

NoConn == 0
Conns == 1 .. MaxConns
Procs == Navs \cup {Closer}
VARIABLES
  config,     \* launched without a proxy, with one (or Insecure), or with one that
              \* wants credentials (Browser.proxyUser); BrowserOpts.LeavePageOpen
  up,         \* Chrome runs
  made,       \* the connections dialled so far
  alive,      \* the connections whose websocket is open
  conn,       \* browserConnection.browser
  fresh,      \* lastOK is within healthPingSkipWindow
  listener,   \* the connection authCancel and authStopped belong to
  running,    \* the connections whose listener goroutine runs
  lane,       \* laneProfiles, of one lane
  contexts,   \* the navigations whose browser context is in Chrome and not given up
  watched,    \* the navigations whose network usage watcher runs
  proc        \* what each navigation, and the closer, is doing

chrome == <<up, made, alive>>
shared == <<conn, fresh, listener, running>>
pages == <<contexts, watched>>
vars == <<config, chrome, shared, lane, pages, proc>>

\* What a process does, the connection it has been given, whether it has forced
\* a reconnect, and its profile.
Steps == {"idle", "ensure", "dialing", "stopping", "unlistening",
          "certs", "create", "profile", "settle", "setup", "loading", "open", "undo", "closing", "finishing", "closed"}
Away == [step |-> "idle", on |-> NoConn, forced |-> FALSE, profile |-> NoProfile]

HoldSteps == {"dialing", "stopping", "unlistening", "closing", "finishing"}
Unlocked == \A p \in Procs : proc[p].step \notin HoldSteps

\* Steps of a navigation whose browser context exists.
WithContext == {"profile", "settle", "setup", "loading", "open", "undo"}
\* Steps in which the profile is applied to the page.
WithProfile == {"setup", "loading"}

TypeOK ==
  /\ config \in Launches /\ up \in BOOLEAN /\ fresh \in BOOLEAN
  /\ made \in 0 .. MaxConns /\ alive \subseteq 1 .. made
  /\ conn \in 0 .. made /\ listener \in 0 .. made /\ running \subseteq 1 .. made
  /\ lane \in Profiles \cup {NoProfile}
  /\ contexts \subseteq Navs /\ watched \subseteq Navs
  /\ proc \in [Procs -> [step : Steps, on : 0 .. made, forced : BOOLEAN,
                         profile : Profiles \cup {NoProfile}]]
  /\ \A p, q \in Procs : {proc[p].step, proc[q].step} \subseteq HoldSteps => p = q

Init ==
  /\ config \in Launches
  /\ up = TRUE /\ made = 0 /\ alive = {}
  /\ conn = NoConn /\ fresh = FALSE /\ listener = NoConn /\ running = {}
  /\ lane = NoProfile
  /\ contexts = {} /\ watched = {}
  /\ proc = [p \in Procs |-> Away]

At(p, s) == proc[p].step = s
Go(p, s) == proc' = [proc EXCEPT ![p].step = s]
\* The connection, the profile and the reconnect matter no more.
Forget(p, s) == proc' = [proc EXCEPT ![p] = [Away EXCEPT !.step = s]]
\* Navigate returns an error, or its page is closed.
Leave(p) == Forget(p, "idle")

-----------------------------------------------------------------------------
(* ensureConnectedBrowser. *)

\* Navigate, from its start to the lock of ensureConnectedBrowser. A context
\* that is already over returns at once and changes nothing.
Begin(n) ==
  /\ At(n, "idle")
  /\ Go(n, "ensure")
  /\ UNCHANGED <<config, chrome, shared, lane, pages>>

\* Where a navigation continues with the connection c. Only a first attempt
\* sets IgnoreCertErrors again.
Ensured(n, c) ==
  proc' = [proc EXCEPT ![n].on = c, ![n].step = IF proc[n].forced THEN "create" ELSE "certs"]

\* The lock is taken. A CDP call succeeded within the window: no ping.
Reuse(n) ==
  /\ At(n, "ensure") /\ Unlocked /\ ~proc[n].forced /\ conn # NoConn /\ fresh
  /\ Ensured(n, conn)
  /\ UNCHANGED <<config, chrome, shared, lane, pages>>

PingAnswers(n) ==
  /\ At(n, "ensure") /\ Unlocked /\ ~proc[n].forced /\ conn \in alive /\ ~fresh
  /\ fresh' = TRUE
  /\ Ensured(n, conn)
  /\ UNCHANGED <<config, chrome, conn, listener, running, lane, pages>>

\* The ping fails on a dead websocket; it may also run into its own deadline or
\* the request's on a live one. Without a connection, or forced, none is sent.
NeedsDial(n) ==
  /\ At(n, "ensure") /\ Unlocked
  /\ proc[n].forced \/ conn = NoConn \/ ~fresh
  /\ Go(n, "dialing")
  /\ UNCHANGED <<config, chrome, shared, lane, pages>>

\* connectBrowser: Connect and IgnoreCertErrors succeed.
Dial(n) ==
  /\ At(n, "dialing") /\ up /\ made < MaxConns
  /\ made' = made + 1 /\ alive' = alive \cup {made + 1}
  /\ IF config.mode = "auth"
     THEN /\ proc' = [proc EXCEPT ![n].on = made + 1, ![n].step = "stopping"]
          /\ UNCHANGED <<conn, fresh>>
     ELSE /\ Ensured(n, made + 1)
          /\ conn' = made + 1 /\ fresh' = TRUE
  /\ UNCHANGED <<config, up, listener, running, lane, pages>>

\* connectBrowser fails: the connection and its listener stay as they were.
DialFails(n) ==
  /\ At(n, "dialing")
  /\ Leave(n)
  /\ UNCHANGED <<config, chrome, shared, lane, pages>>

\* startProxyAuthListener: the previous listener is told to stop and has; the
\* next one runs, and FetchEnable succeeds: this is the connection now.
\* Broken: the previous listener is forgotten, not stopped.
ListenMutant(n) ==
  /\ At(n, "stopping") /\ proc[n].on \in alive
  /\ listener' = proc[n].on /\ running' = running \cup {proc[n].on}
  /\ conn' = proc[n].on /\ fresh' = TRUE
  /\ Ensured(n, proc[n].on)
  /\ UNCHANGED <<config, chrome, lane, pages>>
Listen(n) ==
  /\ At(n, "stopping") /\ listener \notin running /\ proc[n].on \in alive
  /\ listener' = proc[n].on /\ running' = running \cup {proc[n].on}
  /\ conn' = proc[n].on /\ fresh' = TRUE
  /\ Ensured(n, proc[n].on)
  /\ UNCHANGED <<config, chrome, lane, pages>>

\* FetchEnable fails, and the new listener is told to stop.
ListenFails(n) ==
  /\ At(n, "stopping") /\ listener \notin running
  /\ listener' = proc[n].on /\ running' = running \cup {proc[n].on}
  /\ Go(n, "unlistening")
  /\ UNCHANGED <<config, chrome, conn, fresh, lane, pages>>

\* The cancelled listener has stopped. The connection in use keeps its place,
\* although its own listener was stopped before.
Unlisten(n) ==
  /\ At(n, "unlistening") /\ listener \notin running
  /\ listener' = NoConn
  /\ Leave(n)
  /\ UNCHANGED <<config, chrome, conn, fresh, running, lane, pages>>

\* The contexts of listeners that have been cancelled.
Cancelled == {listener} \cap
  (IF \E p \in Procs : proc[p].step \in {"stopping", "unlistening", "closing"} THEN Conns ELSE {})

\* The listener goroutine returns: cancelled, or its event stream has ended.
\* Broken: it is not told to.
ListenerStopsMutant(c) ==
  /\ c \in running \ alive
  /\ running' = running \ {c}
  /\ UNCHANGED <<config, chrome, conn, fresh, listener, lane, pages, proc>>
ListenerStops(c) ==
  /\ c \in running \cap (Cancelled \cup (Conns \ alive))
  /\ running' = running \ {c}
  /\ UNCHANGED <<config, chrome, conn, fresh, listener, lane, pages, proc>>

-----------------------------------------------------------------------------
(* Navigate: the page. *)

\* IgnoreCertErrors, when there is a proxy. A dead websocket ends the request
\* here, before the reconnect that page creation would have forced.
IgnoreCertErrors(n) ==
  /\ At(n, "certs")
  /\ \/ /\ config.mode = "direct" \/ proc[n].on \in alive
        /\ Go(n, "create")
     \/ config.mode # "direct" /\ Leave(n)
  /\ UNCHANGED <<config, chrome, shared, lane, pages>>

\* createIsolatedPage: a browser context, its target and the target's page.
CreatePage(n) ==
  /\ At(n, "create") /\ proc[n].on \in alive
  /\ contexts' = contexts \cup {n}
  /\ proc' = [proc EXCEPT ![n].step = "profile", ![n].forced = FALSE]
  /\ UNCHANGED <<config, chrome, shared, lane, watched>>

\* The first page that cannot be created forces a reconnect, the second is an
\* error.
Retry(n) == IF proc[n].forced THEN Leave(n)
            ELSE proc' = [proc EXCEPT ![n].forced = TRUE, ![n].step = "ensure"]

\* createIsolatedPage fails, and has disposed of a context it had created.
CreateFails(n) ==
  /\ At(n, "create")
  /\ Retry(n)
  /\ UNCHANGED <<config, chrome, shared, lane, pages>>

\* page.Close and disposeBrowserContext. When the call does not get through the
\* context stays in Chrome, given up: it can no longer be named.
Dispose(n) == contexts' = contexts \ {n}

\* laneProfile looks the lane up under the lock ...
LaneKnown(n) ==
  /\ At(n, "profile") /\ Unlocked /\ lane # NoProfile
  /\ proc' = [proc EXCEPT ![n].profile = lane, ![n].step = "setup"]
  /\ UNCHANGED <<config, chrome, shared, lane, pages>>

\* ... selects a profile without it, for the version Chrome reports ...
LaneUnknown(n) ==
  /\ At(n, "profile") /\ Unlocked /\ lane = NoProfile
  /\ \E p \in Profiles : proc' = [proc EXCEPT ![n].profile = p, ![n].step = "settle"]
  /\ UNCHANGED <<config, chrome, shared, lane, pages>>

\* ... and takes the one another navigation has stored meanwhile.
SettleLane(n) ==
  /\ At(n, "settle") /\ Unlocked
  /\ lane' = IF lane = NoProfile THEN proc[n].profile ELSE lane
  /\ proc' = [proc EXCEPT ![n].profile = lane', ![n].step = "setup"]
  /\ UNCHANGED <<config, chrome, shared, pages>>

\* A watcher, if the request counts its bytes, and its end.
startNetworkUsageWatcher(n) == watched' \in {watched, watched \cup {n}}
stopNetworkUsageWatcher(n) == watched' = watched \ {n}

\* applyProfile, restoreLaneCookies, configureRequestBlocking and the watchers;
\* that of the document's status ends with Navigate.
Setup(n) ==
  /\ At(n, "setup") /\ proc[n].on \in alive
  /\ startNetworkUsageWatcher(n)
  /\ Go(n, "loading")
  /\ UNCHANGED <<config, chrome, shared, lane, contexts>>

SetupFails(n) ==
  /\ At(n, "setup")
  /\ Forget(n, "undo")
  /\ UNCHANGED <<config, chrome, shared, lane, pages>>

\* The page loads, or loads far enough: neither WaitLoad nor the request-idle
\* wait fails a navigation. The proxy's challenge was answered. The connection
\* is marked as working and the page is the engine's.
Load(n) ==
  /\ At(n, "loading") /\ Unlocked /\ proc[n].on \in alive
  /\ config.mode = "auth" => proc[n].on \in running
  /\ fresh' = TRUE
  /\ watched' = IF config.leaveOpen THEN watched \ {n} ELSE watched
  /\ Forget(n, "open")
  /\ UNCHANGED <<config, chrome, conn, listener, running, lane, contexts>>

\* Broken: the watcher of a page that is left open is forgotten.
LoadFailsMutant(n) ==
  /\ At(n, "loading")
  /\ IF config.leaveOpen
     THEN Dispose(n) /\ Leave(n)
     ELSE Forget(n, "undo") /\ UNCHANGED contexts
  /\ UNCHANGED <<config, chrome, shared, lane, watched>>
\* Navigation fails or times out, or the document was 403 or 429.
LoadFails(n) ==
  /\ At(n, "loading")
  /\ stopNetworkUsageWatcher(n)
  /\ IF config.leaveOpen
     THEN Dispose(n) /\ Leave(n)
     ELSE Forget(n, "undo") /\ UNCHANGED contexts
  /\ UNCHANGED <<config, chrome, shared, lane>>

\* closeOnErr: the page, then its context.
CloseOnErr(n) ==
  /\ At(n, "undo")
  /\ stopNetworkUsageWatcher(n)
  /\ Dispose(n)
  /\ Leave(n)
  /\ UNCHANGED <<config, chrome, shared, lane>>

\* The engine is done with its page. ClosePageWithTimeout stops the watcher,
\* closes the page and disposes of the context, if it could still ask for its
\* name; a page left open (LeavePageOpen) is given up.
ClosePage(n) ==
  /\ At(n, "open")
  /\ stopNetworkUsageWatcher(n)
  /\ Dispose(n)
  /\ Leave(n)
  /\ UNCHANGED <<config, chrome, shared, lane>>

-----------------------------------------------------------------------------
(* Close, and what happens to Chrome. *)

\* Close takes the lock and, without a connection, makes one that is not kept.
CloseBegins ==
  /\ At(Closer, "idle") /\ Unlocked
  /\ Go(Closer, IF conn = NoConn /\ ~up THEN "closed" ELSE "closing")
  /\ UNCHANGED <<config, chrome, shared, lane, pages>>

\* The listener has stopped, if there was one; the lock is still held.
CloseForgets ==
  /\ At(Closer, "closing") /\ (listener \notin running)
  /\ listener' = NoConn /\ conn' = NoConn /\ lane' = NoProfile
  /\ proc' = [proc EXCEPT ![Closer].on = conn, ![Closer].step = "finishing"]
  /\ UNCHANGED <<config, chrome, fresh, running, pages>>

\* browser.Close. On a websocket that is gone its error is taken for a Chrome
\* that is gone, which it need not be.
CloseEnds ==
  /\ At(Closer, "finishing")
  /\ \/ /\ up /\ proc[Closer].on \in alive \cup {NoConn}
        /\ up' = FALSE /\ alive' = {} /\ contexts' = {}
     \/ UNCHANGED <<up, alive, contexts>>
  /\ Go(Closer, "closed")
  /\ UNCHANGED <<config, made, shared, lane, watched>>

Crash ==
  /\ up
  /\ up' = FALSE /\ alive' = {} /\ contexts' = {}
  /\ UNCHANGED <<config, made, shared, lane, watched, proc>>

Drop(c) ==
  /\ c \in alive
  /\ alive' = alive \ {c}
  /\ UNCHANGED <<config, up, made, shared, lane, pages, proc>>

\* healthPingSkipWindow passes.
Age ==
  /\ fresh
  /\ fresh' = FALSE
  /\ UNCHANGED <<config, chrome, conn, listener, running, lane, pages, proc>>

-----------------------------------------------------------------------------
Ensure(n) == Dial(n) \/ DialFails(n) \/ Listen(n) \/ ListenFails(n) \/ Unlisten(n)
Unblocked(n) == Reuse(n) \/ PingAnswers(n) \/ NeedsDial(n)
             \/ LaneKnown(n) \/ LaneUnknown(n) \/ SettleLane(n) \/ Load(n)
Page(n) == IgnoreCertErrors(n) \/ CreatePage(n) \/ CreateFails(n)
        \/ Setup(n) \/ SetupFails(n) \/ LoadFails(n) \/ CloseOnErr(n)
Closing == CloseForgets \/ CloseEnds

Next ==
  \/ \E n \in Navs : Begin(n) \/ Unblocked(n) \/ Ensure(n) \/ Page(n) \/ ClosePage(n)
  \/ \E c \in Conns : ListenerStops(c) \/ Drop(c)
  \/ CloseBegins \/ Closing \/ Crash \/ Age

\* Goroutines run; sync.Mutex hands itself over to a waiter that has waited
\* long enough, so that a lock that is free again and again is taken; CDP calls
\* end (the page's by Browser.Timeout). Nobody has to navigate, nor to close.
Fairness ==
  /\ \A n \in Navs : SF_vars(Ensure(n) \/ Page(n) \/ Unblocked(n))
  /\ WF_vars(\E c \in Conns : ListenerStops(c))
  /\ WF_vars(Closing)

Spec == Init /\ [][Next]_vars
FairSpec == Spec /\ Fairness

-----------------------------------------------------------------------------
(* Properties. *)

\* Every listener goroutine is the one authCancel can still stop, so that no
\* reconnect leaves one behind, and when nobody holds the lock that listener
\* belongs to the connection in use.
ListenerIsOwned ==
  /\ running \subseteq {listener}
  /\ Unlocked => listener \in {NoConn, conn}

\* No path of a navigation forgets its browser context: one that was not given
\* up belongs to a navigation in progress, or to a page an engine holds.
ContextsHaveOwner == \A n \in contexts : proc[n].step \in WithContext

\* The network usage watcher of a page ends with the page, on every path.
WatchersHavePage == \A n \in watched : proc[n].step \in {"loading", "open", "undo"}

\* What a navigation has opened ends with it, whichever of its steps fails.
NothingLeaks == ContextsHaveOwner /\ WatchersHavePage

\* Until the Browser is closed, the pages of one lane carry one profile, also
\* when two navigations select it at the same time outside of the lock.
LanePagesAgree ==
  At(Closer, "idle") => \A n \in Navs : proc[n].step \in WithProfile => proc[n].profile = lane

\* The listener of a live connection keeps answering while a navigation loads
\* its page through it, unless the Browser is being closed.
ListenerLivesWithSession ==
  [][\A n \in Navs :
       /\ At(n, "loading") /\ At(Closer, "idle")
       /\ proc[n].on \in alive \cap running
       => proc[n].on \in running' \/ proc[n].on \notin alive']_vars

\* Every navigation returns, a page or an error, whatever drops meanwhile; and
\* Close ends, which waits for the listener with the lock held.
EveryCallReturns ==
  /\ \A n \in Navs : At(n, "ensure") ~> proc[n].step \in {"idle", "open"}
  /\ At(Closer, "closing") ~> At(Closer, "closed")

=============================================================================
