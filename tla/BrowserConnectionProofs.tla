---------------------- MODULE BrowserConnectionProofs ----------------------
(***************************************************************************)
(* Proofs about BrowserConnection, for any number of navigations,          *)
(* connections and profiles.                                               *)
(***************************************************************************)
EXTENDS BrowserConnection, TLAPS

-----------------------------------------------------------------------------
(* The inductive invariant: types; one holder of the lock; the listener that *)
(* runs is the one that can be stopped, and whose it is while it is being     *)
(* exchanged; what a navigation has made, it still has in its hands.          *)

Types ==
  /\ config \in Launches /\ up \in BOOLEAN /\ fresh \in BOOLEAN
  /\ made \in 0 .. MaxConns /\ alive \subseteq 1 .. made
  /\ conn \in 0 .. made /\ listener \in 0 .. made /\ running \subseteq 1 .. made
  /\ lane \in Profiles \cup {NoProfile}
  /\ contexts \subseteq Navs /\ watched \subseteq Navs

Slots(m) == [step : Steps, on : 0 .. m, forced : BOOLEAN, profile : Profiles \cup
     {NoProfile}]
ProcTypes == proc \in [Procs -> Slots(made)]

OneHolder ==
  \A p, q \in Procs : proc[p].step \in HoldSteps /\ proc[q].step \in HoldSteps => p = q

\* The lock is taken by a navigation for everything but Close.
CloserSteps == proc[Closer].step \in {"idle", "closing", "finishing", "closed"}
NavSteps == \A n \in Navs : proc[n].step \notin {"closing", "finishing", "closed"}

\* Only a listener that could not be enabled may be of another connection.
OwnListener ==
  /\ running \subseteq {listener}
  /\ (\A p \in Procs : proc[p].step # "unlistening") => listener \in {NoConn, conn}
  /\ \A n \in Navs : proc[n].step = "stopping" => proc[n].on \in 1 .. made
  /\ config.mode # "auth" =>
       listener = NoConn /\ \A n \in Navs : proc[n].step \notin {"stopping", "unlistening"}

Handed == ContextsHaveOwner /\ WatchersHavePage

\* A page has a profile from the step that selects one; while nothing closes the
\* Browser it is that of the lane.
LaneInv ==
  /\ \A n \in Navs : proc[n].step \in WithProfile \cup {"settle"} => proc[n].profile \in
       Profiles
  /\ LanePagesAgree

IInv ==
  /\ Types /\ ProcTypes /\ OneHolder /\ CloserSteps /\ NavSteps
  /\ OwnListener /\ Handed /\ LaneInv

\* A process that is away has no connection, whatever its step.
LEMMA AwayFits ==
  ASSUME NEW m \in Nat, NEW s \in Steps
  PROVE  [Away EXCEPT !.step = s] \in Slots(m)
<1>1. Away \in Slots(m)
  BY DEF Away, NoConn, Slots, Steps
<1>2. QED
  BY <1>1 DEF Slots

LEMMA Starts == Init => IInv
<1> SUFFICES ASSUME Init PROVE IInv
  OBVIOUS
<1>1. /\ Away = [step |-> "idle", on |-> 0, forced |-> FALSE, profile |-> NoProfile]
      /\ 0 \in 0 .. made
  BY DEF Away, NoConn, Init
<1>2. ProcTypes
  BY <1>1 DEF Init, ProcTypes, Slots, Steps
<1>3. Types
  <2>1. MaxConns \in Nat /\ 0 \in 0 .. MaxConns /\ 0 \in 0 .. 0
    BY ConnectionAssumption
  <2>2. QED
    BY <2>1 DEF Init, Types, NoConn
<1>4. \A p \in Procs : proc[p].step = "idle"
  BY <1>1 DEF Init
<1>5. QED
  BY <1>2, <1>3, <1>4
     DEF Init, IInv, OneHolder, CloserSteps, NavSteps, OwnListener, Handed,
         ContextsHaveOwner, WatchersHavePage, LaneInv, LanePagesAgree, WithProfile,
         HoldSteps, Procs

\* A step of one process that gives it a fitting slot keeps the types of all.
LEMMA ForgetFits ==
  ASSUME ProcTypes, made \in Nat, made' = made, NEW p \in Procs, NEW s \in Steps,
         Forget(p, s)
  PROVE  ProcTypes'
BY AwayFits DEF ProcTypes, Forget

LEMMA GoFits ==
  ASSUME ProcTypes, made \in Nat, made' = made, NEW p \in Procs, NEW s \in Steps, Go(p, s)
  PROVE  ProcTypes'
BY DEF ProcTypes, Slots, Go

LEMMA TypesKept == IInv /\ [Next]_vars => Types' /\ ProcTypes'
<1> SUFFICES ASSUME IInv, [Next]_vars PROVE Types' /\ ProcTypes'
  OBVIOUS
<1>a. /\ Types /\ ProcTypes /\ made \in Nat /\ MaxConns \in Nat
      /\ Navs \subseteq Procs /\ Closer \in Procs
  BY ConnectionAssumption DEF IInv, Types, Procs
<1>b. \A n \in Navs : proc[n].step = "stopping" => proc[n].on \in 1 .. made
  BY DEF IInv, OwnListener
<1>1. ASSUME NEW n \in Navs,
             Begin(n) \/ Unblocked(n) \/ Ensure(n) \/ Page(n) \/ ClosePage(n)
      PROVE  Types' /\ ProcTypes'
  <2>1. CASE Begin(n)
    <3>1. Types'
      BY <1>a, <2>1 DEF Begin, Types, chrome, shared, pages
    <3>2. ProcTypes'
      BY <1>a, <2>1, GoFits DEF Begin, Steps, chrome, shared, pages
    <3>3. QED
      BY <3>1, <3>2
  <2>2. CASE Reuse(n)
    <3>1. Types'
      BY <1>a, <2>2 DEF Reuse, Types, NoConn, chrome, shared, pages
    <3>2. ProcTypes'
      BY <1>a, <2>2 DEF Reuse, Types, ProcTypes, Slots, Ensured, Steps, chrome, shared,
           pages
    <3>3. QED
      BY <3>1, <3>2
  <2>3. CASE PingAnswers(n)
    <3>1. Types'
      BY <1>a, <2>3 DEF PingAnswers, Types, chrome, pages
    <3>2. ProcTypes'
      BY <1>a, <2>3 DEF PingAnswers, Types, ProcTypes, Slots, Ensured, Steps, chrome,
           shared, pages
    <3>3. QED
      BY <3>1, <3>2
  <2>4. CASE NeedsDial(n)
    <3>1. Types'
      BY <1>a, <2>4 DEF NeedsDial, Types, NoConn, chrome, shared, pages
    <3>2. ProcTypes'
      BY <1>a, <2>4, GoFits DEF NeedsDial, Steps, chrome, shared, pages
    <3>3. QED
      BY <3>1, <3>2
  <2>5. CASE LaneKnown(n)
    <3>1. Types'
      BY <1>a, <2>5 DEF LaneKnown, Types, chrome, shared, pages
    <3>2. ProcTypes'
      BY <1>a, <2>5 DEF LaneKnown, Types, ProcTypes, Slots, Ensured, Steps, chrome,
           shared, pages
    <3>3. QED
      BY <3>1, <3>2
  <2>6. CASE LaneUnknown(n)
    <3>1. Types'
      BY <1>a, <2>6 DEF LaneUnknown, Types, chrome, shared, pages
    <3>2. ProcTypes'
      BY <1>a, <2>6 DEF LaneUnknown, Types, ProcTypes, Slots, Ensured, Steps, chrome,
           shared, pages
    <3>3. QED
      BY <3>1, <3>2
  <2>7. CASE SettleLane(n)
    <3>1. Types'
      BY <1>a, <2>7 DEF SettleLane, Types, ProcTypes, Slots, chrome, shared, pages
    <3>2. ProcTypes'
      BY <1>a, <2>7 DEF SettleLane, Types, ProcTypes, Slots, Ensured, Steps, chrome,
           shared, pages
    <3>3. QED
      BY <3>1, <3>2
  <2>8. CASE Load(n)
    <3>1. Types'
      BY <1>a, <2>8 DEF Load, Types, chrome
    <3>2. ProcTypes'
      BY <1>a, <2>8, ForgetFits DEF Load, Leave, Steps, chrome, shared, pages
    <3>3. QED
      BY <3>1, <3>2
  <2>9. CASE Dial(n)
    <3>1. Types'
      <4>1. made' = made + 1 /\ made < MaxConns /\ alive' = alive \cup {made + 1}
        BY <2>9 DEF Dial
      <4>2. conn' = conn \/ conn' = made + 1
        BY <2>9 DEF Dial
      <4>3. fresh' \in BOOLEAN
        BY <1>a, <2>9 DEF Dial, Types
      <4>4. UNCHANGED <<config, up, listener, running, lane, contexts, watched>>
        BY <2>9 DEF Dial, pages
      <4>5. /\ made' \in 0 .. MaxConns /\ alive' \subseteq 1 .. made'
            /\ conn' \in 0 .. made' /\ listener' \in 0 .. made' /\ running' \subseteq 1 ..
                 made'
        BY <1>a, <4>1, <4>2, <4>4 DEF Types
      <4>6. QED
        BY <1>a, <4>3, <4>4, <4>5 DEF Types
    <3>2. ProcTypes'
      BY <1>a, <2>9 DEF Dial, Types, ProcTypes, Slots, Ensured, Steps, chrome, shared, pages
    <3>3. QED
      BY <3>1, <3>2
  <2>10. CASE DialFails(n)
    <3>1. Types'
      BY <1>a, <2>10 DEF DialFails, Types, chrome, shared, pages
    <3>2. ProcTypes'
      BY <1>a, <2>10, ForgetFits DEF DialFails, Leave, Steps, chrome, shared, pages
    <3>3. QED
      BY <3>1, <3>2
  <2>11. CASE Listen(n)
    <3>1. Types'
      <4>1. proc[n].on \in 1 .. made /\ proc[n].on \in 0 .. made
        BY <1>b, <2>11 DEF Listen, At
      <4>2. QED
        BY <1>a, <4>1, <2>11 DEF Listen, Types, chrome, pages
    <3>2. ProcTypes'
      BY <1>a, <2>11 DEF Listen, Types, ProcTypes, Slots, Ensured, Steps, chrome, shared,
           pages
    <3>3. QED
      BY <3>1, <3>2
  <2>12. CASE ListenFails(n)
    <3>1. Types'
      <4>1. proc[n].on \in 1 .. made /\ proc[n].on \in 0 .. made
        BY <1>b, <2>12 DEF ListenFails, At
      <4>2. QED
        BY <1>a, <4>1, <2>12 DEF ListenFails, Types, chrome, pages
    <3>2. ProcTypes'
      BY <1>a, <2>12, GoFits DEF ListenFails, Steps, chrome, shared, pages
    <3>3. QED
      BY <3>1, <3>2
  <2>13. CASE Unlisten(n)
    <3>1. Types'
      BY <1>a, <2>13 DEF Unlisten, Types, NoConn, chrome, pages
    <3>2. ProcTypes'
      BY <1>a, <2>13, ForgetFits DEF Unlisten, Leave, Steps, chrome, shared, pages
    <3>3. QED
      BY <3>1, <3>2
  <2>14. CASE IgnoreCertErrors(n)
    <3>1. Types'
      BY <1>a, <2>14 DEF IgnoreCertErrors, Types, chrome, shared, pages
    <3>2. ProcTypes'
      BY <1>a, <2>14, GoFits, ForgetFits DEF IgnoreCertErrors, Leave, Steps, chrome
    <3>3. QED
      BY <3>1, <3>2
  <2>15. CASE CreatePage(n)
    <3>1. Types'
      BY <1>a, <2>15 DEF CreatePage, Types, chrome, shared
    <3>2. ProcTypes'
      BY <1>a, <2>15 DEF CreatePage, Types, ProcTypes, Slots, Ensured, Steps, chrome,
           shared, pages
    <3>3. QED
      BY <3>1, <3>2
  <2>16. CASE CreateFails(n)
    <3>1. Types'
      BY <1>a, <2>16 DEF CreateFails, Types, chrome, shared, pages
    <3>2. ProcTypes'
      <4>1. CASE proc[n].forced
        BY <1>a, <2>16, <4>1, ForgetFits DEF CreateFails, Retry, Leave, Steps, chrome
      <4>2. CASE ~proc[n].forced
        <5>1. made' = made /\ proc' = [proc EXCEPT ![n].forced = TRUE, ![n].step = "ensure"]
          BY <2>16, <4>2 DEF CreateFails, Retry, chrome
        <5>2. QED
          BY <1>a, <5>1 DEF ProcTypes, Slots, Steps
      <4>3. QED
        BY <4>1, <4>2
    <3>3. QED
      BY <3>1, <3>2
  <2>17. CASE Setup(n)
    <3>1. Types'
      BY <1>a, <2>17 DEF Setup, Types, startNetworkUsageWatcher, chrome, shared
    <3>2. ProcTypes'
      BY <1>a, <2>17, GoFits DEF Setup, Steps, chrome, shared, pages
    <3>3. QED
      BY <3>1, <3>2
  <2>18. CASE SetupFails(n)
    <3>1. Types'
      BY <1>a, <2>18 DEF SetupFails, Types, chrome, shared, pages
    <3>2. ProcTypes'
      BY <1>a, <2>18, ForgetFits DEF SetupFails, Leave, Steps, chrome, shared, pages
    <3>3. QED
      BY <3>1, <3>2
  <2>19. CASE LoadFails(n)
    <3>1. Types'
      BY <1>a, <2>19 DEF LoadFails, Types, Dispose, stopNetworkUsageWatcher, chrome, shared
    <3>2. ProcTypes'
      BY <1>a, <2>19, ForgetFits DEF LoadFails, Leave, Steps, chrome, shared, pages
    <3>3. QED
      BY <3>1, <3>2
  <2>20. CASE CloseOnErr(n)
    <3>1. Types'
      BY <1>a, <2>20 DEF CloseOnErr, Types, Dispose, stopNetworkUsageWatcher, chrome, shared
    <3>2. ProcTypes'
      BY <1>a, <2>20, ForgetFits DEF CloseOnErr, Leave, Steps, chrome, shared, pages
    <3>3. QED
      BY <3>1, <3>2
  <2>21. CASE ClosePage(n)
    <3>1. Types'
      BY <1>a, <2>21 DEF ClosePage, Types, Dispose, stopNetworkUsageWatcher, chrome, shared
    <3>2. ProcTypes'
      BY <1>a, <2>21, ForgetFits DEF ClosePage, Leave, Steps, chrome, shared, pages
    <3>3. QED
      BY <3>1, <3>2
  <2> QED
    BY <1>1, <2>1, <2>2, <2>3, <2>4, <2>5, <2>6, <2>7, <2>8, <2>9, <2>10, <2>11, <2>12,
         <2>13, <2>14, <2>15, <2>16, <2>17, <2>18, <2>19, <2>20, <2>21 DEF Unblocked,
         Ensure, Page
<1>2. ASSUME NEW c \in Conns, ListenerStops(c) \/ Drop(c)
      PROVE  Types' /\ ProcTypes'
  BY <1>a, <1>2 DEF ListenerStops, Drop, Types, ProcTypes, chrome, shared, pages
<1>3. CASE CloseBegins
  <2>1. ProcTypes'
    BY <1>a, <1>3, GoFits DEF CloseBegins, Steps, chrome
  <2>2. QED
    BY <1>a, <1>3, <2>1 DEF CloseBegins, Types, chrome, shared, pages
<1>4. CASE CloseForgets
  <2>1. ProcTypes'
    <3>1. conn \in 0 .. made /\ made' = made
      BY <1>a, <1>4 DEF CloseForgets, Types, chrome
    <3>2. QED
      BY <1>a, <1>4, <3>1 DEF CloseForgets, ProcTypes, Slots, Steps
  <2>2. QED
    BY <1>a, <1>4, <2>1 DEF CloseForgets, Types, NoConn, chrome, pages
<1>5. CASE CloseEnds
  <2>1. ProcTypes'
    BY <1>a, <1>5, GoFits DEF CloseEnds, Steps
  <2>2. QED
    BY <1>a, <1>5, <2>1 DEF CloseEnds, Types, shared
<1>6. CASE Crash \/ Age
  BY <1>a, <1>6 DEF Crash, Age, Types, ProcTypes, chrome, shared, pages
<1>7. CASE UNCHANGED vars
  BY <1>a, <1>7 DEF vars, Types, ProcTypes, chrome, shared, pages
<1> QED
  BY <1>1, <1>2, <1>3, <1>4, <1>5, <1>6, <1>7 DEF Next, Closing

\* A step that takes the lock finds nobody holding it.
LEMMA HolderKept == IInv /\ [Next]_vars => OneHolder' /\ CloserSteps' /\ NavSteps'
<1> SUFFICES ASSUME IInv, [Next]_vars PROVE OneHolder' /\ CloserSteps' /\ NavSteps'
  OBVIOUS
<1> USE ConnectionAssumption DEF IInv, ProcTypes, Slots, OneHolder, CloserSteps, NavSteps,
     HoldSteps, Procs, Unlocked, At, Go, Forget, Leave, Away, Ensured, Retry
<1>1. ASSUME NEW n \in Navs,
             Begin(n) \/ Unblocked(n) \/ Ensure(n) \/ Page(n) \/ ClosePage(n)
      PROVE  OneHolder' /\ CloserSteps' /\ NavSteps'
  <2>1. CASE Begin(n)
    BY <2>1 DEF Begin, chrome, shared, pages
  <2>2. CASE Reuse(n)
    BY <2>2 DEF Reuse, chrome, shared, pages
  <2>3. CASE PingAnswers(n)
    BY <2>3 DEF PingAnswers, chrome, pages
  <2>4. CASE NeedsDial(n)
    BY <2>4 DEF NeedsDial, chrome, shared, pages
  <2>5. CASE LaneKnown(n)
    BY <2>5 DEF LaneKnown, chrome, shared, pages
  <2>6. CASE LaneUnknown(n)
    BY <2>6 DEF LaneUnknown, chrome, shared, pages
  <2>7. CASE SettleLane(n)
    BY <2>7 DEF SettleLane, chrome, shared, pages
  <2>8. CASE Load(n)
    BY <2>8 DEF Load, chrome
  <2>9. CASE Dial(n)
    BY <2>9 DEF Dial, pages
  <2>10. CASE DialFails(n)
    BY <2>10 DEF DialFails, chrome, shared, pages
  <2>11. CASE Listen(n)
    BY <2>11 DEF Listen, chrome, pages
  <2>12. CASE ListenFails(n)
    BY <2>12 DEF ListenFails, chrome, pages
  <2>13. CASE Unlisten(n)
    BY <2>13 DEF Unlisten, chrome, pages
  <2>14. CASE IgnoreCertErrors(n)
    BY <2>14 DEF IgnoreCertErrors, chrome, shared, pages
  <2>15. CASE CreatePage(n)
    BY <2>15 DEF CreatePage, chrome, shared
  <2>16. CASE CreateFails(n)
    BY <2>16 DEF CreateFails, chrome, shared, pages
  <2>17. CASE Setup(n)
    BY <2>17 DEF Setup, startNetworkUsageWatcher, chrome, shared
  <2>18. CASE SetupFails(n)
    BY <2>18 DEF SetupFails, chrome, shared, pages
  <2>19. CASE LoadFails(n)
    BY <2>19 DEF LoadFails, Dispose, stopNetworkUsageWatcher, chrome, shared
  <2>20. CASE CloseOnErr(n)
    BY <2>20 DEF CloseOnErr, Dispose, stopNetworkUsageWatcher, chrome, shared
  <2>21. CASE ClosePage(n)
    BY <2>21 DEF ClosePage, Dispose, stopNetworkUsageWatcher, chrome, shared
  <2> QED
    BY <1>1, <2>1, <2>2, <2>3, <2>4, <2>5, <2>6, <2>7, <2>8, <2>9, <2>10, <2>11, <2>12,
         <2>13, <2>14, <2>15, <2>16, <2>17, <2>18, <2>19, <2>20, <2>21 DEF Unblocked,
         Ensure, Page
<1>2. ASSUME NEW c \in Conns, ListenerStops(c) \/ Drop(c)
      PROVE  OneHolder' /\ CloserSteps' /\ NavSteps'
  BY <1>2 DEF ListenerStops, Drop, Cancelled, shared, pages
<1>3. CASE CloseBegins
  BY <1>3 DEF CloseBegins, chrome, shared, pages
<1>4. CASE CloseForgets
  BY <1>4 DEF CloseForgets, chrome, pages
<1>5. CASE CloseEnds
  BY <1>5 DEF CloseEnds, shared
<1>6. CASE Crash
  BY <1>6 DEF Crash, shared
<1>7. CASE Age
  BY <1>7 DEF Age, chrome, pages
<1>8. CASE UNCHANGED vars
  BY <1>8 DEF vars, chrome, shared, pages
<1> QED
  BY <1>1, <1>2, <1>3, <1>4, <1>5, <1>6, <1>7, <1>8 DEF Next, Closing

\* Only one process at a time exchanges the listener, and not before the old one has stopped.
LEMMA ListenerKept == IInv /\ [Next]_vars => OwnListener'
<1> SUFFICES ASSUME IInv, [Next]_vars PROVE OwnListener'
  OBVIOUS
<1> USE ConnectionAssumption DEF IInv, Types, ProcTypes, Slots, OneHolder, CloserSteps,
     NavSteps, OwnListener, HoldSteps, NoConn, Conns, Procs, Unlocked, At, Go, Forget,
     Leave, Away, Ensured, Retry
<1>1. ASSUME NEW n \in Navs,
             Begin(n) \/ Unblocked(n) \/ Ensure(n) \/ Page(n) \/ ClosePage(n)
      PROVE  OwnListener'
  <2>1. CASE Begin(n)
    BY <2>1 DEF Begin, chrome, shared, pages
  <2>2. CASE Reuse(n)
    BY <2>2 DEF Reuse, chrome, shared, pages
  <2>3. CASE PingAnswers(n)
    BY <2>3 DEF PingAnswers, chrome, pages
  <2>4. CASE NeedsDial(n)
    BY <2>4 DEF NeedsDial, chrome, shared, pages
  <2>5. CASE LaneKnown(n)
    BY <2>5 DEF LaneKnown, chrome, shared, pages
  <2>6. CASE LaneUnknown(n)
    BY <2>6 DEF LaneUnknown, chrome, shared, pages
  <2>7. CASE SettleLane(n)
    BY <2>7 DEF SettleLane, chrome, shared, pages
  <2>8. CASE Load(n)
    BY <2>8 DEF Load, chrome
  <2>9. CASE Dial(n)
    BY <2>9 DEF Dial, pages
  <2>10. CASE DialFails(n)
    BY <2>10 DEF DialFails, chrome, shared, pages
  <2>11. CASE Listen(n)
    BY <2>11 DEF Listen, chrome, pages
  <2>12. CASE ListenFails(n)
    BY <2>12 DEF ListenFails, chrome, pages
  <2>13. CASE Unlisten(n)
    BY <2>13 DEF Unlisten, chrome, pages
  <2>14. CASE IgnoreCertErrors(n)
    BY <2>14 DEF IgnoreCertErrors, chrome, shared, pages
  <2>15. CASE CreatePage(n)
    BY <2>15 DEF CreatePage, chrome, shared
  <2>16. CASE CreateFails(n)
    BY <2>16 DEF CreateFails, chrome, shared, pages
  <2>17. CASE Setup(n)
    BY <2>17 DEF Setup, startNetworkUsageWatcher, chrome, shared
  <2>18. CASE SetupFails(n)
    BY <2>18 DEF SetupFails, chrome, shared, pages
  <2>19. CASE LoadFails(n)
    BY <2>19 DEF LoadFails, Dispose, stopNetworkUsageWatcher, chrome, shared
  <2>20. CASE CloseOnErr(n)
    BY <2>20 DEF CloseOnErr, Dispose, stopNetworkUsageWatcher, chrome, shared
  <2>21. CASE ClosePage(n)
    BY <2>21 DEF ClosePage, Dispose, stopNetworkUsageWatcher, chrome, shared
  <2> QED
    BY <1>1, <2>1, <2>2, <2>3, <2>4, <2>5, <2>6, <2>7, <2>8, <2>9, <2>10, <2>11, <2>12,
         <2>13, <2>14, <2>15, <2>16, <2>17, <2>18, <2>19, <2>20, <2>21 DEF Unblocked,
         Ensure, Page
<1>2. ASSUME NEW c \in Conns, ListenerStops(c) \/ Drop(c)
      PROVE  OwnListener'
  <2>1. CASE ListenerStops(c)
    BY <2>1 DEF ListenerStops, chrome, pages
  <2>2. CASE Drop(c)
    BY <2>2 DEF Drop, shared, pages
  <2>3. QED
    BY <1>2, <2>1, <2>2
<1>3. CASE CloseBegins
  BY <1>3 DEF CloseBegins, chrome, shared, pages
<1>4. CASE CloseForgets
  BY <1>4 DEF CloseForgets, chrome, pages
<1>5. CASE CloseEnds
  BY <1>5 DEF CloseEnds, shared
<1>6. CASE Crash
  BY <1>6 DEF Crash, shared
<1>7. CASE Age
  BY <1>7 DEF Age, chrome, pages
<1>8. CASE UNCHANGED vars
  BY <1>8 DEF vars, chrome, shared, pages
<1> QED
  BY <1>1, <1>2, <1>3, <1>4, <1>5, <1>6, <1>7, <1>8 DEF Next, Closing

\* Every step out of the ones with a page gives up what was made for it.
LEMMA PagesKept == IInv /\ [Next]_vars => Handed'
<1> SUFFICES ASSUME IInv, [Next]_vars PROVE Handed'
  OBVIOUS
<1> USE ConnectionAssumption DEF IInv, Types, ProcTypes, Slots, CloserSteps, NavSteps,
     Handed, ContextsHaveOwner, WatchersHavePage, WithContext, Procs, At, Go, Forget,
     Leave, Away, Ensured, Retry
<1>1. ASSUME NEW n \in Navs,
             Begin(n) \/ Unblocked(n) \/ Ensure(n) \/ Page(n) \/ ClosePage(n)
      PROVE  Handed'
  <2>1. CASE Begin(n)
    BY <2>1 DEF Begin, chrome, shared, pages
  <2>2. CASE Reuse(n)
    BY <2>2 DEF Reuse, chrome, shared, pages
  <2>3. CASE PingAnswers(n)
    BY <2>3 DEF PingAnswers, chrome, pages
  <2>4. CASE NeedsDial(n)
    BY <2>4 DEF NeedsDial, chrome, shared, pages
  <2>5. CASE LaneKnown(n)
    BY <2>5 DEF LaneKnown, chrome, shared, pages
  <2>6. CASE LaneUnknown(n)
    BY <2>6 DEF LaneUnknown, chrome, shared, pages
  <2>7. CASE SettleLane(n)
    BY <2>7 DEF SettleLane, chrome, shared, pages
  <2>8. CASE Load(n)
    BY <2>8 DEF Load, chrome
  <2>9. CASE Dial(n)
    BY <2>9 DEF Dial, pages
  <2>10. CASE DialFails(n)
    BY <2>10 DEF DialFails, chrome, shared, pages
  <2>11. CASE Listen(n)
    BY <2>11 DEF Listen, chrome, pages
  <2>12. CASE ListenFails(n)
    BY <2>12 DEF ListenFails, chrome, pages
  <2>13. CASE Unlisten(n)
    BY <2>13 DEF Unlisten, chrome, pages
  <2>14. CASE IgnoreCertErrors(n)
    BY <2>14 DEF IgnoreCertErrors, chrome, shared, pages
  <2>15. CASE CreatePage(n)
    BY <2>15 DEF CreatePage, chrome, shared
  <2>16. CASE CreateFails(n)
    BY <2>16 DEF CreateFails, chrome, shared, pages
  <2>17. CASE Setup(n)
    BY <2>17 DEF Setup, startNetworkUsageWatcher, chrome, shared
  <2>18. CASE SetupFails(n)
    BY <2>18 DEF SetupFails, chrome, shared, pages
  <2>19. CASE LoadFails(n)
    BY <2>19 DEF LoadFails, Dispose, stopNetworkUsageWatcher, chrome, shared
  <2>20. CASE CloseOnErr(n)
    BY <2>20 DEF CloseOnErr, Dispose, stopNetworkUsageWatcher, chrome, shared
  <2>21. CASE ClosePage(n)
    BY <2>21 DEF ClosePage, Dispose, stopNetworkUsageWatcher, chrome, shared
  <2> QED
    BY <1>1, <2>1, <2>2, <2>3, <2>4, <2>5, <2>6, <2>7, <2>8, <2>9, <2>10, <2>11, <2>12,
         <2>13, <2>14, <2>15, <2>16, <2>17, <2>18, <2>19, <2>20, <2>21 DEF Unblocked,
         Ensure, Page
<1>2. ASSUME NEW c \in Conns, ListenerStops(c) \/ Drop(c)
      PROVE  Handed'
  BY <1>2 DEF ListenerStops, Drop, Cancelled, shared, pages
<1>3. CASE CloseBegins
  BY <1>3 DEF CloseBegins, chrome, shared, pages
<1>4. CASE CloseForgets
  BY <1>4 DEF CloseForgets, chrome, pages
<1>5. CASE CloseEnds
  BY <1>5 DEF CloseEnds, shared
<1>6. CASE Crash
  BY <1>6 DEF Crash, shared
<1>7. CASE Age
  BY <1>7 DEF Age, chrome, pages
<1>8. CASE UNCHANGED vars
  BY <1>8 DEF vars, chrome, shared, pages
<1> QED
  BY <1>1, <1>2, <1>3, <1>4, <1>5, <1>6, <1>7, <1>8 DEF Next, Closing

\* A profile is taken from the lane, or given to it by the first to settle.
LEMMA LaneKept == IInv /\ [Next]_vars => LaneInv'
<1> SUFFICES ASSUME IInv, [Next]_vars PROVE LaneInv'
  OBVIOUS
<1> USE ConnectionAssumption DEF IInv, Types, ProcTypes, Slots, CloserSteps, NavSteps,
     LaneInv, LanePagesAgree, Procs, WithProfile, At, Go, Forget, Leave, Away, Ensured,
     Retry
<1>1. ASSUME NEW n \in Navs,
             Begin(n) \/ Unblocked(n) \/ Ensure(n) \/ Page(n) \/ ClosePage(n)
      PROVE  LaneInv'
  <2>1. CASE Begin(n)
    BY <2>1 DEF Begin, chrome, shared, pages
  <2>2. CASE Reuse(n)
    BY <2>2 DEF Reuse, chrome, shared, pages
  <2>3. CASE PingAnswers(n)
    BY <2>3 DEF PingAnswers, chrome, pages
  <2>4. CASE NeedsDial(n)
    BY <2>4 DEF NeedsDial, chrome, shared, pages
  <2>5. CASE LaneKnown(n)
    BY <2>5 DEF LaneKnown, chrome, shared, pages
  <2>6. CASE LaneUnknown(n)
    BY <2>6 DEF LaneUnknown, chrome, shared, pages
  <2>7. CASE SettleLane(n)
    BY <2>7 DEF SettleLane, chrome, shared, pages
  <2>8. CASE Load(n)
    BY <2>8 DEF Load, chrome
  <2>9. CASE Dial(n)
    BY <2>9 DEF Dial, pages
  <2>10. CASE DialFails(n)
    BY <2>10 DEF DialFails, chrome, shared, pages
  <2>11. CASE Listen(n)
    BY <2>11 DEF Listen, chrome, pages
  <2>12. CASE ListenFails(n)
    BY <2>12 DEF ListenFails, chrome, pages
  <2>13. CASE Unlisten(n)
    BY <2>13 DEF Unlisten, chrome, pages
  <2>14. CASE IgnoreCertErrors(n)
    BY <2>14 DEF IgnoreCertErrors, chrome, shared, pages
  <2>15. CASE CreatePage(n)
    BY <2>15 DEF CreatePage, chrome, shared
  <2>16. CASE CreateFails(n)
    BY <2>16 DEF CreateFails, chrome, shared, pages
  <2>17. CASE Setup(n)
    BY <2>17 DEF Setup, startNetworkUsageWatcher, chrome, shared
  <2>18. CASE SetupFails(n)
    BY <2>18 DEF SetupFails, chrome, shared, pages
  <2>19. CASE LoadFails(n)
    BY <2>19 DEF LoadFails, Dispose, stopNetworkUsageWatcher, chrome, shared
  <2>20. CASE CloseOnErr(n)
    BY <2>20 DEF CloseOnErr, Dispose, stopNetworkUsageWatcher, chrome, shared
  <2>21. CASE ClosePage(n)
    BY <2>21 DEF ClosePage, Dispose, stopNetworkUsageWatcher, chrome, shared
  <2> QED
    BY <1>1, <2>1, <2>2, <2>3, <2>4, <2>5, <2>6, <2>7, <2>8, <2>9, <2>10, <2>11, <2>12,
         <2>13, <2>14, <2>15, <2>16, <2>17, <2>18, <2>19, <2>20, <2>21 DEF Unblocked,
         Ensure, Page
<1>2. ASSUME NEW c \in Conns, ListenerStops(c) \/ Drop(c)
      PROVE  LaneInv'
  BY <1>2 DEF ListenerStops, Drop, Cancelled, shared, pages
<1>3. CASE CloseBegins
  BY <1>3 DEF CloseBegins, chrome, shared, pages
<1>4. CASE CloseForgets
  BY <1>4 DEF CloseForgets, chrome, pages
<1>5. CASE CloseEnds
  BY <1>5 DEF CloseEnds, shared
<1>6. CASE Crash
  BY <1>6 DEF Crash, shared
<1>7. CASE Age
  BY <1>7 DEF Age, chrome, pages
<1>8. CASE UNCHANGED vars
  BY <1>8 DEF vars, chrome, shared, pages
<1> QED
  BY <1>1, <1>2, <1>3, <1>4, <1>5, <1>6, <1>7, <1>8 DEF Next, Closing

LEMMA Inductive == IInv /\ [Next]_vars => IInv'
BY TypesKept, HolderKept, ListenerKept, PagesKept, LaneKept DEF IInv

LEMMA Invariance == Spec => []IInv
<1>1. Init => IInv
  BY Starts
<1>2. IInv /\ [Next]_vars => IInv'
  BY Inductive
<1>3. QED
  BY <1>1, <1>2, PTL DEF Spec

-----------------------------------------------------------------------------
(* Theorems. *)

\* The connection lock excludes: at most one navigation or close dials,
\* exchanges the listener or closes, however many there are.
THEOREM TypeCorrect == Spec => []TypeOK
<1>1. IInv => TypeOK
  <2> SUFFICES ASSUME IInv PROVE TypeOK
    OBVIOUS
  <2>1. \A p, q \in Procs : {proc[p].step, proc[q].step} \subseteq HoldSteps => p = q
    BY DEF IInv, OneHolder
  <2>2. QED
    BY <2>1 DEF IInv, Types, ProcTypes, Slots, TypeOK
<1>2. QED
  BY <1>1, Invariance, PTL

\* No reconnect and no close leaves a listener behind that nothing can stop
\* (startProxyAuthListener).
THEOREM ListenerOwned == Spec => []ListenerIsOwned
<1>1. IInv => ListenerIsOwned
  <2> SUFFICES ASSUME IInv PROVE ListenerIsOwned
    OBVIOUS
  <2>1. Unlocked => \A p \in Procs : proc[p].step # "unlistening"
    BY DEF Unlocked, HoldSteps
  <2>2. QED
    BY <2>1 DEF IInv, OwnListener, ListenerIsOwned
<1>2. QED
  BY <1>1, Invariance, PTL

\* However a navigation ends, its browser context and its network usage watcher
\* have ended, or were given up, with it (Navigate, ClosePageWithTimeout).
THEOREM NothingIsLeaked == Spec => []NothingLeaks
<1>1. IInv => NothingLeaks
  BY DEF IInv, Handed, NothingLeaks
<1>2. QED
  BY <1>1, Invariance, PTL

\* The pages of a lane carry the profile of the lane, whichever navigations
\* select one at the same time (laneProfile).
THEOREM LaneAgrees == Spec => []LanePagesAgree
<1>1. IInv => LanePagesAgree
  BY DEF IInv, LaneInv
<1>2. QED
  BY <1>1, Invariance, PTL

=============================================================================
