----------------------------- MODULE ProxyLanes -----------------------------
(***************************************************************************)
(* The lane store of core/proxy_lane.go, and the pages that use it the way *)
(* Navigate in core/browser.go does.                                       *)
(*                                                                         *)
(* A lane stands for one identity towards an engine: the requests of one   *)
(* engine, tenant and proxy session.  The store remembers the browser      *)
(* profile and the cookies of each lane, up to MaxLanes lanes, and forgets *)
(* the least recently used one.  A page is given the profile and a copy of *)
(* the cookies, loads in a browser context of its own, and saves cookies   *)
(* back, in place of all those of the lane: the ones that belong to the    *)
(* site it is on. One lane serves several sites: Google's domain depends   *)
(* on the region of a request, the key of its lane does not.               *)
(*                                                                         *)
(* Each method runs under s.mu, hence is one step.  LastUsedAt is the      *)
(* order of Recency.  Of the cookies only those that exempt from captchas  *)
(* are told apart: each carries its site and the lane to whose page it was *)
(* given.  Assumed of sites: they keep the cookies a page brings.          *)
(***************************************************************************)
EXTENDS Integers, FiniteSets, Recency

CONSTANTS
  Lanes,      \* ProxyLaneKey values that are not Empty
  Sites,      \* domains of the engines
  Pages,      \* pages open concurrently
  Profiles,   \* browser profiles of the catalogue
  NoProfile,  \* the zero Profile
  MaxLanes    \* LaneStore.maxLanes

\* NewLaneStore replaces a limit below one by the default.
ASSUME LaneAssumption ==
  /\ MaxLanes \in Nat \ {0}
  /\ NoProfile \notin Profiles

VARIABLES
  lanes,      \* the keys of LaneStore.lanes
  usedBefore, \* <<j, k>>: lane j was used last before lane k was
  profile,    \* laneState.Profile
  jar,        \* laneState.Cookies
  page        \* what each page is doing

store == <<lanes, usedBefore, profile, jar>>
laneVars == <<lanes, usedBefore, profile, jar, page>>

\* The exemption that a solved captcha of the site earns a page of the lane.
Cookies == [lane : Lanes, site : Sites]
Cookie(k, s) == [lane |-> k, site |-> s]

(* A page: it has a profile; it has the lane's cookies and is loading;        *)
(* Navigate has returned it and the engine looks at it; it was closed, the    *)
(* search ended with ErrCaptcha. exempt: the sites whose exemption was among  *)
(* the cookies of the lane.                                                   *)
Closed == [step |-> "closed"]
NewPage == [step : {"opened"}, lane : Lanes, site : Sites, profile : Profiles \cup {NoProfile}]
LoadedPage == [step : {"loading", "loaded"}, lane : Lanes, site : Sites,
               exempt : SUBSET Sites, cookies : SUBSET Cookies]
ChallengedPage == [step : {"challenged"}, lane : Lanes]
OnSitePage(g) == page[g].step \in {"loading", "loaded"}

\* The store is within its bound, and keeps nothing of the lanes it has evicted.
LanesTypeOK ==
  /\ lanes \subseteq Lanes /\ IsFiniteSet(lanes) /\ Cardinality(lanes) <= MaxLanes
  /\ Orders(usedBefore, lanes)
  /\ \A k \in Lanes \ lanes : profile[k] = NoProfile /\ jar[k] = {}
  /\ profile \in [Lanes -> Profiles \cup {NoProfile}]
  /\ jar \in [Lanes -> SUBSET Cookies]
  /\ page \in [Pages -> {Closed} \cup NewPage \cup LoadedPage \cup ChallengedPage]

LanesInit ==
  /\ lanes = {} /\ usedBefore = {}
  /\ profile = [k \in Lanes |-> NoProfile]
  /\ jar = [k \in Lanes |-> {}]
  /\ page = [g \in Pages |-> Closed]

-----------------------------------------------------------------------------
(* The methods of the store. *)

\* evictLRULocked: K is at most one lane too many.
LaneEvicted(K, R) == IF Cardinality(K) > MaxLanes THEN Oldest(K, R) ELSE {}

\* Lane k is used with profile p and cookies c, and the oldest lane makes room.
Put(k, p, c) ==
  LET now == Touched(usedBefore, lanes, k)
      gone == LaneEvicted(lanes \cup {k}, now)
  IN /\ lanes' = (lanes \cup {k}) \ gone
     /\ usedBefore' = Without(now, gone)
     /\ profile' = [j \in Lanes |-> IF j \in gone THEN NoProfile ELSE IF j = k THEN p
                                                                  ELSE profile[j]]
     /\ jar' = [j \in Lanes |-> IF j \in gone THEN {} ELSE IF j = k THEN c ELSE jar[j]]

\* The lane's profile, fresh becoming the one of a new lane.
GetProfile(k, fresh) == Put(k, IF k \in lanes THEN profile[k] ELSE fresh, jar[k])

\* Broken: the cookies of the lane that was used last are returned.
CookiesMutant(k) == UNION {jar[j] : j \in Newest(lanes, usedBefore)}
CookiesOf(k) == jar[k]

\* Broken: reading the cookies of a lane is no use of it.
TouchMutant(k) == UNCHANGED store
Touch(k) ==
  /\ usedBefore' = IF k \in lanes THEN Touched(usedBefore, lanes, k) ELSE usedBefore
  /\ UNCHANGED <<lanes, profile, jar>>

\* A lane that is not there any more is created without a profile.
SaveCookies(k, c) == Put(k, profile[k], c)

\* Broken: the lane is forgotten with its cookies.
DropCookiesMutant(k) ==
  /\ usedBefore' = IF k \in lanes THEN Touched(usedBefore, lanes, k) ELSE usedBefore
  /\ profile' = [profile EXCEPT ![k] = NoProfile]
  /\ jar' = [jar EXCEPT ![k] = {}]
  /\ UNCHANGED lanes
DropCookies(k) ==
  /\ usedBefore' = IF k \in lanes THEN Touched(usedBefore, lanes, k) ELSE usedBefore
  /\ jar' = [jar EXCEPT ![k] = {}]
  /\ UNCHANGED <<lanes, profile>>

-----------------------------------------------------------------------------
(* Pages. *)

Opened(k, s, p) == [step |-> "opened", lane |-> k, site |-> s, profile |-> p]

\* laneProfile. A new lane gets the profile its first request's region selects.
Open(g, k) ==
  /\ page[g] = Closed
  /\ \E fresh \in Profiles, s \in Sites :
       /\ GetProfile(k, fresh)
       /\ page' = [page EXCEPT ![g] = Opened(k, s, profile'[k])]

\* laneProfile with X-Use-Profile: the store is not asked.
OpenForced(g, k) ==
  /\ page[g] = Closed
  /\ \E p \in Profiles, s \in Sites : page' = [page EXCEPT ![g] = Opened(k, s, p)]
  /\ UNCHANGED store

\* The page has been given the cookies c of lane k.
Loading(k, s, c) == [step |-> "loading", lane |-> k, site |-> s, cookies |-> c,
                     exempt |-> {t \in Sites : Cookie(k, t) \in c}]

\* Broken: the page starts with no cookies.
RestoreMutant(g) ==
  /\ page[g].step = "opened"
  /\ Touch(page[g].lane)
  /\ page' = [page EXCEPT ![g] = [Loading(page[g].lane, page[g].site, CookiesOf(page[g].lane))
                                          EXCEPT !.cookies = {}]]
\* restoreLaneCookies.
Restore(g) ==
  /\ page[g].step = "opened"
  /\ Touch(page[g].lane)
  /\ page' = [page EXCEPT ![g] = Loading(page[g].lane, page[g].site, CookiesOf(page[g].lane))]

\* NetworkGetCookies: the cookies that the page would send to the site.
OnSite(cookies, s) == {c \in cookies : c.site = s}

\* The page has loaded.
Save(g) ==
  /\ page[g].step = "loading"
  /\ SaveCookies(page[g].lane, OnSite(page[g].cookies, page[g].site))
  /\ page' = [page EXCEPT ![g].step = "loaded"]

\* NetworkGetCookies fails, which is logged.
SaveFails(g) ==
  /\ page[g].step = "loading"
  /\ page' = [page EXCEPT ![g].step = "loaded"]
  /\ UNCHANGED store

\* A profile or cookies that cannot be set, a navigation error, 403 or 429.
NavigateFails(g) ==
  /\ page[g].step \in {"opened", "loading"}
  /\ page' = [page EXCEPT ![g] = Closed]
  /\ UNCHANGED store

\* The search ends without a captcha.
Finish(g) ==
  /\ page[g].step = "loaded"
  /\ page' = [page EXCEPT ![g] = Closed]
  /\ UNCHANGED store

\* Google's captcha was solved: persistSolvedLaneCookies, and the search goes on.
\* When the page has not settled in time its site has not given the exemption
\* yet, and the page may still be on the site of the challenge.
Solve(g) ==
  /\ page[g].step = "loaded"
  /\ \E s \in Sites, earned \in SUBSET {Cookie(page[g].lane, page[g].site)} :
       LET now == page[g].cookies \cup earned IN
       /\ SaveCookies(page[g].lane, OnSite(now, s))
       /\ page' = [page EXCEPT ![g].site = s, ![g].cookies = now]

\* ErrCaptcha; the page is closed before searchWithProtection sees it.
Challenge(g) ==
  /\ page[g].step = "loaded"
  /\ page' = [page EXCEPT ![g] = [step |-> "challenged", lane |-> page[g].lane]]
  /\ UNCHANGED store

\* DropProxyLaneCookies, with DropCookiesOnChallenge.
Drop(g) ==
  /\ page[g].step = "challenged"
  /\ DropCookies(page[g].lane)
  /\ page' = [page EXCEPT ![g] = Closed]

LanesNext ==
  \E g \in Pages :
    \/ \E k \in Lanes : Open(g, k) \/ OpenForced(g, k)
    \/ Restore(g) \/ Save(g) \/ SaveFails(g) \/ NavigateFails(g)
    \/ Finish(g) \/ Solve(g) \/ Challenge(g) \/ Drop(g)

LanesSpec == LanesInit /\ [][LanesNext]_laneVars

-----------------------------------------------------------------------------
(* Properties. *)

\* core/lane_captcha_cookie_test.go:29, "the exemption earned on one lane must
\* not be replayed on another": a page and a lane only ever hold cookies that
\* were given to pages of the same lane.
CookiesStayInLane ==
  /\ \A k \in Lanes : \A c \in jar[k] : c.lane = k
  /\ \A g \in Pages : OnSitePage(g) => \A c \in page[g].cookies : c.lane = page[g].lane

\* TestLaneStoreDropCookiesPreservesProfile: as long as a lane is kept its
\* profile never changes, through saves, challenges and pages of other regions.
ProfileIsSticky ==
  [][\A k \in lanes : k \in lanes' => profile'[k] = profile[k]]_laneVars

\* Page g of lane k ends with a challenge.
ChallengeEnds(g, k) == page[g].step = "challenged" /\ page[g].lane = k /\ page'[g] = Closed

\* Page g gives lane k the cookies that it has on its site.
GivesBack(g, k) ==
  /\ OnSitePage(g) /\ OnSitePage(g)' /\ page[g].lane = k
  /\ jar'[k] = OnSite(page'[g].cookies, page'[g].site)

\* A lane that is kept loses the exemption of a site only to a challenge, to a
\* page that is on another site, or to one that was given its cookies before
\* the exemption was earned.
ExemptionLostOnlyByOthers ==
  [][\A k \in lanes, s \in Sites : Cookie(k, s) \in jar[k] \ jar'[k] =>
       \/ k \notin lanes'
       \/ \E g \in Pages :
            \/ ChallengeEnds(g, k)
            \/ /\ GivesBack(g, k)
               /\ \/ page'[g].site # s
                  \/ s \notin page[g].exempt]_laneVars

\* core/lane_captcha_cookie_test.go:12, "the next request on the same lane must
\* get it back": an exemption once saved stays with the lane until a challenge
\* or the eviction of the lane.
ExemptionKept ==
  [][\A k \in lanes, s \in Sites : Cookie(k, s) \in jar[k] \ jar'[k] =>
       k \notin lanes' \/ \E g \in Pages : ChallengeEnds(g, k)]_laneVars

\* core/browser.go:1293, "Navigate connects to Chromium, creates a page, applies
\* a coherent profile": no page is opened with the zero profile.
PagesHaveProfile == \A g \in Pages : page[g].step = "opened" => page[g].profile # NoProfile
=============================================================================
