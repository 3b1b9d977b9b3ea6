# OpenSERP: TLA+ models, model checks and proofs

OpenSERP is a Go server that searches the web through real browsers or raw HTTP
requests. Its own logic is what happens between the HTTP handler and the page:
which engine is asked, through which proxy, how failures of engines and proxies
are told apart and remembered, when a request is retried, rotated to another
proxy or handed to another engine, and when it is given up. That state is shared
by every request the server answers concurrently. This directory models it.

Line numbers refer to the repository's sources; `PROJECT.json` ("map") ties every
definition that models code to its lines, "hazards" lists what is hard to test in
this code and the properties that watch it.

## 1. Inventory

| Component | Source | State it keeps | Operations | Modelled |
|---|---|---|---|---|
| Circuit breakers | `core/circuit_breaker.go` | per engine and capability: state, counters, time of the last failure | `Get`, `AllowRequest`, `RecordSuccess`, `RecordFailure` | `CircuitBreaker` |
| Proxy registry | `core/proxy.go` | per proxy: failures, disabled, challenged until; per tag: round-robin index, quarantine | `NextByTag`, `ReportFailure`, `ReportSuccess`, `ReportChallenged`, `HealthyCountForTag` | `ProxyRegistry` |
| Resilient search pipeline | `core/resilient.go`, `core/retry.go` | per request: engine, attempt, proxy, whether it has rotated | primary, fallback and any searches; retries; rotation | `ResilientSearch` |
| Proxy lanes | `core/proxy_lane.go`, `core/browser.go` | per lane: profile, cookies, time of last use | `Profile`, `Cookies`, `SaveCookies`, `DropCookies`, eviction | `ProxyLanes` |
| Browser pool, shutdown | `cmd/serve.go` | Chrome processes by proxy identity | get, evict, sweep, close | `BrowserPool` |
| Mega search | `core/resilient.go`, `core/server.go` | per request: engines started, outcomes collected until the deadline | balanced, any, fast; the collector | `MegaSearch` |
| Response cache | `core/cache.go`, `core/server.go` | entries with creation and expiry | look-up, fill, bypass, eviction | `ResponseCache`, `MegaSearch` |
| Browser connection | `core/browser.go` | the connection of one Chrome, its auth listener, pages with their contexts and watchers | connect, ping, reconnect, navigate, close | `BrowserConnection` |
| Extraction | `core/server_extract.go`, `extract/` | per URL: pass, content; turns, the batch's deadline | concurrent fetch, escalation, fill-in | `Extraction` |
| Captcha solving | `core/captcha*.go` | a queued job and its deadline | submit, poll | `CaptchaSolver` |
| Engine drivers | `google/`, `bing/`, `yandex/`, `duckduckgo/`, `ecosia/`, `baidu/` | none between requests; a page and rows within one | web, image and raw searches | `EngineSearch` |
| Parsers, URL builders | the same, `core/html_parser.go` | none | rows of a layout; what a URL asks for | `SerpRows`, `PagedSearch` (partly) |
| Result merging, pagination | `core/common.go`, `core/rank_state.go`, `core/server.go`, `core/response*.go` | none | limit, rank, deduplicate, cluster, paginate | `SerpRows`, `PagedSearch` |
| Handlers | `core/server.go` | none between requests | straight-line | the search and batch endpoints |
| Raw HTTP clients | `core/http_client.go` | a cache of clients | request, read | their outcomes, in `EngineSearch` |
| Middleware, auth | `core/middleware.go`, `core/auth.go` | none between requests | straight-line | the request deadline only |
| CLI, configuration, profiles, locale, formats, logging | `cmd/`, `core/` | none | sequential | no |

How they interact:

- A handler calls the pipeline; the pipeline asks a breaker before it calls an
  engine and tells it one outcome afterwards (shared objects, a mutex each, no
  lock held across an engine call).
- Before every attempt the pipeline asks the registry for a proxy of the engine's
  tag; the outcome of the attempt is reported to the registry, a challenge only if
  the request is rotated to another proxy.
- A browser engine takes a Chrome for the proxy from the pool, opens a page in it,
  and the page takes profile and cookies from the request's lane and saves the
  cookies back. The pool closes Chromes in goroutines of its own.
- The search handlers look into the cache before they search and store what they
  found after it; the keys of a mega search depend on the breakers that are open at
  each of the two moments. A balanced search runs one goroutine per engine, which
  may outlive the answer.
- The shutdown drains the listener, stops the sweeper and closes the pool.

What is hard is the same everywhere: a request holds something (the admission of
a breaker, a proxy, a Chrome, a copy of a lane's cookies) across a call that takes
seconds, and reports on it when others have moved it on.

What makes each component correct, modelled or not:

- breakers: they open on consecutive failures only, admit nobody within the
  recovery time, and always come back;
- registry: a proxy is out exactly while its failures say so, an exhausted pool
  waits and is then probed with one proxy, and no pool is lost;
- pipeline: never around the proxy policy, within its budget of calls, one
  verdict per search, always an answer;
- lanes: identities never mix, and an identity in use is not lost;
- pool: every Chrome has one owner, fits its proxy, and ends;
- mega search: the answer names every engine that was started, none as both
  responding and failed, it is given by the deadline, and no goroutine is stuck;
- cache: an answer fits the request it is served to, and the size is bounded by
  dropping the oldest entry only;
- connection: no navigation waits for a connection nobody repairs, no listener,
  browser context or watcher outlives its owner, and `Close` ends;
- extraction: every result is filled or given an error, candidates below the top
  only replace, and the deadline of a batch spares what it was computed for;
- drivers: a block is reported as one, "nothing found" is said by the page and not
  by a page that could not be read, rows collected are not lost to a later page;
- captcha client: every submitted job ends by its deadline, and an answer that was
  paid for is tried on its page;
- merging and pagination: who follows `next_start` gets the ranking once and whole,
  a rank is a place in it, and the order of arrival does not show.

## 2. Modules

| Module | Models |
|---|---|
| `CircuitBreaker` | the breakers and concurrent requests that use them |
| `CircuitBreakerHistory` | the same with history variables, for what `config.yaml` and the help text promise |
| `ProxyRegistry`, `ProxyRegistryHistory` | tag pools that may overlap and requests that hold proxies; which proxy was served last |
| `ResilientSearch`, `ResilientSearchHistory` | the pipeline over the operators of both modules; calls per search |
| `ProxyLanes`, `ProxyLanesHistory` | the lane store and the pages that use it; lanes used since |
| `BrowserPool` | the Chromes, requests that hold one, the shutdown |
| `ResponseCache` | the cache of rendered answers: the map, its expiry and eviction |
| `MegaSearch` | the search endpoints around that cache, and the three modes of a mega search |
| `BrowserConnection` | the connection of one Chrome and the pages on it |
| `Extraction` | `Extractor.Extract` under the two handlers that run many of them |
| `CaptchaSolver` | buying one answer from 2captcha |
| `SerpRows` | rows, ranks, duplicates and limits as operators; the parsers of the engines |
| `EngineSearch` | a call of any of the six drivers, over `SerpRows` and `CaptchaSolver` |
| `PagedSearch` | a client that follows `next_start`, one engine or several merged |
| `Recency` | "least recently used", shared by lanes and pool |
| `CircuitBreakerProofs`, `ProxyRegistryProofs`, `ResilientSearchProofs`, `BrowserPoolAndLanesProofs`, `MegaSearchProofs`, `BrowserConnectionProofs`, `EngineAndExtractionProofs`, `PagedSearchProofs` | the theorems of section 5; parts that rest on the same lemmas (the order of use, the operators on rows) share a module |
| `MCProxyRegistry`, `MCResilientRotation`, `MCResilientFallback`, `MCProxyLanes`, `MCMegaSearch`, `MCBrowserConnection`, `MCEngineSearch`, `MCPagedSearch` | instances for TLC |

Conventions. A method that runs under one mutex is one step; a step ends wherever
the code holds no lock. Where the code compares a time with a duration only, the
model keeps how much of the duration has passed, saturating (`sinceFailure`), or
how much is left (`quarantine`, `challenged`); where it compares times of entries
with each other only, the model keeps their order (`Recency`). Neither needs a
clock variable. Definitions named `...Mutant` are broken variants of the code next
to which they stand; `PROJECT.json` ("mutants") says which property notices each.

**CircuitBreaker.** `state`, `failureCount`, `successCount`, `sinceFailure` are
the fields of `CircuitBreaker`, `created` the keys of the manager's map, `call`
what each request does: looking the breaker up, holding it, running the engine.
`AllowRequest`, `RecordSuccess`, `RecordFailure` are the methods; `Get` and
`Create` are the two halves of `CircuitBreakerManager.Get`, between which the read
lock is released; `PreCheck` is an `AllowRequest` no search follows.

**ProxyRegistry.** The fields of `proxyState` per proxy, `cursor` and
`quarantine` per tag, `use` the proxy each request holds. `NextByTagServed` and
`NextByTagRefused` are the two ends of `NextByTagWithContext`, with the quarantine
that a selection may start or end (`StartsQuarantine`, `Reenabled`).

**ResilientSearch.** `req` is a request's place in `searchWithProtection` and
`RetryableSearch` with its local variables. `Retry` and `Fails` are the two ways an
attempt ends without an answer. Its breakers and registry are changed only through
the operators of the two modules, and `BreakersImplemented` and
`RegistryImplemented` say that the whole pipeline is a behaviour of each component's
specification (refinement mappings `BreakerCall` and `ProxyUse`; the run checks both
as `PartsImplemented`). What an engine call may return is enumerated by
`EngineReturns`, one action for each class of errors the pipeline tells apart.

**ProxyLanes.** `lanes`, `usedBefore`, `profile`, `jar` are the store, `page` the pages
in `Navigate`: opened, given cookies, loaded, challenged. Of the cookies only
the exemptions that solved captchas earn are told apart, each with its site and the
lane to whose page it was given. A page brings all cookies of its lane and saves those of its
own site (`OnSite`): Google's domain depends on the region, the key of a lane does not.

**BrowserPool.** `kept`, `before`, `entry`, `idle` are the map of the pool,
`chrome` the processes and whether they live, `closing` the goroutines that close
evicted ones, `taken` what `close` has still to close, `req` the calls, `phase`
the progress of `listenWithGracefulShutdown`. A Chrome may crash at any time. A call
may outlive the HTTP request it belongs to, as those of a mega search do whose
deadline has passed: the drain waits for any of the running calls or none
(`waitedFor` in `Drained`), and a call it did not wait for may launch a Chrome after
`close` has emptied the pool; `callsLeft` remembers whether a call was running when
the drain ended.

**ResponseCache, MegaSearch.** `entries` is the map with the age of each entry;
`Prune`, `Set` are the methods, one step each. `client` is what the handler of a
request is doing: looking up its keys, searching, merging, choosing a key and
storing, each a step, since breakers and the cache move in between. In `balanced`
mode `calls` holds the goroutines and the outcomes in `resultCh`; `StartEngine`,
`Collect`, `AllCollected` and `CollectorLeaves` are the loops of
`runParallelDetailed`, and `Deadline` may come between any two of them. The other
two modes and a dedicated endpoint search one engine after the other; that search
is one step here and many in `ResilientSearch`. A breaker, for its part, is open or
not and moves at any time: `CircuitBreaker` says how. Requests ask for the same
text, so that a key is a mode, the merge flag and a set of engines, and an answer
is the engines it names (`Envelopes`).

**BrowserConnection.** `conn`, `listener`, `fresh` are the fields guarded by
`browserConnection.mu`; a connection is numbered when it is dialled, `alive` says
whether its websocket is, `running` which listeners have not returned. `proc` is
where each navigation, and `Close`, is in the code; a step under the lock is in
`HoldSteps`. `contexts` and `watched` are what a navigation has made: a browser
context, and a goroutine that counts the page's network usage. Each early return of
`Navigate` is an action, with what it undoes. `Drop` and `Crash` may come at any
time. What a profile's scripts do to a page is one step that succeeds or fails.

**Extraction.** `fetch` is the pass each URL is in (llms files, raw, rendered) and
the ticks it has taken, `got` what it was given, `given` and `left` the time to the
deadline, at the start and now: that of the batch, or what the search has left of the
request's, if it is less and the endpoint has one (`Deadlines`). `next` and `slots` the loop and its semaphore. `Spawn`, `Join`, `FillIn` are the
handler; a pass ends, escalates, times out or is cut. Content is one of three
lengths, which is what `goodEnough` and `ExtractedContentLooksUseful` tell apart.

**CaptchaSolver, EngineSearch.** A call has one page at a time. What it shows
changes between the looks the driver takes (`Shows`): blank, a captcha, a block, no
results, or rows of a layout that may grow. `phase` is the place in the driver: the
first look, a captcha being solved, the wait for results, the judgement of a wait
that failed, the next page. The six drivers share the phases, and what each
condition of a driver makes of them is an action or an operator named for it. A
page may die, the request may expire, a look may fail with it. `job` is the solve
under way in polls, `bill` what was bought and whether the page took it (`Inject`,
`InjectFails`). A page is read in one step.

**SerpRows, PagedSearch.** A page is a layout, the sequence of the kinds of its
blocks; the operators give the rows, ranks and positions each parser makes of it
and what the cut to the limit and the removal of duplicates leave. `PagedSearch`
gives each engine a fixed ranking and lets it serve the part its URL asks for, as
each builder computes it from limit and start; `client` asks for the next page as
long as `has_more` says so, and `received` is what it has got. Several engines
answer in any order and are deduplicated, clustered and paginated together. Clients
of one engine use its own endpoint, of several the mega endpoint with merging.

## 3. Runs

| Run | Instance | Shows |
|---|---|---|
| `circuit_breaker` | 1 key, 3 requests, thresholds 2, timeout 2 | what opens, keeps open, retries and closes a breaker, with outcomes that arrive late; that open breakers are retried and recovered engines come back |
| `proxy_registry` | 3 proxies in 2 layouts of 2 tags, 2 requests, threshold 2, quarantine 2 | failures, quarantine and probes stay in step; the round robin; exhausted pools recover |
| `resilient_rotation` | 1 engine, 2 proxies, 2 concurrent requests, 1 retry | the pipeline implements breakers and registry, keeps its budget and the proxy policy |
| `resilient_fallback` | 2 engines, one behind a pool | every request is answered, whatever engines return |
| `proxy_lanes` | 3 lanes, room for 2, 2 sites, 2 pages, 2 profiles | cookies stay in their lane, profiles stick, exemptions are lost to others only, eviction is least recently used |
| `lane_profile` | the same | *violated*: every page has a profile |
| `browser_pool` | 2 identities, 1 process allowed, 3 launches, 2 calls that may outlive their requests | owners, proxy fit, clean exit, idle Chromes stop, the shutdown ends |
| `mega_search` | 2 engines, 6 kinds of requests, 2 entries that live 2 ticks, 1 breaker | an answer accounts for every call, hits fit the request, the cache is bounded, every request is answered |
| `browser_connection` | 2 navigations, 1 closer, 2 connections, with an authenticated proxy or without one | the listener and what a page is made of are never orphaned; every call, and `Close`, returns |
| `extraction` | 4 URLs, one blank, tops of 1 and 2, 1 or 2 turns, any time left of the request | candidates only replace, the deadline spares the top, every request is answered |
| `engine_search` | 6 engines, web, image and raw, pages of 2 results and limits of 1 and 3, 7 layouts, captchas solved | blocks are reported, empty answers are evidenced, rows and bought tokens are not lost, every call returns |
| `paged_search` | the 6 engines alone and three sets of them merged, pages of 2, limits 0 to 4, starts -1 to 3 | walks are whole, ranks are places, merging and clusters do not depend on the order |

Distinct states: `circuit_breaker` 1,982, `proxy_registry` 76,892,
`resilient_rotation` 685,193, `resilient_fallback` 36,575, `proxy_lanes` 46,367,
`browser_pool` 409,358, `mega_search` 732,660, `browser_connection` 270,078,
`extraction` 1,152,853, `engine_search` 51,387, `paged_search` 30,606.

Why the bounds are enough to be interesting. Three requests are the fewest for a
breaker that two of them open while the third is still running and later speaks
for a phase it did not belong to; thresholds of two are the fewest at which one
outcome does not decide, and a timeout of two ticks leaves time for a late failure
in between. Two requests and three proxies in overlapping pools are the fewest
for a probe through one tag to touch the other; the second layout has a pool of
three, where passes and skips of the round robin differ, and an unknown tag. One
retry makes runs of two calls, so a rotated search makes up to four. A third lane
is what two slots evict, two pages are what it takes for one to save over the
other, and two sites for one to save without the other's cookies. One allowed
process makes every second identity an eviction, and three launches let an evicted
identity be launched anew while its old Chrome is still being closed. In
`mega_search` two engines are the fewest of which one answers and one is late or has an open breaker; one of them is asked twice, as an alias allows;
two entries are what a third key evicts, and a lifetime of two ticks leaves an
older one to evict. It serves one request after the other: handlers interact only
through the cache and the breakers, each access to which is one step, the breakers
move by themselves, and the theorems of section 5 hold for any number of clients.
In `browser_connection` a second connection is what a navigation may make while
another still holds the first, and two navigations are what it takes to overlap; no
action looks further than the current connection and the one before it. In
`extraction` a top of two with one blank URL leaves one failure to stand in for and
two candidates, and one turn as well as two. In `engine_search` a limit of three
needs a second page of two and leaves a row over; a solve has three polls, one more
than the client's own timeout. `paged_search` has rankings that differ, overlap, end
at different lengths and name one URL under two of its parameters; limits below, at
and above the page, and starts on and off its boundary.
The bounds the code does not have: `MaxLaunches` (launches stop there, everything
else goes on), `MaxConns` (dials fail from there on, as they may before), `MaxPages`
(a call that would open a fourth page waits for its deadline instead) and `MaxStart`
(the client stops).

**Fairness.** Liveness is checked under these assumptions only. *Breakers*: time
passes, a goroutine that was started goes on (every engine call runs under a page
or request timeout), and clients keep asking for each engine; without the last a
breaker stays open because nothing but a request moves it (strong fairness, since
the ask is enabled only while the caller is free). *Registry*: the same, with
requests that keep asking for the exhausted tag; a disabled proxy is never
re-enabled by time alone. *Pipeline*: goroutines go on; nothing is assumed of
clients, of the clock or of what engines return. *Pool*: ticks of the sweeper
come, closers run, the drain ends (it has a timeout of its own) and each `Close`
ends; nothing forces requests to come or to be answered, and nobody needs to send
the signal. *Mega search*: the handler goes on, the
deadline of a mega request comes (`MegaTimeout` is 90 s unless it is set to zero,
which asks for no bound), and the searches of the sequential modes end, which is
what `resilient_fallback` shows; no call of a balanced search has to return.
*Connection*: goroutines run, a mutex that is free again and again is taken (Go's
hands itself over to one that has waited 1 ms, hence the strong fairness), a
listener whose context is cancelled stops, CDP calls end; nobody has to navigate or
to close. *Extraction*: passes end by their timeout, the handler goes on. *Drivers*:
waits are bounded and the request's deadline comes; pages need not change.
`paged_search` checks no liveness, nor do the runs with symmetry. Only
`browser_pool`, once the server has exited, and `paged_search`, once the client is
done, may stop; `engine_search` and `extraction` stutter at their end.

## 4. Disagreements

The run `lane_profile` states what a comment says, and its counterexample shows the
code doing otherwise (`PROJECT.json`, "findings"): cookies saved for a lane the
store does not hold create a lane with the zero profile, which later pages of the
lane then use.

The following are stated in the modules, each with the line it quotes, and TLC
refutes them when they are given to it; no run keeps doing so.

- `ProxyFailureIsRetried` (`ResilientSearch`): an attempt whose own timeout expires
  keeps `context.DeadlineExceeded` in its error, so it is taken for the end of the
  request: its proxy is blamed, but it is not retried and the breaker is not told
  (`core/common.go:87`, against `core/retry.go:39` and `:105`).
- `ExemptionKept` (`ProxyLanes`): `SaveCookies` replaces the jar
  (`core/proxy_lane.go:140`) with the cookies the browser has for the page's URL
  (`core/browser.go:1084`). So a page that overlaps a solved captcha on its lane saves
  the exemption away, and so does, without any overlap, the next page of the lane on
  another of Google's domains (`google/url.go:234`), though it was given the
  exemption. `ExemptionLostOnlyByOthers` shows that these two and a challenge are the
  only ways to lose it.
- `FirstRequestedKept` (`MegaSearch`): the key of a mega answer has the names of the
  engines in sorted order, also with `merge=false`, where the order decides whose
  results are kept (`core/server.go:1493`, `docs/openapi.yaml:844`).
- `OnlyRequestedAnswer` (`MegaSearch`): a mega answer is stored under the engines
  whose breakers are not open when the search is over: if the breaker of an engine
  that has answered opens by then, requests for the other engines are served its
  results (`core/server.go:1454`, `docs/openapi.yaml:813`).
- `DeadlineSparesFillIns` (`Extraction`): the deadline of a batch is computed from
  the candidates but fill-ins run one by one after the top, so it may cut them.
- `ListenerLivesWithSession` (`BrowserConnection`): a reconnection whose listener
  cannot be enabled has already stopped that of the connection before it, on which
  other navigations may still be loading.

Seen while modelling, without a statement of their own; the properties are stated
around them:

- A success counts towards closing a half-open breaker whoever it belongs to:
  requests admitted before the breaker opened can close it without any check
  (`core/circuit_breaker.go:143`; the help text at `cmd/root.go:524` speaks of
  half-open checks).
- The quarantine of a pool is looked at only while all its proxies are disabled: a
  probe through another tag that shares one of them ends it early
  (`core/proxy.go:405`). `DisjointQuarantineRefuses` is what remains.
- The pool launches before it evicts and closes evicted Chromes asynchronously:
  more Chromes run than `max_processes` (`cmd/serve.go:406`, `config.yaml:19`).
- The drain waits for HTTP requests, the goroutines of a balanced search may outlive
  theirs (`core/resilient.go:499`), and no flag tells `get` that the pool is closed:
  after a clean shutdown, one without an error, a Chrome launched by such a call may
  be left running (`cmd/serve.go:378`, `:516`). `CleanExit` says that nothing else is,
  but the evicted Chromes whose closers the process has not waited for.
- The deadline of a dedicated endpoint holds for its extraction too
  (`core/middleware.go:74`, `core/server.go:385`): a search that has used most of it
  leaves the batch less than `BatchTimeout` derives, and the top is cut short.
  `DeadlineSparesTop` is about requests that leave the top its time (`Ample`).
- `resolveEngines` compares names before it resolves aliases, so an engine and its
  alias ask it twice, although `docs/ARCHITECTURE.md:157` says that duplicates are
  skipped (`core/server.go:1294`). This is why `NoRepeats` is a condition in
  `EveryCallAccounted`.
- Engines that a balanced search had not started at the deadline appear in neither
  list of the answer if everything started was collected before the collector saw
  the deadline (`core/resilient.go:487`).
- Pagination: `has_more` counts Google's people-also-ask rows
  (`core/response.go:137`, against `core/result_rank_test.go:199`), so `next_start`
  may lead past results; Google, Baidu and the raw searches do not cut to the limit
  (`docs/openapi.yaml:772`), so pages of a small limit overlap; image endpoints
  accept a start (`docs/openapi.yaml:783`) that no image URL uses, so `next_start`
  repeats them; Bing with a start asks for pages of the default size whatever the
  limit; for Ecosia between two pages, ranks count from the page and positions from
  the start. `Aligned` and `RanksArePlaces` name these cases.
- `engines_count` of a cluster counts occurrences, not engines
  (`docs/openapi.yaml:1680`); the rows of several Yandex pages are ranked page by page
  and so are not in the order `core/common.go:127` speaks of.
- Bing, Yandex and Ecosia, image searches, and a raw Yandex search with a start
  answer a page nobody could parse with an empty success, and DuckDuckGo's window
  (`duckduckgo/search.go:249`) one whose organic rows are all before the start, also
  when "more results" has failed to load those behind it. `EmptyIsEvidenced` names
  these cases.
- Yandex keeps the rows it has when a page fails, but not when the request expires
  in the pause between pages, and Ecosia keeps none (`CollectedKept`).
- A search may buy three captcha answers, and one bought after the wait for results
  failed is used although the call then returns `ErrSearchTimeout`. One whose
  injection fails, takes more than 30 s or finds nothing to submit is lost though the
  page exists (`google/search.go:112-121`): `PaidTokenUsed` counts it as refused. A page with
  result candidates none of which can be parsed returns `ErrSearchTimeout` as well,
  against the comment at `google/search.go:571`.
- `IgnoreCertErrors` failing on a connection that went stale returns before the
  reconnection that `CreatePage` would have forced; `Close` takes a closed websocket
  for a Chrome that is gone, which it need not be (`core/browser.go:1456`).

## 5. Theorems

TLAPS proves the following for every value of the constants, under the assumption
each module states about them (`BreakerAssumption`, `RegistryAssumption`,
`PipelineAssumption`, `PartsAssumption`, `LaneAssumption`, `PoolAssumption`,
`CacheAssumption`, `MegaAssumption`, `ConnectionAssumption`, `ListedOnce`,
`SerpRowsAssumption`, `SolverAssumption`, `EngineAssumption`, `ExtractionAssumption`,
`PagedAssumption`:
thresholds, bounds and durations are numbers the constructors let through, and each
engine, and each proxy of a pool, is configured once). `PagedAssumption` says besides
that an engine at rest has each URL once in its ranking, that a page is as long as
the default limit (both are ten in the code), and that scores, which are sums of
`1/rank`, are counted in a unit of which each rank divides one. `Spec` needs no
fairness for any of them.

*Breakers.* `TypeCorrect`, `CountersFit` (inductive as it stands), the transition
properties, and three promises over histories. For those the inductive invariant
`HistoryInv` relates the code's counters to the outcomes recorded last:
a closed breaker that counts `n` failures has just seen at least `n` in a row, a
half-open one likewise for successes, and an open breaker has been open at least
since its last failure. `CountersFitState` is part of it: it says that the counters
start from zero in each phase.

*Registry.* `DisabledFits` is inductive. `ExhaustedQuarantined` is not: a probe
enables a proxy, its failure disables it again, and the quarantine must start anew
in every pool of the proxy. `QuarantineInv` adds that, while no two tags share a
proxy, a pool with a deadline is exhausted; `QuarantineKept` follows from that.
`ServesDiffer` rests on `CursorInv`: the proxy a tag was served last is at the
position before its cursor, so a selection comes to it after all the others, and
serves it again only if it passed all of them over.

*Pipeline.* `SearchInv` says what a request holds at each of its steps: nothing
before its first attempt, no proxy when an attempt begins, one exactly if the engine
has a pool while it is called, no earlier rotation when it is rotated. Lemmas
give what one step changes of the request (`OthersStay`, `FailsFields`,
`RetryFields`, `OtherFields`) and of the two mappings (`SeenMove`), and
`BreakersStep` and `RegistryStep` show action by action that a step of the pipeline
is a step of `CircuitBreaker` and of `ProxyRegistry` or none of theirs:
`PipelineImplementsParts`, by which what is proved of the two components holds of
the searches that use them. `PoolsAreKeptTo` is a part of the invariant;
`BurnedProxyIsLast` follows from the candidates of `NextByTag`. `BudgetKept` needs
`Within`: how many calls a search may have made at each step, in its first run or
its second.

*Lanes.* `LaneInv` types the store and says that a jar, and a page's cookies, hold
cookies of their own lane, and that a page still holds all it was given; the
latter is what `ExemptionLoss` needs: a page that was given the exemption of its own
site saves it back. `PutFacts` is the heart: the lane in use is
never the one evicted. `LeastRecentGoes` relates the order of the store to the
history (`UsedInv`: what comes after a lane in the order was used since) and counts:
the lanes that come after the oldest of a store that is one over its limit are as
many as the limit.

*Pool.* `TypeCorrect` bounds the map by `MaxProcesses`. It rests on
`OldestMakesRoom`: that any keys of an order of use have an oldest one is a part of
`Orders` (`Recency`), which every use keeps; deleting that one is enough, and it is
not the key just used. `OneOwner`
adds to `EveryChromeHasOneOwner` that nothing is taken before the last phase;
`ChromeFits` that an entry's Chrome was launched for the entry's key; `ExitIsClean`
that the pool is empty from `close` on unless calls were running when the drain ended
(`EmptyAtClose`): nothing else launches a Chrome any more.

*Mega search and cache.* `TypeCorrect` contains the bound of the cache, by counting:
`Set` removes one key whenever it adds one to a full map (`StoreFacts`). The rest
follows from `MegaInv`, a statement about each handler and one about the cache.
`CallsFit` says that the calls not started are those from `next` on and that the
answer so far names exactly the engines collected; when the collector has as many
outcomes as calls, these are all of them (a subset as large as the set), and when
it leaves early the pending ones are added: `AlwaysAccounted`. `AnswerFits` and
`CacheFits` say that what is stored names at least the engines of its key, and on a
dedicated endpoint is the engine's own, and that the keys a handler looks up lack
only engines whose breakers it saw open: `AlwaysFits`. `AlwaysDeliver` counts the
channel: with one call still running, fewer outcomes than engines are in it.
`AlwaysOldestEvicted` is the eviction rule as a transition property.

*Connection.* The invariant types the state and adds that one process holds the
lock, that only the process exchanging the listener may see it with another
connection (`OwnListener`), that a context or watcher is with the navigation that
made it (`Handed`), and that pages have the profile of the lane (`LaneInv`):
`ListenerOwned`, `NothingIsLeaked`, `LaneAgrees`.

*Engine searches.* `EngineInv` is one invariant for all six drivers and the raw
searches. `Phasing` says which calls reach a phase and what they know there (Google's
image loop reads a page only with a pass left; DuckDuckGo clicks only when it has
rows); `Paid` accounts for the tokens: one more received than used or refused exactly
while it waits to be tried on its page; `CaptchaOnly` says that a page that has shown nothing
but a captcha is never read to its end. `EngineInductive` has one lemma per action
(`NavigateKeeps`, `WaitFailsKeeps`, ...), most of which end in one of three: an end
with an error (`FailKeeps`), with rows (`FinishKeeps`) or of one page
(`PageDoneKeeps`). `EngineTypeCorrect`, `BlocksAreReported`, `EmptinessIsEvidenced`,
`CollectedRowsSurvive` and `PaidTokensAreUsed` follow. The two about rows need what the
operators of `SerpRows` never lose, for rows of any number: `KeptFacts` counts
positions (each rank up to their number is that of one of them), `SortFacts` shows
that the place of a row in `SortResults` is a bijection and that no row comes behind
one it precedes, and from these `DeduplicatedRows` and `LimitedOrganics` keep the
first organic row, `WindowedRows` some row of those that reach behind the start, and
`RawSearches` some row of every document that has one. (A raw Yandex search may skip
them all when it has a start.) `FinishedRows` puts them together for the answer.

*Extraction.* `ExtractInv` says what has been touched (`Touched`), which pass follows
which, and where the handler is (`Phased`). `InTime` is why `DeadlineSparesTop`
holds: the time that has elapsed is at most two passes for each wave of `slots`
results before the next one, and what runs will end within its own wave; time passes
in the loop only while all slots are taken, so that the oldest wave always runs
(`EarlierWaveRuns`). A deadline that is `Ample` is as long as all waves of the top. `TopIsSpared`, `FillInsReplace`, `RenderKeepsRaw` and
`ResponseIsComplete`, the safety half of `EveryResultAnswered`, follow.

*Walks, ranks, merging, clusters.* All of `PagedSearchProofs` is about slices
(`Slice`, `Lists`): rows whose organic ones have the ranks `b + 1` to `b + c`, in
order, each with the URL that is a fixed number of places further in the ranking (none
once a driver is done with them) and an absolute rank that is a fixed number further. The list lemmas (`KeptLists`, `SortLists`, `DedupLists`, `LimitLists`,
`SkipLists`, `OffsetLists`, `SeparatedLists`, `ConcatLists`, ...) say which slice
each operator of `SerpRows` makes of one. `WebPage` and `DocumentPage` put them
together for each engine: what a driver, or a raw search, returns for a start and a
limit is the slice from that start on, whichever parts of it the pages brought. Yandex
and Ecosia are by induction over pages, along `Interval`: an interval that holds its
first number, and the next to each it holds, is whole. The same principle shows that
functions defined by a first value and a step exist (`StepsExist`), which is all that
the proofs need of the model's recursive functions.

`PagesHold` is the inductive invariant `IInv`, of four parts. `WalkIsWhole` is not
inductive: that pages fit together needs to know where the next one starts, what is
still on its way, and that a page may be the last. `ClientTypes` says that starts stay
numbers from the client's first one on, and at page boundaries if they were;
`ArrivedRows` that everything on its way to the envelope is at its place (`Placed`);
`OneOutcome` that the only engine of a client has answered with one page or not
at all; `Walk` that what was received is the ranking from the first start to the
current one, or all of it once `has_more` is false. `RanksAlways` and
`WalkIsWholeAlways` follow. TLC checked `IInv` on the instance of `paged_search`,
with bounds for its witnesses, before it was proved.

`MergeAlways`: `deduplicateMegaResults` keeps the winners (`Winners`) of the rows it
is offered: one of each result, which no other beats, and of equals the first to
come. `betterMegaResult` decides between any two engines (`BetterOrder`, for which only
Google may have rows without a rank, as `Placed` shows), so which rows win does not
depend on the order in which engines came (`SameWinners`), and `sortMegaResults`
leaves two different results no choice of order (`OrderDecides`, `OneOrder`).
`ClustersAlways`: the clusters of `BuildClusters` are those of the first result of
each URL, once each and sorted (`ClustersBuilt`); the pairs of a cluster and a place
in it are as many as the rows, by a bijection (`ClustersHaveAll`), and the best rank
is the least of those there are (`BestSteps`).

Only model-checked: all liveness (`RecoveredEngineCloses`, `ExhaustedPoolRecovers`,
both `EveryRequestAnswered`, `IdleChromeStops`, `ShutdownEnds`, `EveryCallReturns`,
`EveryResultAnswered`, `EverySearchEnds`), as liveness under fairness is outside the
prover's reach; their safety halves are theorems where they have one. Every invariant
and every action property that a run checks is a theorem. Properties that are stated and
proved but in no run (`CountersFitState`, `LegalTransitions`, `OpenAdmitsNobody`,
`RefusedOrServed`, `ExhaustionDelaysProbe` and others) were model-checked before
they were proved.

## 6. What is left out

Inside the modelled components: the average latency by which the fastest mode
chooses (`MegaSearch` lets it choose any engine that is admitted), statistics and
counters nobody reads back, logging, masking and parsing of proxy URLs, the
derivation of lane keys, the bodies of results, engines without a browser in
`BrowserPool`. Two uses of an LRU map in the same instant are not considered.
Breakers and registry accept a threshold below one and replace it or behave as with
one; the models start there.

In `MegaSearch`: the query text and the proxy market, which are equal in all keys;
image searches, whose handler differs in its breakers' capability only (the model
lets the breaker of either capability take an engine out of a key); ranks,
deduplication and clusters, which do not look at engines; a `MegaTimeout` of zero.

In `BrowserConnection`: the counters of the network usage, resource blocking, the
content of a profile. In `Extraction`: the readability heuristics, which are a
verdict. In
`EngineSearch`: selectors, the text of rows, features beside the results, and the
moments within the reading of one page. In `PagedSearch`: query parameters other
than the place in the ranking (Ecosia drops date ranges over 31 days, Baidu's builder
indexes the second date unchecked), domain categories, text fields.

Components left out altogether, and why:

- middleware and authentication: straight-line checks of one request that leave no
  state. The deadline the middleware sets for a request is part of `EngineSearch`
  (`Expire`), `ResilientSearch` (`Cancel`), `MegaSearch` (`Deadline`, for mega requests
  their own) and `Extraction` (`Deadlines`, `Tick`), and of no other module;
- the cache of HTTP clients and the network guard: a client holds idle connections
  only, a search that has taken one goes on with it after it was evicted, and the
  guard looks at one address and keeps nothing;
- the handlers for parsing pages, health, statistics and fingerprint checks: they
  read and answer;
- command line, configuration, profiles, locale, formats and logging: sequential
  code whose results are data, without state that outlives a call.

## 7. Plan

What is left to extend, in this order:

1. A page that changes while it is read, in `EngineSearch`, where drivers read rows
   one by one.
2. The composition of `BrowserPool` with `BrowserConnection`: an eviction that closes
   a Chrome under the navigations of a request that holds it.
3. What clients with limits below a page, or starts off its boundary, lose or see
   twice in a walk: `WalkIsWhole` leaves these cases out by `Aligned`.
