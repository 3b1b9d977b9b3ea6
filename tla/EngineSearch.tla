------------------------------ MODULE EngineSearch ------------------------------
(***************************************************************************)
(* One call of an engine: Search and SearchImage of the six drivers, which *)
(* script a page of a browser, and the raw Search that four of them have.  *)
(*                                                                         *)
(* What a page shows changes under the driver's hands: a blank page turns  *)
(* into anything, more results appear. The request's context may expire    *)
(* at any time, and a page is read through that context. Google's driver   *)
(* may buy the answer of a captcha (CaptchaSolver).                        *)
(***************************************************************************)
EXTENDS SerpRows, CaptchaSolver

CONSTANTS
  Queries,   \* [engine, kind, limit, start] of the calls, see QueryOK
  Layouts,   \* the layouts that pages may have
  MaxPages,  \* bound: pages of a call; maxImagePasses for Google's images
  Solver     \* whether captchas are solved (IsSolveCaptcha, CaptchaSolverEnabled)

QueryOK(q) ==
  /\ q.engine \in Engines /\ q.kind \in {"web", "image", "raw"}
  /\ q.kind = "raw" => q.engine \in RawEngines
  /\ q.limit \in Nat \ {0} /\ q.start \in Nat

ASSUME EngineAssumption ==
  /\ \A q \in Queries : QueryOK(q)
  /\ Layouts \subseteq Seq(BlockKinds) /\ MaxPages \in Nat \ {0} /\ Solver \in BOOLEAN

VARIABLES
  query,  \* the call
  phase,  \* where the driver is
  asked,  \* Google: the phase whose classifyPage has found a captcha
  page,   \* the page: open, gone with its Chrome, what it shows, its layout, and
          \* whether it has shown nothing but a captcha
  seen,   \* Baidu: whether result containers have appeared
  pages,  \* pages opened, or passes over Google's image grid
  stale,  \* Google's images: passes in a row that found nothing
  rows,   \* the rows collected
  alive,  \* the request's context
  out     \* what the call returned

vars == <<query, phase, asked, page, seen, pages, stale, rows, alive, out, job, bill>>
solver == <<job, bill>>

Phases == {"start", "look", "solve", "solved", "wait", "judge", "check", "more", "scroll", "sleep", "done"}
Shows == {"blank", "captcha", "blocked", "empty", "rows"}
Errors == {"none", "captcha", "blocked", "timeout", "ctx", "parser", "network", "ratelimited"}
Pending == [err |-> "none", rows |-> << >>]
Closed == [open |-> FALSE, gone |-> FALSE, shows |-> "blank", layout |-> << >>, only |-> FALSE]

engine == query.engine
kind == query.kind
web(e) == engine = e /\ kind = "web"
image(e) == engine = e /\ kind = "image"

\* An open page belongs to a call that has not ended.
TypeOK ==
  /\ SolverTypeOK
  /\ query \in Queries /\ phase \in Phases /\ asked \in {"look", "judge", "check"}
  /\ page \in [open : BOOLEAN, gone : BOOLEAN, shows : Shows, layout : Layouts \cup {<< >>}, only : BOOLEAN]
  /\ seen \in BOOLEAN /\ alive \in BOOLEAN /\ pages \in 0 .. MaxPages /\ stale \in 0 .. 2
  /\ rows \in Seq(Row) /\ out \in [err : Errors, rows : Seq(Row)]
  /\ page.open <=> phase \notin {"start", "sleep", "done"}

Init ==
  /\ query \in Queries
  /\ phase = "start" /\ asked = "look" /\ page = Closed /\ seen = FALSE
  /\ pages = 0 /\ stale = 0 /\ rows = << >> /\ alive = TRUE /\ out = Pending
  /\ job = NoJob /\ bill = NoBill

-----------------------------------------------------------------------------
(* The environment. *)

Expire ==
  /\ alive /\ phase # "done"
  /\ alive' = FALSE
  /\ UNCHANGED <<query, phase, asked, page, seen, pages, stale, rows, out, solver>>

Extends(l, m) == Len(l) < Len(m) /\ SubSeq(m, 1, Len(l)) = l

\* A page hydrates, or is reloaded by its own scripts.
Turn ==
  /\ page.open /\ ~page.gone
  /\ \/ page.shows = "blank" /\ \E s \in Shows \ {"blank"}, l \in Layouts :
          page' = [page EXCEPT !.shows = s, !.layout = IF s = "rows" THEN l ELSE << >>, !.only = FALSE]
     \/ page.shows = "rows" /\ \E l \in Layouts :
          Extends(page.layout, l) /\ page' = [page EXCEPT !.layout = l]
  /\ UNCHANGED <<query, phase, asked, seen, pages, stale, rows, alive, out, solver>>

\* The Chrome crashes.
PageDies ==
  /\ page.open /\ ~page.gone
  /\ page' = [page EXCEPT !.gone = TRUE, !.only = FALSE]
  /\ UNCHANGED <<query, phase, asked, seen, pages, stale, rows, alive, out, solver>>

\* What a driver reads from the page.
Readable == alive /\ ~page.gone
Look == IF Readable THEN page.shows ELSE "unreadable"

-----------------------------------------------------------------------------
(* Ends. *)

\* The deferred close of the page, if one is open.
Close == page' = [page EXCEPT !.open = FALSE]

Return(err, some) ==
  /\ phase' = "done" /\ out' = [err |-> err, rows |-> some] /\ Close
  /\ UNCHANGED <<query, asked, seen, pages, stale, alive>>

\* What a call returns of the rows it collected.
Finished(s) ==
  CASE web("bing") \/ web("yandex") -> LimitedRows(s, query.limit)
    [] web("duckduckgo") -> DDGRows(s, query.start, query.limit)
    [] web("ecosia") -> EcosiaRows(s, query.start, query.limit)
    [] web("baidu") -> BaiduRows(s, query.start)
    [] image("bing") -> s
    [] image("ecosia") \/ image("baidu") -> Cut(DeduplicateResults(s), query.limit)
    [] OTHER -> DeduplicateResults(s)

Finish(s) == Return("none", Finished(s)) /\ rows' = s

\* Broken: a later page that fails loses the pages before it.
PageFailedMutant(err) == Return(err, << >>) /\ UNCHANGED rows
\* Yandex keeps the pages before the one that failed; images of Google and
\* Yandex are returned beside the error; the others return the error alone.
PageFailed(err) ==
  /\ IF web("yandex") /\ CountOrganicResults(rows) > 0 THEN Return("none", Finished(rows))
     ELSE Return(err, CASE image("google") -> DeduplicateResults(rows)
                        [] image("yandex") -> rows
                        [] OTHER -> << >>)
  /\ UNCHANGED rows

Count(s) == IF kind = "image" THEN Len(s) ELSE CountOrganicResults(s)
Paginated == engine \in {"yandex", "ecosia"} \/ image("baidu")

\* A page has been read to its end: the next one, or the rows collected.
PageDone(last, s) ==
  IF last \/ ~Paginated \/ ~ShouldFetchResultPage(Count(s), query.limit, pages) THEN Finish(s)
  ELSE /\ phase' = IF web("yandex") \/ engine = "ecosia" THEN "sleep" ELSE "start"
       /\ Close /\ rows' = s
       /\ UNCHANGED <<query, asked, seen, pages, stale, alive, out>>

GoTo(p) == phase' = p /\ UNCHANGED <<query, asked, page, seen, pages, stale, rows, alive, out>>

-----------------------------------------------------------------------------
(* Navigating. *)

\* Navigate fails: the connection, the proxy, or the status of the document.
NavigateFails ==
  /\ phase = "start" /\ kind # "raw"
  /\ \E err \in IF alive THEN {"network", "blocked", "ratelimited"} ELSE {"ctx"} : PageFailed(err)
  /\ UNCHANGED solver

Opened(s, l) == [open |-> TRUE, gone |-> FALSE, shows |-> s, only |-> s = "captcha",
                 layout |-> IF s = "rows" THEN l ELSE << >>]

Navigate ==
  /\ phase = "start" /\ kind # "raw" /\ alive /\ pages < MaxPages
  /\ \E s \in Shows, l \in Layouts : page' = Opened(s, l)
  /\ phase' = IF web("google") \/ engine = "bing" THEN "look" ELSE IF image("google") THEN "scroll" ELSE "wait"
  /\ pages' = IF image("google") THEN 0 ELSE pages + 1
  /\ UNCHANGED <<query, asked, seen, stale, rows, alive, out, solver>>

\* WaitLoad of Ecosia and Reload of Baidu's images.
LoadFails ==
  /\ phase = "wait" /\ (engine = "ecosia" \/ image("baidu"))
  /\ ~Readable \/ page.shows = "blank"
  /\ PageFailed("timeout") /\ UNCHANGED solver

\* The pause between two pages.
Sleep ==
  /\ phase = "sleep"
  /\ IF alive THEN GoTo("start") ELSE Return("ctx", << >>) /\ UNCHANGED rows
  /\ UNCHANGED solver

-----------------------------------------------------------------------------
(* Classifying a page. *)

\* acceptCookies of Bing pauses only after it has clicked a banner away.
BingLooks ==
  /\ phase = "look" /\ engine = "bing"
  /\ IF Look = "captcha" THEN PageFailed("captcha")
     ELSE GoTo("wait") \/ (~alive /\ PageFailed("ctx"))
  /\ UNCHANGED solver

\* What Google's driver makes of a classification, in each of the three places.
Classified(where, c) ==
  IF c = "captcha" \/ (c = "blocked" /\ kind = "web") THEN PageFailed(c)
  ELSE IF kind = "image" THEN Finish(rows)
  ELSE IF where = "look" THEN GoTo("wait")
  ELSE IF c = "empty" THEN Finish(<< >>)
  ELSE PageFailed("timeout")

GoogleLooks ==
  /\ engine = "google" /\ phase \in {"look", "judge", "check"}
  /\ IF Look = "captcha" /\ Solver
     THEN /\ phase' = "solve" /\ asked' = phase
          /\ SolveReCaptcha2
          /\ UNCHANGED <<query, page, seen, pages, stale, rows, alive, out>>
     ELSE Classified(phase, Look) /\ UNCHANGED solver

\* The page's captcha element, its sitekey or its data-s is missing.
CannotSolve ==
  /\ engine = "google" /\ phase \in {"look", "judge", "check"}
  /\ Look = "captcha" /\ Solver
  /\ Classified(phase, "captcha") /\ UNCHANGED solver

Solving ==
  /\ phase = "solve" /\ SolverStep
  /\ UNCHANGED <<query, phase, asked, page, seen, pages, stale, rows, alive, out>>

\* Broken: the token is put into the page on the request's own context.
InjectableMutant == Readable
\* The token is put into the page on a context detached from the request's.
Injectable == ~page.gone

\* The challenge is answered, and the page navigates.
Inject ==
  /\ phase = "solve" /\ job.at = "token" /\ Injectable
  /\ job' = NoJob /\ bill' = [bill EXCEPT !.used = @ + 1]
  /\ page' = [page EXCEPT !.shows = "blank", !.only = FALSE]
  /\ phase' = "solved"
  /\ UNCHANGED <<query, asked, seen, pages, stale, rows, alive, out>>

\* The page's script fails, is not done in 30 s, or finds no way to submit the
\* token: the captcha counts as unsolved.
InjectFails ==
  /\ phase = "solve" /\ job.at = "token" /\ Injectable
  /\ job' = NoJob /\ bill' = [bill EXCEPT !.refused = @ + 1]
  /\ Classified(asked, "captcha")

\* Cookies go to the lane (ProxyLanes), and the page counts as unclassified.
PersistSolvedLaneCookies ==
  /\ phase = "solved"
  /\ Classified(asked, "blank") /\ UNCHANGED solver

NotSolved ==
  /\ phase = "solve"
  /\ job.at = "failed" \/ (job.at = "token" /\ ~Injectable)
  /\ job' = NoJob /\ UNCHANGED bill
  /\ Classified(asked, "captcha")

-----------------------------------------------------------------------------
(* Waiting for results. *)

\* Ecosia waits for the column that an empty page has too.
Awaited == page.shows = "rows" \/ (engine = "ecosia" /\ kind = "web" /\ page.shows = "empty")
Polls == web("baidu")

\* Broken: the page is taken for an empty one before it is asked for a captcha.
VerdictMutant ==
  IF engine = "ecosia" \/ (Look # "blocked" /\ kind = "web" /\ engine # "bing") THEN "none" ELSE "timeout"
\* A page without results, to the drivers but Google's: "none" ends it in peace.
Verdict ==
  IF Look = "captcha" THEN "captcha"
  ELSE IF engine = "ecosia" \/ (Look = "empty" /\ kind = "web") THEN "none" ELSE "timeout"

\* Google's page is classified again; it cannot be read if the context of the
\* request has ended the wait, whose error is then returned.
WaitFails ==
  /\ phase = "wait" /\ ~Polls /\ ~(alive /\ Awaited /\ ~page.gone)
  /\ IF engine = "google" THEN GoTo("judge") \/ (kind = "web" /\ ~alive /\ PageFailed("ctx"))
     ELSE IF Verdict = "none" THEN PageDone(TRUE, rows) ELSE PageFailed(Verdict)
  /\ UNCHANGED solver

Matched == phase = "wait" /\ ~Polls /\ Readable /\ Awaited

-----------------------------------------------------------------------------
(* Web searches. *)

thisPage == firstPage(query.start) + pages - 1
PageRows == Rows(page.layout, thisPage)
Answers == IF "answer" \in Range(page.layout) THEN <<<<-1, 1>>>> ELSE << >>

GoogleParses ==
  /\ web("google") /\ Matched
  /\ LET s == ParseGoogle(PageRows, Answers, query.start) IN
     IF DeduplicateResults(s) = << >> THEN GoTo("check") ELSE Finish(s)
  /\ UNCHANGED solver

\* The request expires while the answers are unfolded (waitAnswersExpanded).
GoogleAnswersExpire ==
  /\ web("google") /\ phase = "wait" /\ ~alive /\ ~page.gone /\ page.shows = "rows"
  /\ Answers # << >>
  /\ PageFailed("ctx") /\ UNCHANGED solver

BingParses ==
  /\ web("bing") /\ Matched
  /\ Finish(ParseBing(PageRows, query.start)) /\ UNCHANGED solver

\* waitForParsedResults gives the list time to fill up, but not longer.
YandexParses ==
  /\ web("yandex") /\ Matched
  /\ \E s \in {ParseYandex(PageRows, thisPage)} :
     \E t \in {rows \o IF pages = 1 THEN skipOrganicResults(s, ComputePagination(query.start).skip) ELSE s} :
       PageDone(FALSE, t)
  /\ UNCHANGED solver

EcosiaParses ==
  /\ web("ecosia") /\ Matched
  /\ \E s \in {rows \o ParseEcosia(PageRows, rows, startRank(query.start))} : PageDone(page.layout = << >>, s)
  /\ UNCHANGED solver

\* Broken: a page that cannot be parsed is taken for an empty one.
DDGParsesMutant ==
  /\ web("duckduckgo") /\ Matched
  /\ LET s == ParseDDG(PageRows) IN
     IF s = << >> THEN Finish(s)
     ELSE phase' = "more" /\ rows' = s /\ UNCHANGED <<query, asked, page, seen, pages, stale, alive, out>>
  /\ UNCHANGED solver
DDGParses ==
  /\ web("duckduckgo") /\ Matched
  /\ LET s == ParseDDG(PageRows) IN
     IF s = << >> THEN PageFailed("timeout")
     ELSE phase' = "more" /\ rows' = s /\ UNCHANGED <<query, asked, page, seen, pages, stale, alive, out>>
  /\ UNCHANGED solver

Wanted == query.start + query.limit

\* "More results" has been clicked: all rows of the page are parsed again.
DDGMore ==
  /\ phase = "more" /\ CountOrganicResults(rows) < Wanted /\ Readable
  /\ \E l \in Layouts :
       /\ Extends(page.layout, l)
       /\ page' = [page EXCEPT !.layout = l]
       /\ rows' = DeduplicateResults(rows \o ParseDDG(Rows(l, thisPage)))
  /\ UNCHANGED <<query, phase, asked, seen, pages, stale, alive, out, solver>>

\* Enough rows, no button, or nothing more; a context that expired in the wait.
DDGEnds ==
  /\ phase = "more"
  /\ Finish(rows) \/ (~alive /\ CountOrganicResults(rows) < Wanted /\ PageFailed("ctx"))
  /\ UNCHANGED solver

\* One turn of Baidu's loop: the page is parsed as a document.
BaiduPolls ==
  /\ web("baidu") /\ phase = "wait"
  /\ \E s \in {ParseBaidu(PageRows)} :
     CASE Look = "captcha" -> PageFailed("captcha")
       [] Look = "blocked" -> PageFailed("timeout")
       [] Look = "rows" /\ s # << >> -> Finish(s)
       [] Look = "rows" /\ s = << >> ->
            seen' = TRUE /\ UNCHANGED <<query, phase, asked, page, pages, stale, rows, alive, out>>
       [] ~alive -> PageFailed("ctx")
       [] OTHER -> FALSE
  /\ UNCHANGED solver

\* The selector timeout has passed.
BaiduGivesUp ==
  /\ web("baidu") /\ phase = "wait" /\ Look \notin {"captcha", "blocked"}
  /\ ~(Look = "rows" /\ ParseBaidu(PageRows) # << >>)
  /\ PageFailed(IF seen \/ Look = "rows" THEN "parser" ELSE "timeout")
  /\ UNCHANGED solver

-----------------------------------------------------------------------------
(* Image searches: what the rows of a page are does not depend on ads. *)

Images(first) ==
  LET s == PageRows
  IN  [i \in DOMAIN s |-> [s[i] EXCEPT !.rank = first + i, !.ad = FALSE]]
Room == query.limit - Len(rows)

\* The rows that are taken of a page: up to the limit, or all.
Taken(s) == SubSeq(s, 1, IF Len(s) > Room THEN Room ELSE Len(s))

\* Another pass: the grid is scrolled.
GoogleScrolls ==
  /\ phase = "scroll"
  /\ IF ~alive THEN PageFailed("ctx")
     ELSE IF pages = MaxPages \/ ~ShouldFetchResultPage(Len(rows), query.limit, pages) \/ stale = 2 THEN Finish(rows)
     ELSE phase' = "wait" /\ UNCHANGED <<query, asked, page, seen, pages, stale, rows, alive, out>>
  /\ UNCHANGED solver

\* Cells seen before are skipped; parsed cells are removed from the page.
GoogleParsesImages ==
  /\ image("google") /\ Matched
  /\ LET found == Images(Len(rows))
         fresh == Kept(found, {i \in DOMAIN found : found[i].url \notin {rows[j].url : j \in DOMAIN rows}})
         s == rows \o Taken(fresh)
     IN  /\ rows' = [i \in DOMAIN s |-> [s[i] EXCEPT !.rank = i]]
         /\ stale' = IF s = rows THEN stale + 1 ELSE 0
  /\ \E shows \in {"blank", "rows"}, l \in Layouts :
       page' = [page EXCEPT !.shows = shows, !.layout = IF shows = "rows" THEN l ELSE << >>]
  /\ phase' = "scroll" /\ pages' = pages + 1
  /\ UNCHANGED <<query, asked, seen, alive, out, solver>>

BingParsesImages == image("bing") /\ Matched /\ Finish(Taken(Images(0))) /\ UNCHANGED solver

\* DuckDuckGo takes all images of the page.
DDGParsesImages == image("duckduckgo") /\ Matched /\ Finish(Images(0)) /\ UNCHANGED solver

EcosiaParsesImages ==
  /\ image("ecosia") /\ Matched
  /\ PageDone(FALSE, rows \o Taken(Images(Len(rows)))) /\ UNCHANGED solver

\* A page that reaches the limit, or whose data is empty, is the last; the data
\* may be malformed.
BaiduParsesImages ==
  /\ image("baidu") /\ Matched
  /\ LET s == rows \o Taken(Images((pages - 1) * PageSize)) IN
     \/ PageDone(Len(s) >= query.limit, s)
     \/ PageDone(TRUE, rows)
     \/ PageFailed("parser")
  /\ UNCHANGED solver

\* Yandex takes the images of a page out of a map, in any order.
YandexParsesImages ==
  /\ image("yandex") /\ Matched
  /\ LET s == Images((pages - 1) * PageSize) IN
     \E chosen \in SUBSET DOMAIN s :
       /\ Cardinality(chosen) = Len(Taken(s))
       /\ LET t == rows \o Kept(s, chosen) IN
          IF t = rows \/ Len(t) >= query.limit \/ ~ShouldFetchResultPage(Len(t), query.limit, pages)
          THEN Finish(t)
          ELSE /\ phase' = "start" /\ Close /\ rows' = t
               /\ UNCHANGED <<query, asked, seen, pages, stale, alive, out>>
  /\ UNCHANGED solver

-----------------------------------------------------------------------------
(* Raw searches. *)

documentRows(layout) == Rows(layout, firstPage(query.start))

RawRows(layout) ==
  LET s == documentRows(layout) IN
  CASE engine = "google" -> RawGoogle(s, query.start) [] engine = "baidu" -> RawBaidu(s, query.start)
    [] engine = "yandex" -> RawYandex(s, query.start) [] engine = "ecosia" -> RawEcosia(s, query.start)

\* What the document is: Baidu's block page is a timeout, to the others but
\* Google one without rows.
RawVerdict(s, layout) ==
  CASE s = "captcha" -> "captcha"
    [] s = "empty" -> "none"
    [] s = "blocked" /\ engine = "google" -> "blocked"
    [] s = "blocked" /\ engine = "baidu" -> "timeout"
    [] s = "rows" /\ documentRows(layout) # << >> -> "none"
    [] OTHER -> "parser"

\* The request fails, or its status says so (ClassifySearchHTTPStatus).
RawFails ==
  /\ phase = "start" /\ kind = "raw"
  /\ \E err \in IF alive THEN {"network", "blocked", "ratelimited", "parser"} ELSE {"ctx"} : Return(err, << >>)
  /\ UNCHANGED <<rows, solver>>

RawAnswers ==
  /\ phase = "start" /\ kind = "raw" /\ alive
  /\ \E s \in Shows, l \in Layouts :
       LET layout == IF s = "rows" THEN l ELSE << >>
           err == RawVerdict(s, layout)
           found == IF err = "none" THEN RawRows(layout) ELSE << >>
       IN  /\ phase' = "done" /\ out' = [err |-> err, rows |-> found] /\ rows' = found
           /\ page' = [Opened(s, l) EXCEPT !.open = FALSE]
  /\ UNCHANGED <<query, asked, seen, pages, stale, alive, solver>>

-----------------------------------------------------------------------------
Finishes == phase = "done" /\ UNCHANGED vars

Step ==
  \/ NavigateFails \/ Navigate \/ LoadFails \/ Sleep
  \/ BingLooks \/ GoogleLooks \/ CannotSolve
  \/ Solving \/ Inject \/ InjectFails \/ PersistSolvedLaneCookies \/ NotSolved
  \/ WaitFails
  \/ GoogleParses \/ GoogleAnswersExpire \/ BingParses \/ YandexParses \/ EcosiaParses
  \/ DDGParses \/ DDGMore \/ DDGEnds \/ BaiduPolls \/ BaiduGivesUp
  \/ GoogleScrolls \/ GoogleParsesImages \/ BingParsesImages \/ DDGParsesImages
  \/ EcosiaParsesImages \/ BaiduParsesImages \/ YandexParsesImages
  \/ RawFails \/ RawAnswers

Next == Step \/ Expire \/ Turn \/ PageDies \/ Finishes

\* A driver goes on, Baidu's loop ends with its timeout, and a request has a
\* deadline (RequestTimeoutMiddleware).
Fairness == WF_vars(Step) /\ WF_vars(BaiduGivesUp) /\ WF_vars(BaiduPolls /\ phase' = "done") /\ WF_vars(Expire)
Spec == Init /\ [][Next]_vars
FairSpec == Spec /\ Fairness

-----------------------------------------------------------------------------
(* Properties. *)

\* The last page has shown a captcha and nothing else, and could be read: the
\* call says so (ErrCaptcha opens breakers and rotates proxies), or returns the
\* rows it had from the pages before.
BlockReported ==
  phase = "done" /\ page.only /\ alive =>
    out.err = "captcha" \/ (web("yandex") /\ CountOrganicResults(rows) > 0)

\* DuckDuckGo found rows, but no organic one behind the start.
NoneBehindStart(s) ==
  web("duckduckgo") /\ s # << >> /\ CountOrganicResults(DeduplicateResults(s)) <= query.start

\* Google, DuckDuckGo, Baidu and the raw searches answer that there is nothing
\* only if the engine's page said so: a page that stays blank or cannot be
\* parsed is an error, which callers retry. DuckDuckGo's window also leaves
\* nothing of rows that are all before the start, though the "more results"
\* that should have gone past it may have failed. (Bing, Yandex and Ecosia, and
\* the image searches, do answer an unreadable page with an empty success, and
\* a raw Yandex search one whose rows are all before the start.)
EmptyIsEvidenced ==
  phase = "done" /\ out.err = "none" /\ out.rows = << >> =>
    \/ page.shows = "empty" \/ NoneBehindStart(rows)
    \/ kind = "image" \/ (kind = "web" /\ engine \in {"bing", "yandex", "ecosia"})
    \/ engine = "yandex" /\ query.start > 0

\* Yandex challenges rapid pagination: once a page has given organic rows, the
\* failure of a later one does not lose them.
CollectedKept ==
  phase = "done" /\ web("yandex") /\ CountOrganicResults(rows) > 0 /\ alive =>
    out.err = "none" /\ CountOrganicResults(out.rows) > 0

\* Every token that was paid for is tried on its page if that still exists,
\* though the request may have expired in the meantime: only the page itself,
\* by refusing it, can make a token worthless.
PaidTokenUsed == phase = "done" /\ ~page.gone => bill.tokens = bill.used + bill.refused

\* Every call returns.
EverySearchEnds == <>(phase = "done")

=============================================================================
