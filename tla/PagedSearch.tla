------------------------------ MODULE PagedSearch ------------------------------
(***************************************************************************)
(* What a client receives that follows pagination.next_start for as long   *)
(* as pagination.has_more says so, from one engine (a dedicated or a raw   *)
(* endpoint) or from several at once (/mega/search): which results the     *)
(* engines' URLs ask for, the rows the drivers make of them (SerpRows),    *)
(* and the envelope that is built of the rows: duplicates, ranks and       *)
(* positions, clusters, pagination.                                        *)
(*                                                                         *)
(* The engines are external, and at rest: each has a ranking of URLs for   *)
(* the query and serves the part its parameters ask for. How a driver's    *)
(* call may go wrong is in EngineSearch; here it fails or it does not. A   *)
(* URL is <<k, v>>: the page k, under the v-th of its tracking parameters. *)
(***************************************************************************)
EXTENDS SerpRows

CONSTANTS
  Ranking,      \* of each engine, the organic results of the query
  Answered,     \* Google's people-also-ask: URLs beside the first results
  Clients,      \* [engines, kind, limit, start, dedupe], see ClientOK
  MaxQueryLimit,\* core/common.go: 100
  ScoreScale,   \* scores are sums of 1/rank: whole numbers of this unit
  MaxStart      \* bound on the start a client goes on to

engineNames == <<"baidu", "bing", "duckduckgo", "ecosia", "google", "yandex">>
ClientOK(c) ==
  /\ c.engines \subseteq Engines /\ c.engines # {}
  /\ c.kind \in {"web", "raw", "image"} /\ {c.limit, c.start} \subseteq Int
  /\ c.kind # "web" => Cardinality(c.engines) = 1
  /\ c.kind = "raw" => c.engines \subseteq RawEngines

\* An engine at rest ranks a URL once. A page and the default limit are both ten.
ASSUME PagedAssumption ==
  /\ Ranking \in [Engines -> Seq(Int \X Int)] /\ Answered \in Seq(Int \X Int)
  /\ \A e \in Engines : \A i, j \in DOMAIN Ranking[e] : Ranking[e][i] = Ranking[e][j] => i = j
  /\ defaultQueryLimit = PageSize /\ {MaxQueryLimit, MaxStart} \subseteq Nat
  /\ ScoreScale \in Nat \ {0} /\ \A e \in Engines : \A i \in DOMAIN Ranking[e] : ScoreScale % i = 0
  /\ \A c \in Clients : ClientOK(c)

VARIABLES
  client,   \* the client's parameters
  start,    \* the start of its current request
  ads,      \* whether every page of an engine has an ad on top
  obeys,    \* whether engines obey a count, or serve pages of their own size
  turn,     \* "sending", "asking", "answered" or "left"
  waiting,  \* engines whose outcome is not in
  arrived,  \* their rows, in the order of arrival
  results,  \* the results of the envelope
  clusters, \* its clusters
  received  \* the positions of the organic results received so far, one engine's

pagedVars == <<client, start, ads, obeys, turn, waiting, arrived, results, clusters, received>>

one == Cardinality(client.engines) = 1
the == CHOOSE e \in client.engines : TRUE

-----------------------------------------------------------------------------
(* What an engine serves: external. *)

normalizeURL(u) == <<u[1], 0>>

Organic(u) == [url |-> u, ad |-> FALSE, rank |-> 0, abs |-> 0]

\* The results behind the first `from` ones, under an ad for the first of all.
Served(e, from, count) ==
  LET organic == SubSeq(Ranking[e], from + 1, Min({from + count, Len(Ranking[e])}))
  IN  IF organic = << >> THEN << >>
      ELSE (IF ads THEN <<[Organic(Ranking[e][1]) EXCEPT !.ad = TRUE]>> ELSE << >>)
             \o [i \in DOMAIN organic |-> Organic(organic[i])]

-----------------------------------------------------------------------------
(* What the URLs ask for: BuildURL of each engine. *)

\* num, count and rn are only sent for more than a page.
AskedCount == IF client.limit > defaultQueryLimit /\ obeys THEN client.limit ELSE PageSize

\* start and num
GoogleServed == Served("google", start, AskedCount)
\* first, counted from 1; or count, never both
BingServed == Served("bing", start, IF start > 0 THEN PageSize ELSE AskedCount)
\* Broken: pn is a page, not an offset.
BaiduServedMutant == Served("baidu", firstPage(start), AskedCount)
\* pn and rn
BaiduServed == Served("baidu", start, AskedCount)
\* p, counted from 0, of Yandex and of Ecosia
YandexServed(page) == Served("yandex", page * PageSize, PageSize)
EcosiaServed(page) == Served("ecosia", page * PageSize, PageSize)
\* Always from the start: "more results" is clicked until there are enough.
DDGServed == Served("duckduckgo", 0, Len(Ranking["duckduckgo"]))

\* The pages a driver may read.
Pages(e) == firstPage(start) .. firstPage(start) + Len(Ranking[e])

\* What it has collected when it has read page p.
YandexPage(p) ==
  LET s == ParseYandex(YandexServed(p), p)
  IN  IF p = firstPage(start) THEN skipOrganicResults(s, ComputePagination(start).skip) ELSE s
YandexPages[p \in Pages("yandex")] ==
  IF p = firstPage(start) THEN YandexPage(p) ELSE YandexPages[p - 1] \o YandexPage(p)
EcosiaPages[p \in Pages("ecosia")] ==
  LET before == IF p = firstPage(start) THEN << >> ELSE EcosiaPages[p - 1]
  IN  before \o ParseEcosia(EcosiaServed(p), before, startRank(start))

\* The page it reads last: the limit is reached, or the page is empty.
LastPage(e, collected) ==
  Min({p \in Pages(e) :
         \/ Served(e, p * PageSize, PageSize) = << >>
         \/ ~ShouldFetchResultPage(CountOrganicResults(collected[p]), client.limit,
                                   p - firstPage(start) + 1)})

WebRows(e) ==
  CASE e = "google" -> DeduplicateResults(ParseGoogle(GoogleServed, IF start = 0 THEN Answered ELSE << >>, start))
    [] e = "bing" -> LimitedRows(ParseBing(BingServed, start), client.limit)
    [] e = "baidu" -> BaiduRows(ParseBaidu(BaiduServed), start)
    [] e = "duckduckgo" -> DDGRows(ParseDDG(DDGServed), start, client.limit)
    [] e = "yandex" -> LimitedRows(YandexPages[LastPage(e, YandexPages)], client.limit)
    [] e = "ecosia" -> EcosiaRows(EcosiaPages[LastPage(e, EcosiaPages)], start, client.limit)

DocumentRows(e) ==
  CASE e = "google" -> RawGoogle(GoogleServed, start)
    [] e = "baidu" -> RawBaidu(BaiduServed, start)
    [] e = "yandex" -> RawYandex(YandexServed(firstPage(start)), start)
    [] e = "ecosia" -> RawEcosia(EcosiaServed(firstPage(start)), start)
    [] OTHER -> << >>

-----------------------------------------------------------------------------
(* Images: a page shows them all, and no URL says where to start. *)

Grid(e) == [i \in DOMAIN Ranking[e] |-> [Organic(Ranking[e][i]) EXCEPT !.rank = i]]
GoogleImages == {Cut(Grid("google"), client.limit)}
BingImages == {Cut(Grid("bing"), client.limit)}
EcosiaImages == {Cut(Grid("ecosia"), client.limit)}
BaiduImages == {Cut(Grid("baidu"), client.limit)}
DDGImages == {Grid("duckduckgo")}
\* Yandex's come out of a map.
YandexImages ==
  LET s == Grid("yandex")
  IN  {Kept(s, chosen) :
         chosen \in {c \in SUBSET DOMAIN s : Cardinality(c) = Len(Cut(s, client.limit))}}

ImageRows(e) ==
  CASE e = "google" -> GoogleImages [] e = "bing" -> BingImages [] e = "ecosia" -> EcosiaImages
    [] e = "baidu" -> BaiduImages [] e = "duckduckgo" -> DDGImages [] e = "yandex" -> YandexImages

-----------------------------------------------------------------------------
(* The rows of several engines: deduplicateMegaResults. *)

EngineLess(d, e) == \E i, j \in DOMAIN engineNames : i < j /\ engineNames[i] = d /\ engineNames[j] = e

\* Broken: only rows with a rank are compared by it.
betterMegaResultMutant(r, than) == r.rank > 0 /\ r.rank < than.rank
betterMegaResult(r, than) ==
  \/ r.rank > 0 /\ (than.rank <= 0 \/ r.rank < than.rank)
  \/ r.rank = than.rank /\ EngineLess(r.engine, than.engine)

SameResult(r, s) == normalizeURL(r.url) = normalizeURL(s.url) /\ r.ad = s.ad

megaLess(r, s) ==
  \/ resultLess(r, s)
  \/ /\ ~resultLess(s, r)
     /\ \/ EngineLess(r.engine, s.engine)
        \/ r.engine = s.engine /\ UrlLess(normalizeURL(r.url), normalizeURL(s.url))

\* A row replaces the one before it that is the same result, if it is better.
Offered(kept, r) ==
  IF \A i \in DOMAIN kept : ~SameResult(kept[i], r) THEN Append(kept, r)
  ELSE [i \in DOMAIN kept |-> IF SameResult(kept[i], r) /\ betterMegaResult(r, kept[i]) THEN r ELSE kept[i]]

deduplicateMegaResults(s) ==
  LET kept[n \in 0 .. Len(s)] == IF n = 0 THEN << >> ELSE Offered(kept[n - 1], s[n])
  IN  Sorted(kept[Len(s)], megaLess)

-----------------------------------------------------------------------------
(* The envelope. *)

\* The position of a row that has no absolute rank.
computeResultPosition(r) ==
  LET rank == IF r.rank < 0 THEN -r.rank ELSE r.rank
  IN  IF r.abs > 0 THEN r.abs
      ELSE IF rank = 0 \/ (start > 0 /\ rank > start) THEN rank ELSE start + rank

\* AppendEnrichedSearchResult and EnrichImageResult. An answer is a row without
\* an absolute rank that is no ad.
EnrichResult(r) ==
  [id |-> <<r.engine, normalizeURL(r.url)>>, engine |-> r.engine, url |-> normalizeURL(r.url),
   rank |-> IF r.rank >= 0 THEN r.rank ELSE IF r.ad THEN -r.rank ELSE 0,
   type |-> IF r.ad THEN "ad" ELSE IF r.rank < 0 THEN "people_also_ask" ELSE "organic",
   position |-> computeResultPosition(r)]
Enriched(s) == [i \in DOMAIN s |-> EnrichResult(s[i])]

countNonAdResults(s) == Cardinality({i \in DOMAIN s : s[i].type # "ad"})
\* Broken: a full page is not enough.
HasMoreMutant == countNonAdResults(results) > client.limit
\* Finalize, of both envelopes.
HasMore == (IF client.kind = "image" THEN Len(results) ELSE countNonAdResults(results)) >= client.limit
NextStart == start + client.limit

\* Broken: a rank of 0 is never improved.
BestRankMutant(best, rank) == IF rank > 0 /\ rank < best THEN rank ELSE best
BestRank(best, rank) == IF rank > 0 /\ (best <= 0 \/ rank < best) THEN rank ELSE best

\* The results of one URL; a result without a rank scores like a first one.
Cluster(url, s) ==
  LET of == Kept(s, {i \in DOMAIN s : s[i].url = url})
      sum[n \in 0 .. Len(of)] ==
        IF n = 0 THEN 0 ELSE sum[n - 1] + ScoreScale \div (IF of[n].rank <= 0 THEN 1 ELSE of[n].rank)
      best[n \in 0 .. Len(of)] == IF n = 0 THEN of[1].rank ELSE BestRank(best[n - 1], of[n].rank)
      queried == Cardinality(client.engines)
  IN  [url |-> url, occurrences |-> of, best |-> best[Len(of)],
       score |-> Min({100, (200 * sum[Len(of)] + ScoreScale * queried) \div (2 * ScoreScale * queried)})]

\* sort.Slice may leave clusters that are equal by this order in any order; here
\* they stay in that of their first results, and no property tells them apart.
ClusterLess(c, d) == c.score > d.score \/ (c.score = d.score /\ c.best < d.best)

BuildClusters(s) ==
  LET firsts == Kept(s, {i \in DOMAIN s : \A j \in 1 .. i - 1 : s[j].url # s[i].url})
  IN  Sorted([i \in DOMAIN firsts |-> Cluster(firsts[i].url, s)], ClusterLess)

-----------------------------------------------------------------------------
(* The client's requests. *)

PagedInit ==
  /\ client \in Clients /\ start = client.start
  /\ ads \in BOOLEAN /\ obeys \in BOOLEAN
  /\ turn = "sending" /\ waiting = {} /\ arrived = << >>
  /\ results = << >> /\ clusters = << >> /\ received = << >>

\* A limit or a start outside of its range is refused.
InitFromContext ==
  /\ turn = "sending"
  /\ IF client.limit \in 1 .. MaxQueryLimit /\ start >= 0
     THEN turn' = "asking" /\ waiting' = client.engines
     ELSE turn' = "left" /\ UNCHANGED waiting
  /\ arrived' = << >> /\ results' = << >> /\ clusters' = << >>
  /\ UNCHANGED <<client, start, ads, obeys, received>>

AnswersOf(e) ==
  CASE client.kind = "web" -> {WebRows(e)} [] client.kind = "raw" -> {DocumentRows(e)} [] client.kind = "image" -> ImageRows(e)

\* MegaSearchResult: a row and its engine.
Of(e, r) == [engine |-> e, url |-> r.url, ad |-> r.ad, rank |-> r.rank, abs |-> r.abs]

EngineAnswers(e) ==
  /\ turn = "asking" /\ e \in waiting
  /\ waiting' = waiting \ {e}
  /\ \E s \in AnswersOf(e) : arrived' = arrived \o [i \in DOMAIN s |-> Of(e, s[i])]
  /\ UNCHANGED <<client, start, ads, obeys, turn, results, clusters, received>>

\* One engine of several fails, or the only one: the client gives up.
EngineFails(e) ==
  /\ turn = "asking" /\ e \in waiting
  /\ waiting' = waiting \ {e}
  /\ turn' = IF one THEN "left" ELSE turn
  /\ UNCHANGED <<client, start, ads, obeys, arrived, results, clusters, received>>

\* The places of the organic results among what one engine has.
Places ==
  LET organic == Kept(arrived, {i \in DOMAIN arrived : EnrichResult(arrived[i]).type = "organic"})
  IN  [i \in DOMAIN organic |-> CHOOSE k \in DOMAIN Ranking[the] : Ranking[the][k] = organic[i].url]

\* What handleMegaEndpoint makes of the rows of several engines; clusters are of
\* all of them, duplicates included.
MegaResults == IF client.dedupe THEN deduplicateMegaResults(arrived) ELSE arrived
MegaClusters == IF client.kind = "image" THEN << >> ELSE BuildClusters(Enriched(arrived))

\* The envelope: handleDedicatedEndpoint, or handleMegaEndpoint.
Envelope ==
  /\ turn = "asking" /\ waiting = {}
  /\ turn' = "answered"
  /\ results' = Enriched(IF one THEN arrived ELSE MegaResults)
  /\ clusters' = IF one THEN << >> ELSE MegaClusters
  /\ received' = IF one /\ client.kind # "image" THEN received \o Places ELSE received
  /\ UNCHANGED <<client, start, ads, obeys, waiting, arrived>>

NextPage ==
  /\ turn = "answered" /\ HasMore /\ NextStart <= MaxStart
  /\ turn' = "sending" /\ start' = NextStart
  /\ UNCHANGED <<client, ads, obeys, waiting, arrived, results, clusters, received>>

NoMore ==
  /\ turn = "answered" /\ ~HasMore
  /\ turn' = "left"
  /\ UNCHANGED <<client, start, ads, obeys, waiting, arrived, results, clusters, received>>

PagedNext ==
  \/ InitFromContext \/ Envelope \/ NextPage \/ NoMore
  \/ \E e \in Engines : EngineAnswers(e) \/ EngineFails(e)
PagedSpec == PagedInit /\ [][PagedNext]_pagedVars

-----------------------------------------------------------------------------
(* Properties. *)

\* Limits and starts for which the pages of a client fit together: DuckDuckGo,
\* Bing and Yandex cut their rows to the limit; Google and Baidu do not, so that
\* a limit below their page overlaps, and Google's answers count for has_more,
\* so that a page of fewer results than the limit leads past those that are
\* missing; Ecosia has whole pages only, and the raw searches one page, uncut.
Aligned ==
  LET whole == client.limit % PageSize = 0 /\ client.start % PageSize = 0
  IN  CASE the \in {"duckduckgo", "bing", "yandex"} /\ client.kind = "web" -> TRUE
        [] the = "ecosia" -> whole
        [] the = "google" /\ client.kind = "web" -> client.limit = PageSize \/ (client.limit > PageSize /\ obeys)
        [] OTHER -> client.limit >= PageSize

\* Following next_start, the client of one engine whose pages fit gets the
\* engine's results in their order, each once and none left out; and in pages of
\* the default size has_more does not end the walk before the last of them.
WalkIsWhole ==
  one =>
    /\ Aligned => received = [i \in DOMAIN received |-> client.start + i]
    /\ /\ client.kind # "image" /\ client.limit = PageSize /\ client.start % PageSize = 0
       /\ turn = "answered" /\ ~HasMore
       => Len(received) = Max({0, Len(Ranking[the]) - client.start})

\* The rank of an organic result, or of an image, is its place in its engine's
\* ranking, on every page and by whichever engine; without ads, so is a result's
\* position. (Not for Ecosia between two pages: its browser driver counts
\* positions from the start of the query, and ranks from that of the page.)
RanksArePlaces ==
  turn = "answered" =>
    \A i \in DOMAIN results :
      LET r == results[i]
      IN  r.type = "organic" =>
            /\ normalizeURL(Ranking[r.engine][r.rank]) = r.url
            /\ \/ ads \/ client.kind = "image"
               \/ r.engine = "ecosia" /\ client.kind = "web" /\ start % PageSize # 0
               \/ r.position = r.rank

\* The merged results do not depend on the order in which the engines answered,
\* and each is there once, with the best of its ranks.
MergeIsFair ==
  turn = "answered" /\ ~one /\ client.dedupe =>
    LET of(e) == Kept(arrived, {i \in DOMAIN arrived : arrived[i].engine = e})
        inTurn == of("baidu") \o of("bing") \o of("duckduckgo") \o of("ecosia") \o of("google") \o of("yandex")
    IN  /\ results = Enriched(deduplicateMegaResults(inTurn))
        /\ \A i \in DOMAIN arrived : \E j \in DOMAIN results :
             /\ results[j].url = normalizeURL(arrived[i].url) /\ (results[j].type = "ad") = arrived[i].ad
             /\ arrived[i].rank > 0 => results[j].rank \in 1 .. arrived[i].rank

\* Every row of every engine is in the one cluster of its URL, which has the
\* best rank of those that have one, and clusters are in the order of scores.
ClustersAgree ==
  turn = "answered" /\ ~one /\ client.kind = "web" =>
    /\ \A i \in DOMAIN arrived :
         Cardinality({c \in DOMAIN clusters : EnrichResult(arrived[i]) \in Range(clusters[c].occurrences)}) = 1
    /\ Cardinality({p \in (DOMAIN clusters) \X (DOMAIN arrived) : p[2] \in DOMAIN clusters[p[1]].occurrences})
         = Len(arrived)
    /\ \A c \in DOMAIN clusters :
         LET ranks == {r.rank : r \in Range(clusters[c].occurrences)} \ {0}
         IN  /\ clusters[c].best = IF ranks = {} THEN 0 ELSE Min(ranks)
             /\ c > 1 => clusters[c - 1].score >= clusters[c].score

=============================================================================
