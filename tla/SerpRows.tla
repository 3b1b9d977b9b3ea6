-------------------------------- MODULE SerpRows --------------------------------
(***************************************************************************)
(* The rows of a result page and what the engines do with them: ranks      *)
(* (core/rank_state.go), duplicates, limits and pages (core/common.go),    *)
(* and the parsers of the six engines.                                     *)
(*                                                                         *)
(* A page is a layout, the sequence of the kinds of its blocks: "organic", *)
(* "ad", "again" (an organic row whose URL is that of the first block of   *)
(* the first page), "answer" (Google's people-also-ask) and "broken" (a    *)
(* block without a title or a link, which every parser skips). A URL is    *)
(* the page and the block that it was first seen in.                       *)
(***************************************************************************)
EXTENDS Integers, Sequences, FiniteSets, SequencesExt, TLC

CONSTANTS
  PageSize,          \* results of a page: 10 in the code
  defaultQueryLimit  \* core/common.go: 10

ASSUME SerpRowsAssumption == PageSize \in Nat \ {0} /\ defaultQueryLimit \in Nat

Engines == {"baidu", "bing", "duckduckgo", "ecosia", "google", "yandex"}
\* Those that search without a browser too.
RawEngines == {"google", "yandex", "ecosia", "baidu"}

FirstUrl == <<0, 1>>
BlockKinds == {"organic", "ad", "again", "answer", "broken"}

\* A row: its URL, whether it is an ad, its rank and its absolute one.
Row == [url : Int \X Int, ad : BOOLEAN, rank : Int, abs : Int]

\* The k-th of the positions p.
Position(p, k) == CHOOSE i \in p : Cardinality({j \in p : j <= i}) = k

\* The members of s at the positions `at`, in their order. (What t and p are
\* bound to, and what SubSeq cuts out of itself, TLC computes only once.)
Kept(s, at) ==
  LET kept == [t \in {s} |-> [p \in {at} |-> [k \in 1 .. Cardinality(p) |-> t[Position(p, k)]]]]
  IN  SubSeq(kept[s][at], 1, Cardinality(at))

-----------------------------------------------------------------------------
(* Ranks. *)

\* The rows among the first i of s that are no ads, or that are.
Organics(s, i) == Cardinality({j \in 1 .. i : ~s[j].ad})
Ads(s, i) == Cardinality({j \in 1 .. i : s[j].ad})
CountOrganicResults(s) == Organics(s, Len(s))

\* RankState of an organic and an absolute base: ads have ranks of their own,
\* the absolute rank counts both.
Ranked(s, organicBase, absoluteBase) ==
  [i \in DOMAIN s |-> [s[i] EXCEPT
     !.rank = IF s[i].ad THEN Ads(s, i) ELSE organicBase + Organics(s, i),
     !.abs = absoluteBase + i - 1]]

\* Ads first, then the organic rows in their order.
SetSeparatedAdAbsoluteRanks(s, start) ==
  [i \in DOMAIN s |-> [s[i] EXCEPT
     !.abs = IF s[i].ad THEN start + s[i].rank ELSE start + Ads(s, Len(s)) + Organics(s, i)]]

\* Organic rows are numbered again, behind the start.
Rebased(s, start) ==
  [i \in DOMAIN s |-> IF s[i].ad THEN s[i] ELSE [s[i] EXCEPT !.rank = start + Organics(s, i)]]

Offset(s, start) ==
  [i \in DOMAIN s |-> IF s[i].abs > 0 THEN [s[i] EXCEPT !.abs = @ + start] ELSE s[i]]

-----------------------------------------------------------------------------
(* Duplicates, limits and pages. *)

resultSortPosition(r) == IF r.abs > 0 THEN r.abs ELSE IF r.rank < 0 THEN -r.rank ELSE r.rank

UrlLess(u, v) == u[1] < v[1] \/ (u[1] = v[1] /\ u[2] < v[2])

resultLess(l, r) ==
  \/ resultSortPosition(l) < resultSortPosition(r)
  \/ /\ resultSortPosition(l) = resultSortPosition(r)
     /\ \/ l.ad /\ ~r.ad
        \/ l.ad = r.ad /\ (l.rank < r.rank \/ (l.rank = r.rank /\ UrlLess(l.url, r.url)))

\* The place of the i-th member of s when it is sorted: the number of members
\* that do not come after it.
Place(s, i, Less(_, _)) ==
  Cardinality({j \in DOMAIN s : Less(s[j], s[i]) \/ (~Less(s[i], s[j]) /\ j <= i)})
Sorted(s, Less(_, _)) ==
  LET sorted == [t \in {s} |-> [k \in DOMAIN t |-> t[CHOOSE i \in DOMAIN t : Place(t, i, Less) = k]]]
  IN  SubSeq(sorted[s], 1, Len(s))
SortResults(s) == Sorted(s, resultLess)

\* The first row of each URL, ads apart from the others, sorted.
DeduplicateResults(s) ==
  SortResults(Kept(s, {i \in DOMAIN s : \A j \in 1 .. i - 1 : s[j].url # s[i].url \/ s[j].ad # s[i].ad}))

LimitOrganicResults(s, limit) ==
  IF limit <= 0 THEN s ELSE Kept(s, {i \in DOMAIN s : s[i].ad \/ Organics(s, i) <= limit})

skipOrganicResults(s, skip) == Kept(s, {i \in DOMAIN s : s[i].ad \/ Organics(s, i) > skip})

windowOrganicResults(s, start, limit) == LimitOrganicResults(skipOrganicResults(s, start), limit)

ComputePagination(start) == [page |-> start \div PageSize, skip |-> start % PageSize]

\* Small limits are served from the first page, however few rows it has.
ShouldFetchResultPage(collected, limit, fetched) ==
  fetched <= 0 \/ (~(limit > 0 /\ collected >= limit) /\ limit > defaultQueryLimit)

-----------------------------------------------------------------------------
(* Parsers. *)

\* The rows of a page; ranks are given afterwards.
RowKinds == {"organic", "ad", "again"}
Rows(layout, page) ==
  LET all == [i \in DOMAIN layout |->
               [url |-> IF layout[i] = "again" THEN FirstUrl ELSE <<page, i>>,
                ad |-> layout[i] = "ad", rank |-> 0, abs |-> 0]]
  IN  Kept(all, {i \in DOMAIN layout : layout[i] \in RowKinds})

\* A parser that ranks the rows of a page in its order.
ParsePage(rows, organicBase, absoluteBase) == Ranked(rows, organicBase, absoluteBase)

ParseBing(rows, start) == ParsePage(rows, start, start + 1)
ParseDDG(rows) == ParsePage(rows, 0, 1)
ParseYandex(rows, page) == ParsePage(rows, page * PageSize, page * PageSize + 1)

\* The answers of people-also-ask, given by their URLs.
AnswerRows(urls) == [i \in DOMAIN urls |-> [url |-> urls[i], ad |-> FALSE, rank |-> -i, abs |-> 0]]

\* Google's answers have ranks below 0 and no absolute one.
ParseGoogle(rows, answers, start) == ParsePage(rows, start, start + 1) \o AnswerRows(answers)

\* Ecosia's: organic rows, then ads, continuing the ranks of the rows before.
ParseEcosia(rows, before, startRank) ==
  LET organic == Kept(rows, {i \in DOMAIN rows : ~rows[i].ad})
      ads == Kept(rows, {i \in DOMAIN rows : rows[i].ad})
  IN  [i \in DOMAIN organic |-> [organic[i] EXCEPT !.rank = startRank + CountOrganicResults(before) + i - 1]]
        \o [i \in DOMAIN ads |-> [ads[i] EXCEPT !.rank = Ads(before, Len(before)) + i]]

\* Baidu's: without duplicates, and then numbered again.
ParseBaidu(rows) == Rebased(DeduplicateResults(ParsePage(rows, 0, 1)), 0)

-----------------------------------------------------------------------------
(* What the drivers make of the rows they collected. *)

firstPage(start) == ComputePagination(start).page
startRank(start) == firstPage(start) * PageSize + 1
Cut(s, limit) == SubSeq(s, 1, IF Len(s) > limit THEN limit ELSE Len(s))

LimitedRows(s, limit) == LimitOrganicResults(DeduplicateResults(s), limit)
DDGRows(s, start, limit) == windowOrganicResults(DeduplicateResults(s), start, limit)
EcosiaRows(s, start, limit) == LimitedRows(SetSeparatedAdAbsoluteRanks(s, start), limit)
BaiduRows(s, start) == Offset(Rebased(s, start), start)

\* The raw searches renumber the rows of their document, without duplicates:
\* behind the start of the query ...
RawGoogle(rows, start) ==
  LET s == DeduplicateResults(ParsePage(rows, 0, 1))
  IN  IF start > 0 THEN Offset(Rebased(s, start), start) ELSE s

RawBaidu(rows, start) ==
  DeduplicateResults(IF start > 0 THEN BaiduRows(ParseBaidu(rows), start) ELSE ParseBaidu(rows))

RawYandex(rows, start) ==
  LET s == skipOrganicResults(DeduplicateResults(ParsePage(rows, 0, 1)), ComputePagination(start).skip)
  IN  Offset(IF start > 0 THEN Rebased(s, start) ELSE s, firstPage(start) * PageSize)

\* ... or of the page: Ecosia's pages are not asked for by offset.
RawEcosia(rows, start) ==
  LET s == DeduplicateResults(SetSeparatedAdAbsoluteRanks(ParseEcosia(rows, << >>, 1), 0))
  IN  DeduplicateResults(SetSeparatedAdAbsoluteRanks(Rebased(s, startRank(start) - 1),
                                                     firstPage(start) * PageSize))

=============================================================================
