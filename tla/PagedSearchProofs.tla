------------------------ MODULE PagedSearchProofs ------------------------
(***************************************************************************)
(* Theorems of PagedSearch, for every ranking of every engine, every       *)
(* client and every start and limit it asks with: that the client receives *)
(* rows of the rankings at their places, that following next_start is a    *)
(* walk over all of a ranking, that merging does not depend on which       *)
(* engine answered first, and that clusters are of all the rows.           *)
(*                                                                         *)
(* The argument is about slices: rows of the places b + 1 to b + c of a    *)
(* ranking, in its order. The lemmas on lists say which slice an operator  *)
(* of SerpRows makes of a slice; those on engines, which slice each driver *)
(* returns of the pages it is served, and that the pages of two successive *)
(* starts join. The inductive invariant IInv says of the rows that arrived *)
(* and of those the client received that they are such slices.             *)
(***************************************************************************)
EXTENDS EngineAndExtractionProofs, PagedSearch

-----------------------------------------------------------------------------
(* Organic rows and their places in a ranking. *)

\* A multiple of d is the product of d and its quotient.
LEMMA Multiples ==
  ASSUME NEW q \in Int, NEW d \in Nat \ {0}
  PROVE  (q * d) % d = 0 /\ (q * d) \div d = q
<1> DEFINE a == q * d
<1>1. a \in Int /\ a = d * (a \div d) + (a % d) /\ a % d \in 0 .. d - 1 /\ a \div d \in Int
  OBVIOUS
<1>2. d * (q - (a \div d)) = a % d
  BY <1>1
<1>3. ASSUME NEW x \in Int, d * x \in 0 .. d - 1 PROVE x = 0
  <2>1. x >= 1 => d * x >= d
    OBVIOUS
  <2>2. x <= -1 => d * x <= -d
    OBVIOUS
  <2>3. d * x \in Int
    OBVIOUS
  <2>4. QED
    BY <1>3, <2>1, <2>2, <2>3
<1> HIDE DEF a
<1>4. q - (a \div d) \in Int /\ d * (q - (a \div d)) \in 0 .. d - 1
  BY <1>1, <1>2
<1>5. q - (a \div d) = 0
  BY <1>3, <1>4
<1>6. QED
  BY <1>1, <1>2, <1>5 DEF a

\* The sum of two multiples is one.
LEMMA SumOfMultiples ==
  ASSUME NEW a \in Int, NEW b \in Int, NEW d \in Nat \ {0}, a % d = 0, b % d = 0
  PROVE  (a + b) % d = 0 /\ (a \div d) * d = a
<1> DEFINE q == (a \div d) + (b \div d)
<1>1. a = (a \div d) * d /\ b = (b \div d) * d /\ q \in Int
  OBVIOUS
<1>2. a + b = q * d
  BY <1>1
<1> HIDE DEF q
<1>3. QED
  BY <1>1, <1>2, Multiples

\* A row of the ranking: no ad, and none of Google's answers.
IsOrganic(r) == ~ r.ad /\ r.rank > 0
OrganicAt(s) == {i \in DOMAIN s : IsOrganic(s[i])}

\* The organic rows of s are those of ranks b + 1 to b + c, each once and in
\* their order; that of rank k has the URL u[k + d].
Lists(s, u, b, c, d) ==
  /\ s \in Seq(Row) /\ b \in Nat /\ c \in Nat
  /\ \A i \in OrganicAt(s) : s[i].rank \in b + 1 .. b + c /\ s[i].url = u[s[i].rank + d]
  /\ \A i, j \in OrganicAt(s) : i < j => s[i].rank < s[j].rank
  /\ \A k \in b + 1 .. b + c : \E i \in OrganicAt(s) : s[i].rank = k

\* The absolute rank of an organic row is its rank, g places further.
Apart(s, g) == \A i \in OrganicAt(s) : s[i].abs > 0 /\ s[i].abs = s[i].rank + g

\* Every row that is no ad is organic.
NoAnswers(s) == \A i \in DOMAIN s : ~ s[i].ad => s[i].rank > 0
NoAds(s) == \A i \in DOMAIN s : ~ s[i].ad

\* Organic rows are counted by their ranks.
LEMMA RankIsCount ==
  ASSUME NEW s, NEW u, NEW b, NEW c, NEW d, Lists(s, u, b, c, d)
  PROVE  /\ Cardinality(OrganicAt(s)) = c
         /\ \A i \in OrganicAt(s) : Rank(OrganicAt(s), i) = s[i].rank - b
<1> DEFINE at == OrganicAt(s)
           n == Len(s)
<1>1. /\ n \in Nat /\ DOMAIN s = 1 .. n /\ at \subseteq 1 .. n /\ b \in Nat /\ c \in Nat
      /\ \A i \in at : i \in Nat /\ s[i].rank \in b + 1 .. b + c
  BY DEF Lists, OrganicAt
<1>2. \A i, j \in at : i < j => s[i].rank < s[j].rank
  BY DEF Lists
<1>3. \A k \in b + 1 .. b + c : \E i \in at : s[i].rank = k
  BY DEF Lists
<1>4. ASSUME NEW m \in Nat, m <= c, NEW S, S = {i \in at : s[i].rank <= b + m}
      PROVE  Cardinality(S) = m
  <2> DEFINE f == [i \in S |-> s[i].rank - b]
  <2>1. f \in [S -> 1 .. m]
    <3>1. \A i \in S : s[i].rank - b \in 1 .. m
      BY <1>1, <1>4
    <3>2. QED
      BY <3>1
  <2>2. \A i, j \in S : f[i] = f[j] => i = j
    <3> SUFFICES ASSUME NEW i \in S, NEW j \in S, s[i].rank - b = s[j].rank - b PROVE i = j
      OBVIOUS
    <3>1. i \in at /\ j \in at
      BY <1>4
    <3>2. s[i].rank = s[j].rank
      BY <1>1, <3>1
    <3>3. ~ (i < j) /\ ~ (j < i)
      BY <1>1, <1>2, <3>1, <3>2
    <3>4. QED
      BY <1>1, <3>1, <3>3
  <2>3. \A k \in 1 .. m : \E i \in S : f[i] = k
    <3> SUFFICES ASSUME NEW k \in 1 .. m PROVE \E i \in S : s[i].rank - b = k
      OBVIOUS
    <3>1. b + k \in b + 1 .. b + c
      BY <1>1, <1>4
    <3>2. PICK i \in at : s[i].rank = b + k
      BY <1>3, <3>1
    <3>3. QED
      BY <1>1, <1>4, <3>2
  <2>4. IsFiniteSet(1 .. m) /\ Cardinality(1 .. m) = m
    <3>1. IsFiniteSet(1 .. m) /\ Cardinality(1 .. m) = IF 1 > m THEN 0 ELSE m - 1 + 1
      BY FS_Interval
    <3>2. QED
      BY <3>1
  <2>5. IsFiniteSet(S)
    <3>1. IsFiniteSet(at)
      BY <1>1, RankType
    <3> HIDE DEF at
    <3>2. QED
      BY <1>4, <3>1, FS_Subset
  <2> HIDE DEF f
  <2>6. f \in Bijection(S, 1 .. m)
    BY <2>1, <2>2, <2>3 DEF Bijection, Injection, Surjection, IsInjective
  <2>7. ExistsBijection(S, 1 .. m)
    BY <2>6 DEF ExistsBijection
  <2>8. QED
    BY <2>4, <2>5, <2>7, FS_Bijection
<1>5. Cardinality(at) = c
  <2>1. at = {i \in at : s[i].rank <= b + c}
    BY <1>1
  <2>2. QED
    BY <1>1, <1>4, <2>1
<1>6. ASSUME NEW i \in at PROVE Rank(at, i) = s[i].rank - b
  <2> DEFINE m == s[i].rank - b
  <2>1. m \in Nat /\ m <= c /\ s[i].rank = b + m
    BY <1>1, <1>6
  <2>2. \A j \in at : j <= i <=> s[j].rank <= s[i].rank
    <3> SUFFICES ASSUME NEW j \in at PROVE j <= i <=> s[j].rank <= s[i].rank
      OBVIOUS
    <3>1. i \in Int /\ j \in Int /\ s[i].rank \in Int /\ s[j].rank \in Int
      BY <1>1
    <3>2. (i < j => s[i].rank < s[j].rank) /\ (j < i => s[j].rank < s[i].rank)
      BY <1>2
    <3>3. QED
      BY <3>1, <3>2
  <2>3. {j \in at : j <= i} = {j \in at : s[j].rank <= b + m}
    BY <2>1, <2>2
  <2> HIDE DEF m
  <2>4. Cardinality({j \in at : j <= i}) = m
    BY <1>4, <2>1, <2>3
  <2>5. QED
    BY <2>4 DEF Rank, m
<1>7. QED
  BY <1>5, <1>6

\* Where there are no answers, so are the rows that are no ads.
LEMMA CountIsRank ==
  ASSUME NEW s, NEW u, NEW b, NEW c, NEW d, Lists(s, u, b, c, d), NoAnswers(s)
  PROVE  /\ CountOrganicResults(s) = c
         /\ \A i \in DOMAIN s : ~ s[i].ad => Organics(s, i) = s[i].rank - b
<1> DEFINE at == OrganicAt(s)
<1>1. Len(s) \in Nat /\ DOMAIN s = 1 .. Len(s)
  BY DEF Lists
<1>2. \A i \in DOMAIN s : i \in at <=> ~ s[i].ad
  BY DEF OrganicAt, IsOrganic, NoAnswers
<1>3. at = {j \in 1 .. Len(s) : ~ s[j].ad}
  BY <1>1, <1>2 DEF OrganicAt
<1>4. \A i \in at : {j \in at : j <= i} = {j \in 1 .. i : ~ s[j].ad}
  BY <1>1, <1>3
<1>5. Cardinality(at) = c /\ \A i \in at : Cardinality({j \in at : j <= i}) = s[i].rank - b
  BY RankIsCount DEF Rank
<1>6. CountOrganicResults(s) = c
  BY <1>3, <1>5 DEF CountOrganicResults, Organics
<1>7. \A i \in at : Organics(s, i) = s[i].rank - b
  BY <1>4, <1>5 DEF Organics
<1>8. QED
  BY <1>2, <1>6, <1>7

\* Every row of t is one of s.
From(s, t) == t \in Seq(Row) /\ \A k \in DOMAIN t : \E i \in DOMAIN s : t[k] = s[i]

\* What is true of every row stays true.
LEMMA FromKeeps ==
  ASSUME NEW s, NEW t, From(s, t), NEW g
  PROVE  /\ Apart(s, g) => Apart(t, g)
         /\ NoAnswers(s) => NoAnswers(t)
         /\ NoAds(s) => NoAds(t)
<1>1. ASSUME Apart(s, g) PROVE Apart(t, g)
  <2> SUFFICES ASSUME NEW k \in OrganicAt(t) PROVE t[k].abs > 0 /\ t[k].abs = t[k].rank + g
    BY DEF Apart
  <2>1. PICK i \in DOMAIN s : t[k] = s[i]
    BY DEF From, OrganicAt
  <2>2. i \in OrganicAt(s)
    BY <2>1 DEF OrganicAt
  <2>3. QED
    BY <1>1, <2>1, <2>2 DEF Apart
<1>2. NoAnswers(s) => NoAnswers(t)
  BY DEF From, NoAnswers
<1>3. NoAds(s) => NoAds(t)
  BY DEF From, NoAds
<1>4. QED
  BY <1>1, <1>2, <1>3

\* The rows at some positions list the ranks that are kept.
LEMMA KeptLists ==
  ASSUME NEW s, NEW u, NEW b, NEW c, NEW d, Lists(s, u, b, c, d),
         NEW at, at \subseteq DOMAIN s, NEW bb \in Nat, NEW cc \in Nat,
         bb + 1 .. bb + cc \subseteq b + 1 .. b + c,
         \A i \in OrganicAt(s) : i \in at <=> s[i].rank \in bb + 1 .. bb + cc
  PROVE  Lists(Kept(s, at), u, bb, cc, d) /\ From(s, Kept(s, at))
<1> DEFINE t == Kept(s, at)
<1>1. s \in Seq(Row) /\ Len(s) \in Nat /\ DOMAIN s = 1 .. Len(s) /\ at \subseteq 1 .. Len(s)
  BY DEF Lists
<1>2. Selects(s, at, t)
  BY <1>1, KeptFacts
<1>3. t \in Seq(Row)
  BY <1>1, KeptRows
<1>4. Cardinality(at) \in Nat /\ Len(t) = Cardinality(at) /\ DOMAIN t = 1 .. Cardinality(at)
  BY <1>1, <1>2, <1>3, RankType DEF Selects
<1> HIDE DEF t
<1>5. ASSUME NEW k \in DOMAIN t PROVE \E i \in at : Rank(at, i) = k /\ t[k] = s[i]
  BY <1>2, <1>4 DEF Selects
<1>6. From(s, t)
  BY <1>3, <1>5 DEF From
<1>7. ASSUME NEW k \in OrganicAt(t)
      PROVE  \E i \in OrganicAt(s) : i \in at /\ Rank(at, i) = k /\ t[k] = s[i]
  BY <1>5 DEF OrganicAt
<1>8. \A k \in OrganicAt(t) : t[k].rank \in bb + 1 .. bb + cc /\ t[k].url = u[t[k].rank + d]
  BY <1>7 DEF Lists
<1>9. ASSUME NEW k \in OrganicAt(t), NEW l \in OrganicAt(t), k < l PROVE t[k].rank < t[l].rank
  <2>1. PICK i \in OrganicAt(s) : i \in at /\ Rank(at, i) = k /\ t[k] = s[i]
    BY <1>7
  <2>2. PICK j \in OrganicAt(s) : j \in at /\ Rank(at, j) = l /\ t[l] = s[j]
    BY <1>7
  <2>3. j < i => Rank(at, j) < Rank(at, i)
    BY <1>2, <2>1, <2>2 DEF Selects
  <2>4. i \in Nat /\ j \in Nat /\ k \in Nat /\ l \in Nat
    BY <1>1, <1>4 DEF OrganicAt
  <2>5. i # j /\ ~ (j < i)
    BY <1>9, <2>1, <2>2, <2>3, <2>4
  <2>6. i < j
    BY <2>4, <2>5
  <2>7. QED
    BY <2>1, <2>2, <2>6 DEF Lists
<1>10. ASSUME NEW r \in bb + 1 .. bb + cc PROVE \E k \in OrganicAt(t) : t[k].rank = r
  <2>1. PICK i \in OrganicAt(s) : s[i].rank = r
    BY <1>10 DEF Lists
  <2>2. i \in at
    BY <1>10, <2>1
  <2>3. Rank(at, i) \in DOMAIN t /\ t[Rank(at, i)] = s[i]
    BY <1>2, <1>4, <2>2 DEF Selects
  <2>4. QED
    BY <2>1, <2>3 DEF OrganicAt
<1>11. Lists(t, u, bb, cc, d)
  BY <1>3, <1>8, <1>9, <1>10 DEF Lists
<1>12. QED
  BY <1>6, <1>11 DEF t

\* Sorted, organic rows stay in their order: it is that of their absolute ranks.
LEMMA SortLists ==
  ASSUME NEW s, NEW u, NEW b, NEW c, NEW d, Lists(s, u, b, c, d), NEW g \in Int, Apart(s, g)
  PROVE  Lists(SortResults(s), u, b, c, d) /\ From(s, SortResults(s))
<1> DEFINE t == SortResults(s)
<1>1. s \in Seq(Row) /\ Len(s) \in Nat /\ DOMAIN s = 1 .. Len(s)
  BY DEF Lists
<1>2. PICK q : Moves(q, s, t) /\ \A i, j \in DOMAIN s : resultLess(s[i], s[j]) => q[i] < q[j]
  BY <1>1, SortFacts
<1>3. t \in Seq(Row)
  BY <1>1, SortFacts
<1> HIDE DEF t
<1>4. DOMAIN t = DOMAIN s /\ q \in [DOMAIN s -> DOMAIN s]
  BY <1>1, <1>2, <1>3 DEF Moves
<1>5. ASSUME NEW k \in DOMAIN t PROVE \E i \in DOMAIN s : q[i] = k /\ t[k] = s[i]
  BY <1>2, <1>4 DEF Moves
<1>6. From(s, t)
  BY <1>3, <1>5 DEF From
<1>7. ASSUME NEW k \in OrganicAt(t) PROVE \E i \in OrganicAt(s) : q[i] = k /\ t[k] = s[i]
  BY <1>5 DEF OrganicAt
<1>8. \A k \in OrganicAt(t) : t[k].rank \in b + 1 .. b + c /\ t[k].url = u[t[k].rank + d]
  BY <1>7 DEF Lists
<1>9. \A i \in OrganicAt(s) : s[i].rank \in Int /\ s[i].abs \in Int
  <2>1. \A i \in OrganicAt(s) : s[i] \in Row
    BY <1>1 DEF OrganicAt
  <2>2. QED
    BY <2>1 DEF Row
<1>10. ASSUME NEW i \in OrganicAt(s), NEW j \in OrganicAt(s), s[i].rank < s[j].rank PROVE q[i] < q[j]
  <2>1. s[i].abs < s[j].abs /\ s[i].abs > 0 /\ s[j].abs > 0
    BY <1>9, <1>10 DEF Apart
  <2>2. resultLess(s[i], s[j])
    BY <2>1 DEF resultLess, resultSortPosition
  <2>3. QED
    BY <1>2, <2>2 DEF OrganicAt
<1>11. ASSUME NEW k \in OrganicAt(t), NEW l \in OrganicAt(t), k < l PROVE t[k].rank < t[l].rank
  <2>1. PICK i \in OrganicAt(s) : q[i] = k /\ t[k] = s[i]
    BY <1>7
  <2>2. PICK j \in OrganicAt(s) : q[j] = l /\ t[l] = s[j]
    BY <1>7
  <2>3. i \in Nat /\ j \in Nat /\ k \in Nat /\ l \in Nat
    BY <1>1, <1>4 DEF OrganicAt
  <2>4. i # j /\ ~ (s[j].rank < s[i].rank)
    BY <1>10, <1>11, <2>1, <2>2, <2>3
  <2>5. s[i].rank # s[j].rank
    BY <1>9, <2>3, <2>4 DEF Lists
  <2>6. QED
    BY <1>9, <2>1, <2>2, <2>4, <2>5
<1>12. ASSUME NEW r \in b + 1 .. b + c PROVE \E k \in OrganicAt(t) : t[k].rank = r
  <2>1. PICK i \in OrganicAt(s) : s[i].rank = r
    BY <1>12 DEF Lists
  <2>2. q[i] \in DOMAIN t /\ t[q[i]] = s[i]
    BY <1>2, <1>4, <2>1 DEF Moves, OrganicAt
  <2>3. QED
    BY <2>1, <2>2 DEF OrganicAt
<1>13. Lists(t, u, b, c, d)
  BY <1>3, <1>8, <1>11, <1>12 DEF Lists
<1>14. QED
  BY <1>6, <1>13 DEF t

\* No two rows are one result: they differ in the URL, or one of them is an ad.
Distinct(s) == \A i, j \in DOMAIN s : s[i].url = s[j].url /\ s[i].ad = s[j].ad => i = j

\* The first row of each result.
FirstsAt(s) == {i \in DOMAIN s : \A j \in 1 .. i - 1 : s[j].url # s[i].url \/ s[j].ad # s[i].ad}

\* Without duplicates, rows are distinct, and were there before.
LEMMA DedupDistinct ==
  ASSUME NEW s \in Seq(Row)
  PROVE  Distinct(DeduplicateResults(s)) /\ From(s, DeduplicateResults(s))
<1> DEFINE at == FirstsAt(s)
           k == Kept(s, at)
           t == SortResults(k)
<1>1. Len(s) \in Nat /\ DOMAIN s = 1 .. Len(s) /\ at \subseteq 1 .. Len(s)
  BY DEF FirstsAt
<1>2. DeduplicateResults(s) = t
  BY DEF DeduplicateResults, FirstsAt
<1>3. ASSUME NEW i \in at, NEW j \in at, s[i].url = s[j].url, s[i].ad = s[j].ad PROVE i = j
  <2>1. i \in Nat /\ j \in Nat /\ i >= 1 /\ j >= 1
    BY <1>1
  <2>2. ~ (j \in 1 .. i - 1) /\ ~ (i \in 1 .. j - 1)
    BY <1>3 DEF FirstsAt
  <2>3. QED
    BY <2>1, <2>2
<1>4. k \in Seq(Row) /\ Selects(s, at, k)
  BY <1>1, KeptFacts, KeptRows
<1> HIDE DEF at, k
<1>5. ASSUME NEW x \in DOMAIN k PROVE \E i \in at : Rank(at, i) = x /\ k[x] = s[i]
  BY <1>4, <1>5 DEF Selects
<1>6. PICK q : Moves(q, k, t)
  BY <1>4, SortFacts
<1>7. t \in Seq(Row) /\ DOMAIN t = DOMAIN k
  BY <1>4, <1>6, SortFacts DEF Moves
<1> HIDE DEF t
<1>8. ASSUME NEW x \in DOMAIN t PROVE \E i \in at : q[Rank(at, i)] = x /\ t[x] = s[i]
  <2>1. PICK y \in DOMAIN k : q[y] = x
    BY <1>6, <1>7 DEF Moves
  <2>2. t[x] = k[y]
    BY <1>6, <2>1 DEF Moves
  <2>3. QED
    BY <1>5, <2>1, <2>2
<1>9. Distinct(t)
  BY <1>3, <1>8 DEF Distinct
<1>10. From(s, t)
  BY <1>1, <1>7, <1>8 DEF From
<1>11. QED
  BY <1>2, <1>9, <1>10

\* No answer is in front of an organic row.
AnswersLast(s) == \A i \in OrganicAt(s) : \A j \in 1 .. i - 1 : ~ s[j].ad => s[j].rank > 0

\* When the organic rows have URLs of their own, none of them is a duplicate.
LEMMA DedupLists ==
  ASSUME NEW s, NEW u, NEW b, NEW c, NEW d, Lists(s, u, b, c, d), NEW g \in Int, Apart(s, g),
         AnswersLast(s),
         \A x, y \in b + 1 .. b + c : u[x + d] = u[y + d] => x = y
  PROVE  Lists(DeduplicateResults(s), u, b, c, d) /\ Apart(DeduplicateResults(s), g)
<1> DEFINE at == FirstsAt(s)
           k == Kept(s, at)
<1>1. /\ s \in Seq(Row) /\ Len(s) \in Nat /\ DOMAIN s = 1 .. Len(s) /\ at \subseteq DOMAIN s
      /\ b \in Nat /\ c \in Nat
  BY DEF FirstsAt, Lists
<1>2. ASSUME NEW i \in OrganicAt(s) PROVE i \in at
  <2>1. i \in DOMAIN s /\ i \in Nat
    BY <1>1 DEF OrganicAt
  <2>2. SUFFICES ASSUME NEW j \in 1 .. i - 1, s[j].url = s[i].url, s[j].ad = s[i].ad PROVE FALSE
    BY <2>1 DEF FirstsAt
  <2>3. j \in OrganicAt(s)
    <3>1. j \in DOMAIN s
      BY <1>1, <2>1
    <3>2. ~ s[j].ad /\ s[j].rank > 0
      BY <2>2 DEF AnswersLast, OrganicAt, IsOrganic
    <3>3. QED
      BY <3>1, <3>2 DEF OrganicAt, IsOrganic
  <2>4. s[i].rank = s[j].rank
    BY <2>2, <2>3 DEF Lists
  <2>5. s[j].rank < s[i].rank /\ s[i].rank \in Int
    BY <1>1, <2>1, <2>3 DEF Lists
  <2>6. QED
    BY <2>4, <2>5
<1>3. \A i \in OrganicAt(s) : i \in at <=> s[i].rank \in b + 1 .. b + c
  BY <1>2 DEF Lists
<1> HIDE DEF at
<1>4. Lists(k, u, b, c, d) /\ From(s, k)
  BY <1>1, <1>3, KeptLists
<1>5. Apart(k, g)
  BY <1>4, FromKeeps
<1> HIDE DEF k
<1>6. Lists(SortResults(k), u, b, c, d) /\ From(k, SortResults(k))
  BY <1>4, <1>5, SortLists
<1>7. Apart(SortResults(k), g)
  BY <1>5, <1>6, FromKeeps
<1>8. QED
  BY <1>6, <1>7 DEF DeduplicateResults, k, at, FirstsAt

\* Of organic rows, the first ones are within a limit.
LEMMA LimitLists ==
  ASSUME NEW s, NEW u, NEW b, NEW c, NEW d, Lists(s, u, b, c, d), NoAnswers(s),
         NEW max \in Nat \ {0}
  PROVE  /\ Lists(LimitOrganicResults(s, max), u, b, IF c <= max THEN c ELSE max, d)
         /\ From(s, LimitOrganicResults(s, max))
<1> DEFINE at == {i \in DOMAIN s : s[i].ad \/ Organics(s, i) <= max}
           cc == IF c <= max THEN c ELSE max
<1>1. LimitOrganicResults(s, max) = Kept(s, at)
  BY DEF LimitOrganicResults
<1>2. at \subseteq DOMAIN s /\ b \in Nat /\ c \in Nat /\ cc \in Nat /\ b + 1 .. b + cc \subseteq b + 1 .. b + c
  BY DEF Lists
<1>3. ASSUME NEW i \in OrganicAt(s) PROVE i \in at <=> s[i].rank \in b + 1 .. b + cc
  <2>1. i \in DOMAIN s /\ ~ s[i].ad
    BY DEF OrganicAt, IsOrganic
  <2>2. Organics(s, i) = s[i].rank - b /\ s[i].rank \in b + 1 .. b + c
    <3>1. Organics(s, i) = s[i].rank - b
      BY <2>1, CountIsRank
    <3>2. QED
      BY <3>1 DEF Lists
  <2>3. i \in at <=> s[i].rank - b <= max
    BY <2>1, <2>2
  <2>4. QED
    BY <1>2, <2>2, <2>3
<1> HIDE DEF at, cc
<1>4. Lists(Kept(s, at), u, b, cc, d) /\ From(s, Kept(s, at))
  BY <1>2, <1>3, KeptLists
<1>5. QED
  BY <1>1, <1>4 DEF cc

\* And the others are behind those that are skipped.
LEMMA SkipLists ==
  ASSUME NEW s, NEW u, NEW b, NEW c, NEW d, Lists(s, u, b, c, d), NoAnswers(s),
         NEW skip \in Nat
  PROVE  /\ Lists(skipOrganicResults(s, skip), u, b + skip, IF c <= skip THEN 0 ELSE c - skip, d)
         /\ From(s, skipOrganicResults(s, skip))
<1> DEFINE at == {i \in DOMAIN s : s[i].ad \/ Organics(s, i) > skip}
           cc == IF c <= skip THEN 0 ELSE c - skip
           bb == b + skip
<1>1. skipOrganicResults(s, skip) = Kept(s, at)
  BY DEF skipOrganicResults
<1>2. at \subseteq DOMAIN s /\ b \in Nat /\ c \in Nat /\ cc \in Nat /\ bb \in Nat
      /\ bb + 1 .. bb + cc \subseteq b + 1 .. b + c
  BY DEF Lists
<1>3. ASSUME NEW i \in OrganicAt(s) PROVE i \in at <=> s[i].rank \in bb + 1 .. bb + cc
  <2>1. i \in DOMAIN s /\ ~ s[i].ad
    BY DEF OrganicAt, IsOrganic
  <2>2. Organics(s, i) = s[i].rank - b /\ s[i].rank \in b + 1 .. b + c
    <3>1. Organics(s, i) = s[i].rank - b
      BY <2>1, CountIsRank
    <3>2. QED
      BY <3>1 DEF Lists
  <2>3. i \in at <=> s[i].rank - b > skip
    BY <2>1, <2>2
  <2>4. QED
    BY <1>2, <2>2, <2>3
<1> HIDE DEF at, cc, bb
<1>4. Lists(Kept(s, at), u, bb, cc, d) /\ From(s, Kept(s, at))
  BY <1>2, <1>3, KeptLists
<1>5. QED
  BY <1>1, <1>4 DEF cc, bb

\* Rows that are changed in place: t has the ads and the organic rows of s,
\* with the same URLs.
Alike(s, t) ==
  /\ s \in Seq(Row) /\ t \in Seq(Row) /\ Len(t) = Len(s)
  /\ \A i \in DOMAIN s : t[i].url = s[i].url /\ t[i].ad = s[i].ad

\* Numbered again behind bb, the rows list the ranks from bb + 1 on.
LEMMA RenumberedLists ==
  ASSUME NEW s, NEW u, NEW b, NEW c, NEW d \in Int, Lists(s, u, b, c, d), NoAnswers(s), NEW bb \in Nat,
         NEW t, Alike(s, t), \A i \in OrganicAt(s) : t[i].rank = bb + s[i].rank - b
  PROVE  Lists(t, u, bb, c, d + b - bb) /\ NoAnswers(t) /\ OrganicAt(t) = OrganicAt(s)
<1>1. /\ s \in Seq(Row) /\ Len(s) \in Nat /\ DOMAIN s = 1 .. Len(s) /\ DOMAIN t = DOMAIN s /\ t \in Seq(Row)
      /\ b \in Nat /\ c \in Nat
  BY DEF Lists, Alike
<1>2. \A i \in DOMAIN s : i \in OrganicAt(s) <=> ~ s[i].ad
  BY DEF NoAnswers, OrganicAt, IsOrganic
<1>3. \A i \in OrganicAt(s) : s[i].rank \in b + 1 .. b + c /\ s[i].url = u[s[i].rank + d]
  BY DEF Lists
<1>4. OrganicAt(t) = OrganicAt(s)
  <2>1. \A i \in DOMAIN s : i \in OrganicAt(s) => t[i].rank > 0
    BY <1>1, <1>3
  <2>2. \A i \in DOMAIN s : i \in OrganicAt(t) <=> i \in OrganicAt(s)
    BY <1>1, <1>2, <2>1 DEF OrganicAt, IsOrganic, Alike
  <2>3. OrganicAt(s) \subseteq DOMAIN s /\ OrganicAt(t) \subseteq DOMAIN s
    BY <1>1 DEF OrganicAt
  <2>4. QED
    BY <2>2, <2>3
<1>5. NoAnswers(t)
  <2>1. \A i \in DOMAIN t : ~ t[i].ad => i \in OrganicAt(t)
    BY <1>1, <1>2, <1>4 DEF Alike
  <2>2. QED
    BY <2>1 DEF NoAnswers, OrganicAt, IsOrganic
<1>6. \A i \in OrganicAt(t) : t[i].rank \in bb + 1 .. bb + c /\ t[i].url = u[t[i].rank + (d + b - bb)]
  <2> SUFFICES ASSUME NEW i \in OrganicAt(t)
               PROVE  t[i].rank \in bb + 1 .. bb + c /\ t[i].url = u[t[i].rank + (d + b - bb)]
    OBVIOUS
  <2>1. i \in OrganicAt(s) /\ i \in DOMAIN s /\ t[i].rank = bb + s[i].rank - b /\ t[i].url = s[i].url
    BY <1>4 DEF OrganicAt, Alike
  <2>2. s[i].rank \in b + 1 .. b + c /\ s[i].url = u[s[i].rank + d]
    BY <1>3, <2>1
  <2>3. t[i].rank + (d + b - bb) = s[i].rank + d
    BY <1>1, <2>1, <2>2
  <2>4. QED
    BY <1>1, <2>1, <2>2, <2>3
<1>7. \A i, j \in OrganicAt(t) : i < j => t[i].rank < t[j].rank
  <2>1. \A i, j \in OrganicAt(s) : i < j => s[i].rank < s[j].rank
    BY DEF Lists
  <2>2. ASSUME NEW i \in OrganicAt(s), NEW j \in OrganicAt(s), s[i].rank < s[j].rank
        PROVE  t[i].rank < t[j].rank
    <3>1. s[i].rank \in Int /\ s[j].rank \in Int
      BY <1>1, <1>3
    <3>2. t[i].rank = bb + s[i].rank - b /\ t[j].rank = bb + s[j].rank - b
      OBVIOUS
    <3>3. QED
      BY <1>1, <2>2, <3>1, <3>2
  <2>3. QED
    BY <1>4, <2>1, <2>2
<1>8. \A k \in bb + 1 .. bb + c : \E i \in OrganicAt(t) : t[i].rank = k
  <2> SUFFICES ASSUME NEW k \in bb + 1 .. bb + c PROVE \E i \in OrganicAt(s) : bb + s[i].rank - b = k
    BY <1>4
  <2>1. k - bb + b \in b + 1 .. b + c
    BY <1>1
  <2>2. PICK i \in OrganicAt(s) : s[i].rank = k - bb + b
    BY <2>1 DEF Lists
  <2>3. k \in Int /\ bb + (k - bb + b) - b = k
    BY <1>1
  <2>4. bb + s[i].rank - b = k
    BY <2>2, <2>3
  <2>5. QED
    BY <2>4
<1>9. Lists(t, u, bb, c, d + b - bb)
  BY <1>1, <1>6, <1>7, <1>8 DEF Lists
<1>10. QED
  BY <1>4, <1>5, <1>9

\* Rows that are alike are distinct if one of them are.
LEMMA AlikeKeeps ==
  ASSUME NEW s, NEW t, Alike(s, t)
  PROVE  (Distinct(s) => Distinct(t)) /\ (NoAds(s) => NoAds(t))
<1>1. DOMAIN s = DOMAIN t
  BY DEF Alike
<1>2. QED
  BY <1>1 DEF Alike, Distinct, NoAds

\* Rows behind the start of a query.
LEMMA RebasedLists ==
  ASSUME NEW s, NEW u, NEW b, NEW c, NEW d \in Int, Lists(s, u, b, c, d), NoAnswers(s), NEW bb \in Nat
  PROVE  /\ Lists(Rebased(s, bb), u, bb, c, d + b - bb) /\ NoAnswers(Rebased(s, bb)) /\ Alike(s, Rebased(s, bb))
         /\ \A g \in Int : Apart(s, g) => Apart(Rebased(s, bb), g + b - bb)
<1> DEFINE t == Rebased(s, bb)
<1>1. s \in Seq(Row) /\ b \in Nat
  BY DEF Lists
<1>2. t \in Seq(Row) /\ Len(t) = Len(s)
  BY <1>1, RebasedRows
<1>3. \A i \in DOMAIN s : s[i] \in Row
  BY <1>1
<1>4. \A i \in DOMAIN s : /\ t[i].url = s[i].url /\ t[i].ad = s[i].ad /\ t[i].abs = s[i].abs
                          /\ ~ s[i].ad => t[i].rank = bb + Organics(s, i)
  BY <1>3 DEF Rebased, Row
<1>5. \A i \in OrganicAt(s) : t[i].rank = bb + s[i].rank - b
  <2>1. \A i \in OrganicAt(s) : i \in DOMAIN s /\ ~ s[i].ad
    BY DEF OrganicAt, IsOrganic
  <2>2. \A i \in OrganicAt(s) : Organics(s, i) = s[i].rank - b
    BY <2>1, CountIsRank
  <2>3. \A i \in OrganicAt(s) : s[i].rank \in Int
    BY <1>3, <2>1 DEF Row
  <2>4. QED
    BY <1>1, <1>4, <2>1, <2>2, <2>3
<1>6. Alike(s, t)
  BY <1>1, <1>2, <1>4 DEF Alike
<1> HIDE DEF t
<1>7. Lists(t, u, bb, c, d + b - bb) /\ NoAnswers(t) /\ OrganicAt(t) = OrganicAt(s)
  BY <1>5, <1>6, RenumberedLists
<1>8. ASSUME NEW g \in Int, Apart(s, g) PROVE Apart(t, g + b - bb)
  <2> SUFFICES ASSUME NEW i \in OrganicAt(s) PROVE t[i].abs > 0 /\ t[i].abs = t[i].rank + (g + b - bb)
    BY <1>7 DEF Apart
  <2>1. t[i].abs = s[i].abs /\ t[i].rank = bb + s[i].rank - b /\ s[i].rank \in Int
    BY <1>3, <1>4, <1>5 DEF OrganicAt, Row
  <2>2. s[i].abs > 0 /\ s[i].abs = s[i].rank + g
    BY <1>8 DEF Apart
  <2>3. QED
    BY <1>1, <2>1, <2>2
<1>9. QED
  BY <1>6, <1>7, <1>8 DEF t

\* Absolute ranks behind an offset.
LEMMA OffsetLists ==
  ASSUME NEW s, NEW u, NEW b, NEW c, NEW d \in Int, Lists(s, u, b, c, d), NoAnswers(s), NEW o \in Nat,
         NEW g \in Int, Apart(s, g)
  PROVE  /\ Lists(Offset(s, o), u, b, c, d) /\ NoAnswers(Offset(s, o)) /\ Alike(s, Offset(s, o))
         /\ Apart(Offset(s, o), g + o)
<1> DEFINE t == Offset(s, o)
<1>1. s \in Seq(Row) /\ b \in Nat
  BY DEF Lists
<1>2. t \in Seq(Row) /\ Len(t) = Len(s)
  BY <1>1, RebasedRows
<1>3. \A i \in DOMAIN s : s[i] \in Row
  BY <1>1
<1>4. \A i \in DOMAIN s : /\ t[i].url = s[i].url /\ t[i].ad = s[i].ad /\ t[i].rank = s[i].rank
                          /\ s[i].abs > 0 => t[i].abs = s[i].abs + o
  BY <1>3 DEF Offset, Row
<1>5. \A i \in OrganicAt(s) : s[i].rank \in Int /\ s[i].abs \in Int
  BY <1>3 DEF OrganicAt, Row
<1>6. \A i \in OrganicAt(s) : t[i].rank = b + s[i].rank - b
  BY <1>1, <1>4, <1>5 DEF OrganicAt
<1>7. Alike(s, t)
  BY <1>1, <1>2, <1>4 DEF Alike
<1> HIDE DEF t
<1>8. Lists(t, u, b, c, d + b - b) /\ NoAnswers(t) /\ OrganicAt(t) = OrganicAt(s)
  BY <1>1, <1>6, <1>7, RenumberedLists
<1>9. Apart(t, g + o)
  <2> SUFFICES ASSUME NEW i \in OrganicAt(s) PROVE t[i].abs > 0 /\ t[i].abs = t[i].rank + (g + o)
    BY <1>8 DEF Apart
  <2>1. s[i].abs > 0 /\ s[i].abs = s[i].rank + g /\ i \in DOMAIN s
    BY DEF Apart, OrganicAt
  <2>2. t[i].abs = s[i].abs + o /\ t[i].rank = s[i].rank
    BY <1>4, <2>1
  <2>3. QED
    BY <1>5, <2>1, <2>2
<1>10. d + b - b = d
  BY <1>1
<1>11. QED
  BY <1>7, <1>8, <1>9, <1>10 DEF t

\* Absolute ranks of organic rows behind those of all the ads.
LEMMA SeparatedLists ==
  ASSUME NEW s, NEW u, NEW b, NEW c, NEW d \in Int, Lists(s, u, b, c, d), NoAnswers(s), NEW o \in Nat
  PROVE  /\ Lists(SetSeparatedAdAbsoluteRanks(s, o), u, b, c, d) /\ NoAnswers(SetSeparatedAdAbsoluteRanks(s, o))
         /\ Alike(s, SetSeparatedAdAbsoluteRanks(s, o)) /\ Ads(s, Len(s)) \in Nat
         /\ Apart(SetSeparatedAdAbsoluteRanks(s, o), o + Ads(s, Len(s)) - b)
<1> DEFINE t == SetSeparatedAdAbsoluteRanks(s, o)
           m == Ads(s, Len(s))
<1>1. s \in Seq(Row) /\ b \in Nat
  BY DEF Lists
<1>2. t \in Seq(Row) /\ Len(t) = Len(s)
  BY <1>1, SeparatedRows
<1>3. \A i \in DOMAIN s : s[i] \in Row
  BY <1>1
<1>4. m \in Nat
  <2>1. Len(s) \in Nat
    BY <1>1
  <2>2. QED
    BY <1>1, <2>1, CountTypes
<1>5. \A i \in DOMAIN s : /\ t[i].url = s[i].url /\ t[i].ad = s[i].ad /\ t[i].rank = s[i].rank
                          /\ ~ s[i].ad => t[i].abs = o + m + Organics(s, i)
  BY <1>3 DEF SetSeparatedAdAbsoluteRanks, Row
<1>6. \A i \in OrganicAt(s) : i \in DOMAIN s /\ ~ s[i].ad /\ s[i].rank \in Int /\ s[i].rank > b
  <2>1. \A i \in OrganicAt(s) : i \in DOMAIN s /\ ~ s[i].ad
    BY DEF OrganicAt, IsOrganic
  <2>2. \A i \in OrganicAt(s) : s[i].rank \in b + 1 .. b + c
    BY DEF Lists
  <2>3. QED
    BY <1>1, <2>1, <2>2
<1>7. \A i \in OrganicAt(s) : t[i].rank = b + s[i].rank - b
  BY <1>1, <1>5, <1>6
<1>8. Alike(s, t)
  BY <1>1, <1>2, <1>5 DEF Alike
<1> HIDE DEF t, m
<1>9. Lists(t, u, b, c, d + b - b) /\ NoAnswers(t) /\ OrganicAt(t) = OrganicAt(s)
  BY <1>1, <1>7, <1>8, RenumberedLists
<1>10. Apart(t, o + m - b)
  <2> SUFFICES ASSUME NEW i \in OrganicAt(s) PROVE t[i].abs > 0 /\ t[i].abs = t[i].rank + (o + m - b)
    BY <1>9 DEF Apart
  <2>1. Organics(s, i) = s[i].rank - b
    BY <1>6, CountIsRank
  <2>2. t[i].abs = o + m + Organics(s, i) /\ t[i].rank = s[i].rank
    BY <1>5, <1>6
  <2>3. QED
    BY <1>1, <1>4, <1>6, <2>1, <2>2
<1>11. d + b - b = d
  BY <1>1
<1>12. QED
  BY <1>4, <1>8, <1>9, <1>10, <1>11 DEF t, m

\* What an engine serves: m ads, then n organic rows, with the URLs that v has.
Top(s, m, n, v) ==
  /\ s \in Seq(Row) /\ m \in Nat /\ n \in Nat /\ Len(s) = m + n
  /\ \A i \in 1 .. m : s[i].ad
  /\ \A i \in m + 1 .. m + n : ~ s[i].ad /\ s[i].url = v[i - m]

\* Organic rows are counted behind the ads.
LEMMA TopCounts ==
  ASSUME NEW s, NEW m, NEW n, NEW v, Top(s, m, n, v)
  PROVE  \A i \in m + 1 .. m + n : Organics(s, i) = i - m
<1>1. m \in Nat /\ n \in Nat /\ Len(s) = m + n
  BY DEF Top
<1>2. SUFFICES ASSUME NEW i \in m + 1 .. m + n PROVE Organics(s, i) = i - m
  OBVIOUS
<1>3. {j \in 1 .. i : ~ s[j].ad} = m + 1 .. i
  <2>1. \A j \in 1 .. i : j \in 1 .. m \/ j \in m + 1 .. m + n
    BY <1>1
  <2>2. \A j \in 1 .. i : ~ s[j].ad <=> j \in m + 1 .. i
    BY <1>1, <2>1 DEF Top
  <2>3. QED
    BY <1>1, <2>2
<1>4. Cardinality(m + 1 .. i) = IF m + 1 > i THEN 0 ELSE i - (m + 1) + 1
  BY <1>1, FS_Interval
<1>5. Cardinality(m + 1 .. i) = i - m
  BY <1>1, <1>4
<1>6. QED
  BY <1>3, <1>5 DEF Organics

\* Ranked in their order, they list the ranks behind b.
LEMMA RankedLists ==
  ASSUME NEW s, NEW m, NEW n, NEW v, Top(s, m, n, v),
         NEW b \in Nat, NEW a \in Nat \ {0}, NEW u, NEW d, \A k \in 1 .. n : v[k] = u[b + k + d]
  PROVE  /\ Lists(Ranked(s, b, a), u, b, n, d) /\ Apart(Ranked(s, b, a), a - 1 + m - b)
         /\ NoAnswers(Ranked(s, b, a)) /\ (m = 0 => NoAds(Ranked(s, b, a)))
<1> DEFINE t == Ranked(s, b, a)
<1>1. s \in Seq(Row) /\ m \in Nat /\ n \in Nat /\ Len(s) = m + n /\ DOMAIN s = 1 .. m + n
  BY DEF Top
<1>2. t \in Seq(Row) /\ Len(t) = Len(s) /\ DOMAIN t = 1 .. m + n
  <2>1. t \in Seq(Row) /\ Len(t) = Len(s)
    BY <1>1, RankedRows
  <2> HIDE DEF t
  <2>2. QED
    BY <1>1, <2>1
<1>3. \A i \in DOMAIN s : s[i] \in Row
  BY <1>1
<1>4. \A i \in DOMAIN s : /\ t[i].url = s[i].url /\ t[i].ad = s[i].ad /\ t[i].abs = a + i - 1
                          /\ ~ s[i].ad => t[i].rank = b + Organics(s, i)
  BY <1>3 DEF Ranked, Row
<1>5. \A i \in m + 1 .. m + n : ~ t[i].ad /\ t[i].url = v[i - m] /\ t[i].rank = b + i - m /\ t[i].abs = a + i - 1
  <2>1. \A i \in m + 1 .. m + n : i \in DOMAIN s /\ i \in Int
    BY <1>1
  <2>2. \A i \in m + 1 .. m + n : ~ s[i].ad /\ s[i].url = v[i - m] /\ Organics(s, i) = i - m
    <3>1. \A i \in m + 1 .. m + n : Organics(s, i) = i - m
      BY TopCounts
    <3>2. QED
      BY <3>1 DEF Top
  <2>3. \A i \in m + 1 .. m + n : b + (i - m) = b + i - m
    BY <1>1
  <2>4. QED
    BY <1>4, <2>1, <2>2, <2>3
<1>6. \A i \in 1 .. m : t[i].ad
  BY <1>1, <1>4 DEF Top
<1> HIDE DEF t
<1>7. OrganicAt(t) = m + 1 .. m + n
  <2>1. \A i \in 1 .. m + n : i \in 1 .. m \/ i \in m + 1 .. m + n
    BY <1>1
  <2>2. \A i \in m + 1 .. m + n : b + i - m > 0 /\ i \in 1 .. m + n
    BY <1>1
  <2>3. \A i \in 1 .. m : i \notin OrganicAt(t)
    BY <1>6 DEF OrganicAt, IsOrganic
  <2>4. \A i \in m + 1 .. m + n : i \in OrganicAt(t)
    BY <1>2, <1>5, <2>2 DEF OrganicAt, IsOrganic
  <2>5. OrganicAt(t) \subseteq 1 .. m + n
    BY <1>2 DEF OrganicAt
  <2>6. QED
    BY <2>1, <2>3, <2>4, <2>5
<1>8. \A i \in OrganicAt(t) : t[i].rank \in b + 1 .. b + n /\ t[i].url = u[t[i].rank + d]
  <2> SUFFICES ASSUME NEW i \in m + 1 .. m + n
               PROVE  t[i].rank \in b + 1 .. b + n /\ t[i].url = u[t[i].rank + d]
    BY <1>7
  <2>1. t[i].rank = b + (i - m) /\ t[i].url = v[i - m] /\ i - m \in 1 .. n
    BY <1>1, <1>5
  <2>2. v[i - m] = u[b + (i - m) + d]
    BY <2>1
  <2>3. QED
    BY <1>1, <2>1, <2>2
<1>9. \A i, j \in OrganicAt(t) : i < j => t[i].rank < t[j].rank
  BY <1>1, <1>5, <1>7
<1>10. \A k \in b + 1 .. b + n : \E i \in OrganicAt(t) : t[i].rank = k
  <2> SUFFICES ASSUME NEW k \in b + 1 .. b + n PROVE \E i \in m + 1 .. m + n : t[i].rank = k
    BY <1>7
  <2>1. k - b + m \in m + 1 .. m + n /\ b + (k - b + m) - m = k
    BY <1>1
  <2>2. t[k - b + m].rank = k
    BY <1>5, <2>1
  <2>3. QED
    BY <2>1, <2>2
<1>11. Lists(t, u, b, n, d)
  BY <1>1, <1>2, <1>8, <1>9, <1>10 DEF Lists
<1>12. Apart(t, a - 1 + m - b)
  <2> SUFFICES ASSUME NEW i \in m + 1 .. m + n PROVE t[i].abs > 0 /\ t[i].abs = t[i].rank + (a - 1 + m - b)
    BY <1>7 DEF Apart
  <2>1. t[i].abs = a + i - 1 /\ t[i].rank = b + i - m
    BY <1>5
  <2>2. QED
    BY <1>1, <2>1
<1>13. NoAnswers(t)
  <2>1. \A i \in DOMAIN t : ~ t[i].ad => i \in OrganicAt(t)
    <3>1. \A i \in 1 .. m + n : i \in 1 .. m \/ i \in m + 1 .. m + n
      BY <1>1
    <3>2. QED
      BY <1>2, <1>6, <1>7, <3>1
  <2>2. QED
    BY <2>1 DEF NoAnswers, OrganicAt, IsOrganic
<1>14. m = 0 => NoAds(t)
  BY <1>1, <1>2, <1>5 DEF NoAds
<1>15. QED
  BY <1>11, <1>12, <1>13, <1>14 DEF t

\* Rows behind those of ranks b + 1 to b + c.
LEMMA ConcatLists ==
  ASSUME NEW s, NEW t, NEW u, NEW b, NEW c, NEW d, Lists(s, u, b, c, d),
         NEW cc, Lists(t, u, b + c, cc, d)
  PROVE  /\ Lists(s \o t, u, b, c + cc, d)
         /\ \A g : Apart(s, g) /\ Apart(t, g) => Apart(s \o t, g)
         /\ NoAnswers(s) /\ NoAnswers(t) => NoAnswers(s \o t)
         /\ NoAds(s) /\ NoAds(t) => NoAds(s \o t)
<1> DEFINE w == s \o t
           n == Len(s)
           m == Len(t)
<1>1. /\ s \in Seq(Row) /\ t \in Seq(Row) /\ n \in Nat /\ m \in Nat /\ DOMAIN s = 1 .. n /\ DOMAIN t = 1 .. m
      /\ b \in Nat /\ c \in Nat /\ cc \in Nat
  BY DEF Lists
<1>2. /\ w \in Seq(Row) /\ DOMAIN w = 1 .. n + m
      /\ \A i \in 1 .. n : w[i] = s[i]
      /\ \A i \in 1 .. m : w[n + i] = t[i]
  BY <1>1
<1> HIDE DEF w, n, m
<1>3. /\ \A i \in OrganicAt(s) : i \in Int /\ i <= n /\ i \in OrganicAt(w) /\ w[i] = s[i]
      /\ \A i \in OrganicAt(t) : n + i \in OrganicAt(w) /\ w[n + i] = t[i]
  BY <1>1, <1>2 DEF OrganicAt
<1>4. ASSUME NEW i \in OrganicAt(w)
      PROVE  \/ i \in OrganicAt(s) /\ w[i] = s[i]
             \/ i - n \in OrganicAt(t) /\ w[i] = t[i - n] /\ i > n
  <2>1. i \in 1 .. n + m
    BY <1>2 DEF OrganicAt
  <2>2. CASE i \in 1 .. n
    BY <1>1, <1>2, <2>2 DEF OrganicAt
  <2>3. CASE i > n
    <3>1. i - n \in 1 .. m /\ n + (i - n) = i
      BY <1>1, <2>1, <2>3
    <3>2. w[i] = t[i - n]
      BY <1>2, <3>1
    <3>3. QED
      BY <1>1, <2>3, <3>1, <3>2 DEF OrganicAt
  <2>4. QED
    BY <1>1, <2>1, <2>2, <2>3
<1>5. /\ \A i \in OrganicAt(s) : s[i].rank \in b + 1 .. b + c /\ s[i].url = u[s[i].rank + d]
      /\ \A i \in OrganicAt(t) : t[i].rank \in b + c + 1 .. b + c + cc /\ t[i].url = u[t[i].rank + d]
  BY DEF Lists
<1>6. \A i \in OrganicAt(w) : w[i].rank \in b + 1 .. b + (c + cc) /\ w[i].url = u[w[i].rank + d]
  <2> SUFFICES ASSUME NEW i \in OrganicAt(w)
               PROVE  w[i].rank \in b + 1 .. b + (c + cc) /\ w[i].url = u[w[i].rank + d]
    OBVIOUS
  <2>1. b + 1 .. b + c \subseteq b + 1 .. b + (c + cc) /\ b + c + 1 .. b + c + cc \subseteq b + 1 .. b + (c + cc)
    BY <1>1
  <2>2. QED
    BY <1>4, <1>5, <2>1
<1>7. ASSUME NEW i \in OrganicAt(w), NEW j \in OrganicAt(w), i < j PROVE w[i].rank < w[j].rank
  <2>1. CASE i \in OrganicAt(s) /\ w[i] = s[i] /\ j \in OrganicAt(s) /\ w[j] = s[j]
    BY <1>7, <2>1 DEF Lists
  <2>2. CASE i \in OrganicAt(s) /\ w[i] = s[i] /\ j - n \in OrganicAt(t) /\ w[j] = t[j - n]
    <3>1. w[i].rank \in b + 1 .. b + c /\ w[j].rank \in b + c + 1 .. b + c + cc
      BY <1>5, <2>2
    <3>2. QED
      BY <1>1, <3>1
  <2>3. CASE i - n \in OrganicAt(t) /\ w[i] = t[i - n] /\ j - n \in OrganicAt(t) /\ w[j] = t[j - n]
    <3>1. i \in Int /\ j \in Int /\ n \in Int
      BY <1>1, <1>2 DEF OrganicAt
    <3>2. i - n < j - n
      BY <1>7, <3>1
    <3>3. QED
      BY <2>3, <3>2 DEF Lists
  <2>4. ~ (j \in OrganicAt(s) /\ i > n)
    <3>1. i \in Int /\ j \in Int /\ n \in Int
      BY <1>1, <1>2 DEF OrganicAt
    <3>2. QED
      BY <1>3, <1>7, <3>1
  <2>5. QED
    BY <1>4, <2>1, <2>2, <2>3, <2>4
<1>8. ASSUME NEW k \in b + 1 .. b + (c + cc) PROVE \E i \in OrganicAt(w) : w[i].rank = k
  <2>1. CASE k \in b + 1 .. b + c
    <3>1. PICK i \in OrganicAt(s) : s[i].rank = k
      BY <2>1 DEF Lists
    <3>2. QED
      BY <1>3, <3>1
  <2>2. CASE k \in b + c + 1 .. b + c + cc
    <3>1. PICK i \in OrganicAt(t) : t[i].rank = k
      BY <2>2 DEF Lists
    <3>2. QED
      BY <1>3, <3>1
  <2>3. QED
    BY <1>1, <2>1, <2>2
<1>9. Lists(w, u, b, c + cc, d)
  BY <1>1, <1>2, <1>6, <1>7, <1>8 DEF Lists
<1>10. ASSUME NEW g, Apart(s, g), Apart(t, g) PROVE Apart(w, g)
  BY <1>4, <1>10 DEF Apart
<1>11. ASSUME NEW i \in DOMAIN w
       PROVE  (\E j \in DOMAIN s : w[i] = s[j]) \/ (\E j \in DOMAIN t : w[i] = t[j])
  <2>1. i \in 1 .. n \/ (i - n \in 1 .. m /\ n + (i - n) = i)
    BY <1>1, <1>2
  <2>2. QED
    BY <1>1, <1>2, <2>1
<1>12. NoAnswers(s) /\ NoAnswers(t) => NoAnswers(w)
  BY <1>11 DEF NoAnswers
<1>13. NoAds(s) /\ NoAds(t) => NoAds(w)
  BY <1>11 DEF NoAds
<1>14. QED
  BY <1>9, <1>10, <1>12, <1>13 DEF w

\* v is the n members of u behind the first b + d.
Copies(v, n, u, b, d) == \A k \in 1 .. n : v[k] = u[b + k + d]

\* Ecosia's rows list the ranks behind those of the rows before, ads last.
LEMMA EcosiaLists ==
  ASSUME NEW s, NEW m, NEW n, NEW v, Top(s, m, n, v),
         NEW before \in Seq(Row), NEW r \in Int, NEW b \in Nat, b = r + CountOrganicResults(before) - 1,
         NEW u, NEW d, Copies(v, n, u, b, d)
  PROVE  /\ Lists(ParseEcosia(s, before, r), u, b, n, d)
         /\ NoAnswers(ParseEcosia(s, before, r)) /\ (m = 0 => NoAds(ParseEcosia(s, before, r)))
<1> USE DEF Copies
<1> DEFINE organicsAt == {i \in DOMAIN s : ~ s[i].ad}
           adsAt == {i \in DOMAIN s : s[i].ad}
           o == Kept(s, organicsAt)
           x == Kept(s, adsAt)
           f == [i \in DOMAIN o |-> [o[i] EXCEPT !.rank = r + CountOrganicResults(before) + i - 1]]
           g == [i \in DOMAIN x |-> [x[i] EXCEPT !.rank = Ads(before, Len(before)) + i]]
           t == f \o g
<1>1. s \in Seq(Row) /\ m \in Nat /\ n \in Nat /\ Len(s) = m + n /\ DOMAIN s = 1 .. m + n
  BY DEF Top
<1>2. ParseEcosia(s, before, r) = t
  BY DEF ParseEcosia
<1>3. organicsAt = m + 1 .. m + n /\ adsAt = 1 .. m
  <2>1. \A i \in 1 .. m + n : i \in 1 .. m \/ i \in m + 1 .. m + n
    BY <1>1
  <2>2. \A i \in m + 1 .. m + n : i \in 1 .. m + n /\ i \notin 1 .. m
    BY <1>1
  <2>3. \A i \in 1 .. m : i \in 1 .. m + n
    BY <1>1
  <2>4. QED
    BY <1>1, <2>1, <2>2, <2>3 DEF Top
<1>4. Cardinality(organicsAt) = n /\ Cardinality(adsAt) = m
  <2>1. Cardinality(m + 1 .. m + n) = IF m + 1 > m + n THEN 0 ELSE m + n - (m + 1) + 1
    BY <1>1, FS_Interval
  <2>2. Cardinality(1 .. m) = IF 1 > m THEN 0 ELSE m - 1 + 1
    BY <1>1, FS_Interval
  <2>3. Cardinality(m + 1 .. m + n) = n /\ Cardinality(1 .. m) = m
    BY <1>1, <2>1, <2>2
  <2>4. QED
    BY <1>3, <2>3
<1>5. \A i \in organicsAt : Rank(organicsAt, i) = i - m
  <2> SUFFICES ASSUME NEW i \in m + 1 .. m + n
               PROVE  Cardinality({j \in m + 1 .. m + n : j <= i}) = i - m
    BY <1>3 DEF Rank
  <2>1. {j \in m + 1 .. m + n : j <= i} = m + 1 .. i
    BY <1>1
  <2>2. m + 1 \in Int /\ i \in Int
    BY <1>1
  <2>3. Cardinality(m + 1 .. i) = IF m + 1 > i THEN 0 ELSE i - (m + 1) + 1
    BY <2>2, FS_Interval
  <2>4. Cardinality(m + 1 .. i) = i - m
    BY <1>1, <2>3
  <2>5. QED
    BY <2>1, <2>4
<1>6. /\ o \in Seq(Row) /\ Len(o) = n /\ Selects(s, organicsAt, o)
      /\ x \in Seq(Row) /\ Len(x) = m /\ Selects(s, adsAt, x)
  <2>1. organicsAt \subseteq 1 .. Len(s) /\ adsAt \subseteq 1 .. Len(s) /\ Len(s) \in Nat /\ DOMAIN s = 1 .. Len(s)
    BY <1>1
  <2> HIDE DEF organicsAt, adsAt
  <2>2. Selects(s, organicsAt, o) /\ Selects(s, adsAt, x)
    BY <2>1, KeptFacts
  <2>3. QED
    BY <1>1, <1>4, <2>1, <2>2, KeptRows
<1>7. \A i \in 1 .. n : o[i] \in Row /\ ~ o[i].ad /\ o[i].url = v[i]
  <2> SUFFICES ASSUME NEW i \in 1 .. n PROVE ~ o[i].ad /\ o[i].url = v[i]
    BY <1>6
  <2>1. m + i \in organicsAt /\ (m + i) - m = i
    BY <1>1, <1>3
  <2>2. o[i] = s[m + i]
    <3>1. Rank(organicsAt, m + i) = i
      BY <1>5, <2>1
    <3> HIDE DEF organicsAt, o
    <3>2. o[Rank(organicsAt, m + i)] = s[m + i]
      BY <1>6, <2>1 DEF Selects
    <3>3. QED
      BY <3>1, <3>2
  <2>3. ~ s[m + i].ad /\ s[m + i].url = v[i]
    BY <1>3, <2>1 DEF Top
  <2>4. QED
    BY <2>2, <2>3
<1>8. \A i \in 1 .. m : x[i] \in Row /\ x[i].ad
  <2> SUFFICES ASSUME NEW i \in 1 .. m PROVE x[i].ad
    BY <1>6
  <2>1. PICK j \in adsAt : Rank(adsAt, j) = i
    BY <1>4, <1>6 DEF Selects
  <2>2. x[i] = s[j]
    BY <1>6, <2>1 DEF Selects
  <2>3. QED
    BY <2>2
<1>9. DOMAIN o = 1 .. n /\ DOMAIN x = 1 .. m
  BY <1>6
<1>10. Ads(before, Len(before)) \in Nat /\ CountOrganicResults(before) \in Nat
  <2>1. Len(before) \in Nat
    OBVIOUS
  <2>2. QED
    BY <2>1, CountTypes
<1> HIDE DEF o, x
<1>11. /\ f \in [1 .. n -> Row]
       /\ \A i \in 1 .. n : ~ f[i].ad /\ f[i].url = v[i] /\ f[i].rank = b + i
  <2>1. \A y \in Row, p \in Int : /\ [y EXCEPT !.rank = p] \in Row /\ [y EXCEPT !.rank = p].ad = y.ad
                                  /\ [y EXCEPT !.rank = p].url = y.url /\ [y EXCEPT !.rank = p].rank = p
    BY DEF Row
  <2>2. \A i \in 1 .. n : r + CountOrganicResults(before) + i - 1 = b + i /\ b + i \in Int
    BY <1>1, <1>10
  <2>3. \A i \in 1 .. n : f[i] = [o[i] EXCEPT !.rank = b + i]
    BY <1>9, <2>2
  <2>4. f = [i \in 1 .. n |-> f[i]]
    BY <1>9
  <2> HIDE DEF f
  <2>5. \A i \in 1 .. n : f[i] \in Row /\ ~ f[i].ad /\ f[i].url = v[i] /\ f[i].rank = b + i
    <3> SUFFICES ASSUME NEW i \in 1 .. n
                 PROVE  f[i] \in Row /\ ~ f[i].ad /\ f[i].url = v[i] /\ f[i].rank = b + i
      OBVIOUS
    <3>1. o[i] \in Row /\ b + i \in Int
      BY <1>7, <2>2
    <3>2. f[i] \in Row /\ f[i].ad = o[i].ad /\ f[i].url = o[i].url /\ f[i].rank = b + i
      <4>1. f[i] = [o[i] EXCEPT !.rank = b + i]
        BY <2>3
      <4>2. QED
        BY <2>1, <3>1, <4>1
    <3>3. QED
      BY <1>7, <3>2
  <2>6. QED
    BY <2>4, <2>5, Zenon
<1>12. g \in [1 .. m -> Row] /\ \A i \in 1 .. m : g[i].ad
  <2>1. \A y \in Row, p \in Int : [y EXCEPT !.rank = p] \in Row /\ [y EXCEPT !.rank = p].ad = y.ad
    BY DEF Row
  <2>2. \A i \in 1 .. m : Ads(before, Len(before)) + i \in Int
    BY <1>1, <1>10
  <2>3. \A i \in 1 .. m : g[i] \in Row /\ g[i].ad
    BY <1>8, <1>9, <2>1, <2>2
  <2>4. g = [i \in 1 .. m |-> g[i]]
    BY <1>9
  <2> HIDE DEF g
  <2>5. QED
    BY <2>3, <2>4
<1> HIDE DEF f, g
<1>13. /\ t \in Seq(Row) /\ DOMAIN t = 1 .. n + m
       /\ \A i \in 1 .. n : t[i] = f[i]
       /\ \A i \in n + 1 .. n + m : t[i].ad
  <2>1. f \in Seq(Row) /\ Len(f) = n /\ g \in Seq(Row) /\ Len(g) = m
    BY <1>1, <1>11, <1>12, RowSequence
  <2>2. /\ t \in Seq(Row) /\ Len(t) = n + m
        /\ \A i \in 1 .. n + m : t[i] = IF i <= n THEN f[i] ELSE g[i - n]
    <3>1. f \o g \in Seq(Row) /\ Len(f \o g) = Len(f) + Len(g)
      BY <2>1, ConcatProperties
    <3>2. \A i \in 1 .. Len(f) + Len(g) : (f \o g)[i] = IF i <= Len(f) THEN f[i] ELSE g[i - Len(f)]
      BY <2>1, ConcatProperties
    <3>3. QED
      BY <2>1, <3>1, <3>2
  <2> HIDE DEF t
  <2>3. DOMAIN t = 1 .. n + m /\ \A i \in 1 .. n : t[i] = f[i]
    BY <1>1, <2>2
  <2>4. \A i \in n + 1 .. n + m : i - n \in 1 .. m /\ t[i] = g[i - n]
    BY <1>1, <2>2
  <2>5. QED
    BY <1>12, <2>2, <2>3, <2>4
<1> HIDE DEF t
<1>14. OrganicAt(t) = 1 .. n
  <2>1. \A i \in 1 .. n + m : i \in 1 .. n \/ i \in n + 1 .. n + m
    BY <1>1
  <2>2. \A i \in 1 .. n : i \in 1 .. n + m /\ b + i > 0
    BY <1>1
  <2>3. \A i \in n + 1 .. n + m : i \notin OrganicAt(t)
    BY <1>13 DEF OrganicAt, IsOrganic
  <2>4. \A i \in 1 .. n : i \in OrganicAt(t)
    BY <1>11, <1>13, <2>2 DEF OrganicAt, IsOrganic
  <2>5. OrganicAt(t) \subseteq 1 .. n + m
    BY <1>13 DEF OrganicAt
  <2>6. QED
    BY <2>1, <2>3, <2>4, <2>5
<1>15. \A i \in 1 .. n : t[i].rank = b + i /\ t[i].url = v[i]
  BY <1>11, <1>13
<1>16. \A i \in OrganicAt(t) : t[i].rank \in b + 1 .. b + n /\ t[i].url = u[t[i].rank + d]
  BY <1>1, <1>14, <1>15
<1>17. \A i, j \in OrganicAt(t) : i < j => t[i].rank < t[j].rank
  BY <1>1, <1>14, <1>15
<1>18. \A k \in b + 1 .. b + n : \E i \in OrganicAt(t) : t[i].rank = k
  <2> SUFFICES ASSUME NEW k \in b + 1 .. b + n PROVE \E i \in 1 .. n : t[i].rank = k
    BY <1>14
  <2>1. k - b \in 1 .. n /\ b + (k - b) = k
    BY <1>1
  <2>2. t[k - b].rank = k
    BY <1>15, <2>1
  <2>3. QED
    BY <2>1, <2>2
<1>19. Lists(t, u, b, n, d)
  BY <1>1, <1>13, <1>16, <1>17, <1>18 DEF Lists
<1>20. NoAnswers(t)
  <2>1. \A i \in 1 .. n + m : i \in 1 .. n \/ i \in n + 1 .. n + m
    BY <1>1
  <2>2. \A i \in DOMAIN t : ~ t[i].ad => i \in OrganicAt(t)
    BY <1>13, <1>14, <2>1
  <2>3. QED
    BY <2>2 DEF NoAnswers, OrganicAt, IsOrganic
<1>21. m = 0 => NoAds(t)
  BY <1>1, <1>11, <1>13 DEF NoAds
<1>22. QED
  BY <1>2, <1>19, <1>20, <1>21

-----------------------------------------------------------------------------
(* What an engine serves of its ranking. *)

\* The least and the greatest of two numbers.
LEMMA OfTwo ==
  ASSUME NEW a \in Int, NEW b \in Int
  PROVE  Min({a, b}) = (IF a <= b THEN a ELSE b) /\ Max({a, b}) = (IF a <= b THEN b ELSE a)
<1>1. \A x \in {a, b} : (\A y \in {a, b} : x <= y) <=> x = IF a <= b THEN a ELSE b
  OBVIOUS
<1>2. \A x \in {a, b} : (\A y \in {a, b} : x >= y) <=> x = IF a <= b THEN b ELSE a
  OBVIOUS
<1>3. (IF a <= b THEN a ELSE b) \in {a, b} /\ (IF a <= b THEN b ELSE a) \in {a, b}
  OBVIOUS
<1>4. QED
  BY <1>1, <1>2, <1>3 DEF Min, Max

\* A set of natural numbers that is not empty has its least one.
LEMMA LeastOfSome ==
  ASSUME NEW S, S \subseteq Nat, S # {}
  PROVE  Min(S) \in S /\ \A m \in S : Min(S) <= m
<1>1. \E n \in S : \A m \in S : n <= m
  BY LeastNatural
<1>2. QED
  BY <1>1 DEF Min

\* What the engines rank.
LEMMA Rankings ==
  ASSUME NEW e \in Engines
  PROVE  /\ Ranking[e] \in Seq(Int \X Int) /\ Len(Ranking[e]) \in Nat /\ DOMAIN Ranking[e] = 1 .. Len(Ranking[e])
         /\ \A i, j \in 1 .. Len(Ranking[e]) : Ranking[e][i] = Ranking[e][j] => i = j
<1>1. Ranking[e] \in Seq(Int \X Int)
  BY PagedAssumption
<1>2. Len(Ranking[e]) \in Nat /\ DOMAIN Ranking[e] = 1 .. Len(Ranking[e])
  BY <1>1
<1>3. QED
  BY <1>1, <1>2, PagedAssumption

\* How many of the n results behind the first o ones there are.
Available(e, o, n) ==
  IF Len(Ranking[e]) <= o THEN 0 ELSE IF Len(Ranking[e]) - o <= n THEN Len(Ranking[e]) - o ELSE n

\* The state in which the rows of a page are made.
Asked ==
  /\ start \in Nat /\ client.limit \in Nat \ {0} /\ ads \in BOOLEAN /\ obeys \in BOOLEAN
Tops == IF ads THEN 1 ELSE 0

\* The row of a URL, and an ad for it.
LEMMA OrganicRow ==
  ASSUME NEW x \in Int \X Int
  PROVE  /\ Organic(x) \in Row /\ ~ Organic(x).ad /\ Organic(x).url = x
         /\ [Organic(x) EXCEPT !.ad = TRUE] \in Row /\ [Organic(x) EXCEPT !.ad = TRUE].ad
<1>1. Organic(x) \in Row /\ ~ Organic(x).ad /\ Organic(x).url = x
  BY DEF Organic, Row
<1>2. \A z \in Row : [z EXCEPT !.ad = TRUE] \in Row /\ [z EXCEPT !.ad = TRUE].ad
  BY DEF Row
<1>3. QED
  BY <1>1, <1>2

\* The part of a ranking that is available.
LEMMA AvailablePart ==
  ASSUME NEW e \in Engines, NEW o \in Nat, NEW n \in Nat
  PROVE  LET c == Available(e, o, n)
             organic == SubSeq(Ranking[e], o + 1, Min({o + n, Len(Ranking[e])}))
         IN  /\ c \in Nat /\ organic \in Seq(Int \X Int) /\ Len(organic) = c /\ DOMAIN organic = 1 .. c
             /\ \A k \in 1 .. c : o + k \in 1 .. Len(Ranking[e]) /\ organic[k] = Ranking[e][o + k]
<1> DEFINE R == Ranking[e]
           L == Len(R)
           c == Available(e, o, n)
           last == Min({o + n, L})
           organic == SubSeq(R, o + 1, last)
<1>1. R \in Seq(Int \X Int) /\ L \in Nat /\ DOMAIN R = 1 .. L /\ \A i \in 1 .. L : R[i] \in Int \X Int
  BY Rankings
<1>2. c = IF L <= o THEN 0 ELSE IF L - o <= n THEN L - o ELSE n
  BY DEF Available
<1>3. last = IF o + n <= L THEN o + n ELSE L
  <2> HIDE DEF R, L
  <2>1. o + n \in Int /\ L \in Int
    BY <1>1
  <2>2. QED
    BY <2>1, OfTwo
<1> HIDE DEF R, L, c, last
<1>4. c \in Nat /\ last \in Int /\ \A k \in 1 .. c : o + k \in 1 .. L
  BY <1>1, <1>2, <1>3
<1>5. CASE c = 0
  <2>1. last < o + 1
    BY <1>1, <1>2, <1>3, <1>5
  <2>2. organic = << >>
    BY <1>1, <1>4, <2>1
  <2>3. << >> \in Seq(Int \X Int) /\ Len(<< >>) = 0 /\ DOMAIN << >> = 1 .. 0
    OBVIOUS
  <2> HIDE DEF organic
  <2>4. organic \in Seq(Int \X Int) /\ Len(organic) = c /\ DOMAIN organic = 1 .. c /\ \A k \in 1 .. c : FALSE
    BY <1>5, <2>2, <2>3
  <2>5. \A k \in 1 .. c : o + k \in 1 .. L /\ organic[k] = R[o + k]
    BY <2>4
  <2>6. QED
    BY <1>4, <2>4, <2>5 DEF R, L, c, last, organic
<1>6. CASE c # 0
  <2>1. o + 1 \in Int /\ last - (o + 1) + 1 = c /\ o + 1 <= last /\ last <= L
    BY <1>1, <1>2, <1>3, <1>6
  <2>2. \A i \in o + 1 .. last : R[i] \in Int \X Int
    BY <1>1, <1>4, <2>1
  <2>3. /\ organic \in Seq(Int \X Int)
        /\ Len(organic) = IF o + 1 <= last THEN last - (o + 1) + 1 ELSE 0
        /\ \A k \in 1 .. last - (o + 1) + 1 : organic[k] = R[o + 1 + k - 1]
    BY <1>4, <2>1, <2>2, SubSeqProperties
  <2>4. \A k \in 1 .. c : o + 1 + k - 1 = o + k
    BY <1>4
  <2> HIDE DEF organic
  <2>5. Len(organic) = c /\ DOMAIN organic = 1 .. c
    BY <2>1, <2>3
  <2>6. \A k \in 1 .. c : organic[k] = R[o + k]
    BY <2>1, <2>3, <2>4
  <2>7. QED
    BY <1>4, <2>3, <2>5, <2>6 DEF R, L, c, last, organic
<1>7. QED
  BY <1>5, <1>6

\* The organic rows of a page are the available ones, under an ad if there are any.
LEMMA ServedTop ==
  ASSUME Asked, NEW e \in Engines, NEW o \in Nat, NEW n \in Nat
  PROVE  LET c == Available(e, o, n)
         IN  /\ c \in Nat /\ Served(e, o, n) \in Seq(Row)
             /\ Top(Served(e, o, n), IF c = 0 THEN 0 ELSE Tops, c, [k \in 1 .. c |-> Ranking[e][o + k]])
             /\ Served(e, o, n) = << >> <=> c = 0
<1> DEFINE R == Ranking[e]
           L == Len(R)
           c == Available(e, o, n)
           organic == SubSeq(R, o + 1, Min({o + n, L}))
           f == [i \in DOMAIN organic |-> Organic(organic[i])]
           v == [k \in 1 .. c |-> R[o + k]]
           top == IF ads THEN <<[Organic(R[1]) EXCEPT !.ad = TRUE]>> ELSE << >>
           s == Served(e, o, n)
<1>1. R \in Seq(Int \X Int) /\ L \in Nat /\ DOMAIN R = 1 .. L
  BY Rankings
<1>2. /\ c \in Nat /\ organic \in Seq(Int \X Int) /\ Len(organic) = c /\ DOMAIN organic = 1 .. c
      /\ \A k \in 1 .. c : o + k \in 1 .. L /\ organic[k] = R[o + k]
  BY AvailablePart
<1>3. s = IF organic = << >> THEN << >> ELSE top \o f
  BY DEF Served
<1> HIDE DEF organic, c, L, s
<1>4. \A k \in 1 .. c : organic[k] \in Int \X Int
  BY <1>2
<1>5. \A i \in 1 .. c : f[i] = Organic(organic[i])
  BY <1>2
<1>6. f \in Seq(Row) /\ Len(f) = c /\ \A i \in 1 .. c : ~ f[i].ad /\ f[i].url = R[o + i]
  <2>1. f \in [1 .. c -> Row]
    BY <1>2, <1>4, OrganicRow
  <2> HIDE DEF f, R
  <2>2. f \in Seq(Row) /\ Len(f) = c
    BY <1>2, <2>1, RowSequence
  <2>3. QED
    BY <1>2, <1>4, <1>5, <2>2, OrganicRow
<1>7. organic = << >> <=> c = 0
  BY <1>2
<1> HIDE DEF f
<1>8. CASE c = 0
  <2>1. s = << >>
    BY <1>3, <1>7, <1>8
  <2>2. s \in Seq(Row) /\ Len(s) = 0
    BY <2>1
  <2>3. Top(s, 0, 0, v)
    BY <2>2 DEF Top
  <2>4. QED
    BY <1>8, <2>1, <2>2, <2>3 DEF c, s
<1>9. CASE c # 0
  <2>1. s = top \o f /\ Tops \in Nat
    BY <1>3, <1>7, <1>9 DEF Tops
  <2>2. top \in Seq(Row) /\ Len(top) = Tops /\ \A i \in 1 .. Tops : top[i].ad
    <3>1. CASE ~ ads
      BY <3>1 DEF Tops
    <3>2. CASE ads
      <4> DEFINE a == [Organic(R[1]) EXCEPT !.ad = TRUE]
      <4>1. R[1] \in Int \X Int
        BY <1>1, <1>2, <1>9
      <4>2. a \in Row /\ a.ad
        BY <4>1, OrganicRow
      <4>3. top = <<a>> /\ Tops = 1
        BY <3>2 DEF Tops
      <4> HIDE DEF a
      <4>4. <<a>> \in Seq(Row) /\ Len(<<a>>) = 1 /\ <<a>>[1] = a
        BY <4>2
      <4>5. \A i \in 1 .. 1 : i = 1
        OBVIOUS
      <4> HIDE DEF top
      <4>6. QED
        BY <4>2, <4>3, <4>4, <4>5
    <3>3. QED
      BY <3>1, <3>2
  <2> HIDE DEF top
  <2>3. /\ top \o f \in Seq(Row) /\ Len(top \o f) = Len(top) + Len(f)
        /\ \A i \in 1 .. Len(top) + Len(f) : (top \o f)[i] = IF i <= Len(top) THEN top[i] ELSE f[i - Len(top)]
    BY <1>6, <2>2, ConcatProperties
  <2>4. s \in Seq(Row) /\ Len(s) = Tops + c
    BY <1>6, <2>1, <2>2, <2>3
  <2>5. \A i \in 1 .. Tops : s[i].ad
    <3>1. \A i \in 1 .. Tops : i \in 1 .. Tops + c /\ i <= Tops
      BY <1>2, <2>1
    <3>2. QED
      BY <1>6, <2>1, <2>2, <2>3, <3>1
  <2>6. \A i \in Tops + 1 .. Tops + c : ~ s[i].ad /\ s[i].url = v[i - Tops]
    <3>1. \A i \in Tops + 1 .. Tops + c : i \in 1 .. Tops + c /\ ~ (i <= Tops) /\ i - Tops \in 1 .. c
      BY <1>2, <2>1
    <3>2. \A i \in Tops + 1 .. Tops + c : s[i] = f[i - Tops]
      BY <1>6, <2>1, <2>2, <2>3, <3>1
    <3>3. QED
      BY <1>6, <3>1, <3>2
  <2>7. Top(s, Tops, c, v)
    BY <1>2, <2>1, <2>4, <2>5, <2>6 DEF Top
  <2>8. s # << >>
    BY <1>2, <1>9, <2>1, <2>4
  <2>9. QED
    BY <1>2, <1>9, <2>4, <2>7, <2>8 DEF c, s
<1>10. QED
  BY <1>8, <1>9

-----------------------------------------------------------------------------
(* Pages cut, numbered and joined. *)

\* Rows of e: those of the ranks b + 1 to b + c of its ranking, in their order,
\* d places further in it, with absolute ranks g further; and ads, if there are ads.
Slice(e, s, b, c, d, g) ==
  /\ Lists(s, Ranking[e], b, c, d) /\ Apart(s, g) /\ NoAnswers(s) /\ (~ ads => NoAds(s))
  /\ d \in Int /\ g \in Int

\* Its ranks are places of the ranking.
Inside(e, b, c, d) == c = 0 \/ (b + d >= 0 /\ b + c + d <= Len(Ranking[e]))

\* Where there are no organic rows, no ranks are wrong.
LEMMA EmptySlice ==
  ASSUME NEW e, NEW s, NEW b, NEW d, NEW g, Slice(e, s, b, 0, d, g),
         NEW bb \in Nat, NEW dd \in Int, NEW gg \in Int
  PROVE  Slice(e, s, bb, 0, dd, gg)
<1>1. OrganicAt(s) = {}
  <2>1. \A i \in OrganicAt(s) : s[i].rank \in b + 1 .. b + 0
    BY DEF Slice, Lists
  <2>2. b \in Nat
    BY DEF Slice, Lists
  <2>3. b + 1 .. b + 0 = {}
    BY <2>2
  <2>4. QED
    BY <2>1, <2>3
<1>2. bb + 1 .. bb + 0 = {}
  OBVIOUS
<1>3. Lists(s, Ranking[e], bb, 0, dd)
  BY <1>1, <1>2 DEF Slice, Lists
<1>4. Apart(s, gg)
  BY <1>1 DEF Apart
<1>5. QED
  BY <1>3, <1>4 DEF Slice

\* A page of an engine, ranked from b and a on.
LEMMA RankedPage ==
  ASSUME Asked, NEW e \in Engines, NEW o \in Nat, NEW n \in Nat, NEW b \in Nat, NEW a \in Nat \ {0}
  PROVE  /\ Slice(e, Ranked(Served(e, o, n), b, a), b, Available(e, o, n), o - b, a - 1 + Tops - b)
         /\ Available(e, o, n) \in Nat
<1> DEFINE c == Available(e, o, n)
           s == Served(e, o, n)
           t == Ranked(s, b, a)
           m == IF c = 0 THEN 0 ELSE Tops
           v == [k \in 1 .. c |-> Ranking[e][o + k]]
<1>1. c \in Nat /\ Top(s, m, c, v)
  BY ServedTop
<1>2. \A k \in 1 .. c : v[k] = Ranking[e][b + k + (o - b)]
  <2>1. \A k \in Int : b + k + (o - b) = o + k
    OBVIOUS
  <2>2. QED
    BY <2>1
<1>3. Tops \in Nat /\ (~ ads => Tops = 0) /\ m \in Nat
  BY DEF Tops
<1> HIDE DEF c, s, v, m
<1>4. /\ Lists(t, Ranking[e], b, c, o - b) /\ Apart(t, a - 1 + m - b) /\ NoAnswers(t)
      /\ m = 0 => NoAds(t)
  <2> HIDE DEF t
  <2>1. /\ Lists(Ranked(s, b, a), Ranking[e], b, c, o - b) /\ Apart(Ranked(s, b, a), a - 1 + m - b)
        /\ NoAnswers(Ranked(s, b, a)) /\ (m = 0 => NoAds(Ranked(s, b, a)))
    BY <1>1, <1>2, RankedLists
  <2>2. QED
    BY <2>1 DEF t
<1>5. Slice(e, t, b, c, o - b, a - 1 + m - b)
  <2>1. o - b \in Int /\ a - 1 + m - b \in Int
    BY <1>3
  <2>2. ~ ads => m = 0
    BY <1>3 DEF m
  <2> HIDE DEF t
  <2>3. QED
    BY <1>4, <2>1, <2>2 DEF Slice
<1> USE DEF m
<1>6. Slice(e, t, b, c, o - b, a - 1 + Tops - b)
  <2>1. CASE c = 0
    <3>1. Slice(e, t, b, 0, o - b, a - 1 + m - b)
      BY <1>5, <2>1
    <3>2. o - b \in Int /\ a - 1 + Tops - b \in Int
      BY <1>3
    <3> HIDE DEF m, t
    <3>3. Slice(e, t, b, 0, o - b, a - 1 + Tops - b)
      BY <3>1, <3>2, EmptySlice
    <3>4. QED
      BY <2>1, <3>3
  <2>2. CASE c # 0
    BY <1>5, <2>2
  <2>3. QED
    BY <2>1, <2>2
<1>7. QED
  BY <1>1, <1>6 DEF c, s

\* A page that is served is a slice, as long as there are rows for it.
LEMMA PageSlice ==
  ASSUME Asked, NEW e \in Engines, NEW o \in Nat, NEW n \in Nat, NEW b \in Nat, NEW a \in Nat \ {0},
         NEW d, d = o - b, NEW g, g = a - 1 + Tops - b
  PROVE  /\ Slice(e, Ranked(Served(e, o, n), b, a), b, Available(e, o, n), d, g)
         /\ Available(e, o, n) \in Nat
BY RankedPage

\* Duplicates are none of the organic rows: a ranking has each URL once.
LEMMA DedupSlice ==
  ASSUME NEW e \in Engines, NEW s, NEW b, NEW c, NEW d, NEW g, Slice(e, s, b, c, d, g), Inside(e, b, c, d)
  PROVE  Slice(e, DeduplicateResults(s), b, c, d, g) /\ Distinct(DeduplicateResults(s))
<1> DEFINE t == DeduplicateResults(s)
           u == Ranking[e]
<1>1. /\ Lists(s, u, b, c, d) /\ Apart(s, g) /\ NoAnswers(s) /\ (~ ads => NoAds(s)) /\ d \in Int /\ g \in Int
      /\ s \in Seq(Row) /\ b \in Nat /\ c \in Nat
  BY DEF Slice, Lists
<1>2. AnswersLast(s)
  <2>1. \A i \in OrganicAt(s) : \A j \in 1 .. i - 1 : j \in DOMAIN s
    BY <1>1 DEF OrganicAt
  <2>2. QED
    BY <1>1, <2>1 DEF AnswersLast, NoAnswers
<1>3. \A x, y \in b + 1 .. b + c : u[x + d] = u[y + d] => x = y
  <2> SUFFICES ASSUME NEW x \in b + 1 .. b + c, NEW y \in b + 1 .. b + c, u[x + d] = u[y + d] PROVE x = y
    OBVIOUS
  <2>1. b + d >= 0 /\ b + c + d <= Len(u)
    BY <1>1 DEF Inside
  <2>2. Len(u) \in Nat
    BY Rankings
  <2>3. x + d \in 1 .. Len(u) /\ y + d \in 1 .. Len(u)
    <3> HIDE DEF u
    <3> QED
      BY <1>1, <2>1, <2>2
  <2>4. x + d = y + d
    BY <2>3, Rankings
  <2>5. QED
    BY <1>1, <2>4
<1>4. Distinct(t) /\ From(s, t)
  BY <1>1, DedupDistinct
<1> HIDE DEF u
<1>5. Lists(t, u, b, c, d) /\ Apart(t, g)
  BY <1>1, <1>2, <1>3, DedupLists
<1> HIDE DEF t
<1>6. NoAnswers(t) /\ (~ ads => NoAds(t))
  BY <1>1, <1>4, FromKeeps
<1>7. QED
  BY <1>1, <1>4, <1>5, <1>6 DEF Slice, t, u

\* Members that are kept are as distinct as they were.
LEMMA KeptDistinct ==
  ASSUME NEW s \in Seq(Row), NEW at, at \subseteq DOMAIN s, Distinct(s)
  PROVE  Distinct(Kept(s, at))
<1> DEFINE t == Kept(s, at)
<1>1. Len(s) \in Nat /\ DOMAIN s = 1 .. Len(s) /\ at \subseteq 1 .. Len(s)
  OBVIOUS
<1>2. Selects(s, at, t) /\ t \in Seq(Row)
  BY <1>1, KeptFacts, KeptRows
<1> HIDE DEF t
<1>3. ASSUME NEW k \in DOMAIN t PROVE \E i \in at : Rank(at, i) = k /\ t[k] = s[i]
  BY <1>2, <1>3 DEF Selects
<1>4. QED
  BY <1>3 DEF Distinct, t

\* A limit, and what is skipped.
LEMMA LimitSlice ==
  ASSUME NEW e, NEW s, NEW b, NEW c, NEW d, NEW g, Slice(e, s, b, c, d, g), NEW max \in Nat \ {0}
  PROVE  /\ Slice(e, LimitOrganicResults(s, max), b, IF c <= max THEN c ELSE max, d, g)
         /\ Distinct(s) => Distinct(LimitOrganicResults(s, max))
<1> DEFINE t == LimitOrganicResults(s, max)
           cc == IF c <= max THEN c ELSE max
<1>1. Lists(s, Ranking[e], b, c, d) /\ NoAnswers(s) /\ d \in Int /\ g \in Int
  BY DEF Slice
<1>2. Lists(t, Ranking[e], b, cc, d) /\ From(s, t)
  BY <1>1, LimitLists
<1>3. Distinct(s) => Distinct(t)
  <2> DEFINE at == {i \in DOMAIN s : s[i].ad \/ Organics(s, i) <= max}
  <2>1. t = Kept(s, at)
    BY DEF LimitOrganicResults
  <2>2. s \in Seq(Row) /\ at \subseteq DOMAIN s
    BY <1>1 DEF Lists
  <2> HIDE DEF at, t
  <2>3. QED
    BY <2>1, <2>2, KeptDistinct
<1> HIDE DEF t, cc
<1>4. (Apart(s, g) => Apart(t, g)) /\ NoAnswers(t) /\ (NoAds(s) => NoAds(t))
  BY <1>1, <1>2, FromKeeps
<1>5. Slice(e, t, b, cc, d, g)
  BY <1>1, <1>2, <1>4 DEF Slice
<1>6. QED
  BY <1>3, <1>5 DEF t, cc

\* Skipping organic rows leaves the slice behind them, empty if there are no more.
LEMMA SkipSlice ==
  ASSUME NEW e, NEW s, NEW b, NEW c, NEW d, NEW g, Slice(e, s, b, c, d, g), NEW skip \in Nat
  PROVE  /\ Slice(e, skipOrganicResults(s, skip), b + skip, IF c <= skip THEN 0 ELSE c - skip, d, g)
         /\ Distinct(s) => Distinct(skipOrganicResults(s, skip))
<1> DEFINE t == skipOrganicResults(s, skip)
           cc == IF c <= skip THEN 0 ELSE c - skip
<1>1. Lists(s, Ranking[e], b, c, d) /\ NoAnswers(s) /\ d \in Int /\ g \in Int
  BY DEF Slice
<1>2. Lists(t, Ranking[e], b + skip, cc, d) /\ From(s, t)
  BY <1>1, SkipLists
<1>3. Distinct(s) => Distinct(t)
  <2> DEFINE at == {i \in DOMAIN s : s[i].ad \/ Organics(s, i) > skip}
  <2>1. t = Kept(s, at)
    BY DEF skipOrganicResults
  <2>2. s \in Seq(Row) /\ at \subseteq DOMAIN s
    BY <1>1 DEF Lists
  <2> HIDE DEF at, t
  <2>3. QED
    BY <2>1, <2>2, KeptDistinct
<1> HIDE DEF t, cc
<1>4. (Apart(s, g) => Apart(t, g)) /\ NoAnswers(t) /\ (NoAds(s) => NoAds(t))
  BY <1>1, <1>2, FromKeeps
<1>5. Slice(e, t, b + skip, cc, d, g)
  BY <1>1, <1>2, <1>4 DEF Slice
<1>6. QED
  BY <1>3, <1>5 DEF t, cc

\* Ranks behind another start, absolute ranks behind an offset or behind the ads.
LEMMA RebasedSlice ==
  ASSUME NEW e, NEW s, NEW b, NEW c, NEW d, NEW g, Slice(e, s, b, c, d, g), NEW bb \in Nat
  PROVE  /\ Slice(e, Rebased(s, bb), bb, c, d + b - bb, g + b - bb)
         /\ Distinct(s) => Distinct(Rebased(s, bb))
<1> DEFINE t == Rebased(s, bb)
<1>1. /\ Lists(s, Ranking[e], b, c, d) /\ NoAnswers(s) /\ d \in Int /\ g \in Int /\ b \in Nat /\ Apart(s, g)
      /\ (~ ads => NoAds(s))
  BY DEF Slice, Lists
<1>2. /\ Lists(t, Ranking[e], bb, c, d + b - bb) /\ NoAnswers(t) /\ Alike(s, t)
      /\ Apart(t, g + b - bb)
  BY <1>1, RebasedLists
<1> HIDE DEF t
<1>3. (Distinct(s) => Distinct(t)) /\ (NoAds(s) => NoAds(t))
  BY <1>2, AlikeKeeps
<1>4. d + b - bb \in Int /\ g + b - bb \in Int
  BY <1>1
<1>5. QED
  BY <1>1, <1>2, <1>3, <1>4 DEF Slice, t

\* An offset moves the absolute ranks, and nothing else.
LEMMA OffsetSlice ==
  ASSUME NEW e, NEW s, NEW b, NEW c, NEW d, NEW g, Slice(e, s, b, c, d, g), NEW o \in Nat
  PROVE  /\ Slice(e, Offset(s, o), b, c, d, g + o)
         /\ Distinct(s) => Distinct(Offset(s, o))
<1> DEFINE t == Offset(s, o)
<1>1. /\ Lists(s, Ranking[e], b, c, d) /\ NoAnswers(s) /\ d \in Int /\ g \in Int /\ b \in Nat /\ Apart(s, g)
      /\ (~ ads => NoAds(s))
  BY DEF Slice, Lists
<1>2. Lists(t, Ranking[e], b, c, d) /\ NoAnswers(t) /\ Alike(s, t) /\ Apart(t, g + o)
  BY <1>1, OffsetLists
<1> HIDE DEF t
<1>3. (Distinct(s) => Distinct(t)) /\ (NoAds(s) => NoAds(t))
  BY <1>2, AlikeKeeps
<1>4. g + o \in Int
  BY <1>1
<1>5. QED
  BY <1>1, <1>2, <1>3, <1>4 DEF Slice, t

\* Numbered with the ads in front, all absolute ranks of a slice are moved by
\* the number of ads.
LEMMA SeparatedSlice ==
  ASSUME NEW e, NEW s, NEW b, NEW c, NEW d \in Int, Lists(s, Ranking[e], b, c, d), NoAnswers(s),
         ~ ads => NoAds(s), NEW o \in Nat
  PROVE  /\ Slice(e, SetSeparatedAdAbsoluteRanks(s, o), b, c, d, o + Ads(s, Len(s)) - b)
         /\ Ads(s, Len(s)) \in Nat /\ (~ ads => Ads(s, Len(s)) = 0)
         /\ Distinct(s) => Distinct(SetSeparatedAdAbsoluteRanks(s, o))
<1> DEFINE t == SetSeparatedAdAbsoluteRanks(s, o)
           m == Ads(s, Len(s))
<1>1. b \in Nat /\ s \in Seq(Row)
  BY DEF Lists
<1>2. /\ Lists(t, Ranking[e], b, c, d) /\ NoAnswers(t) /\ Alike(s, t) /\ m \in Nat
      /\ Apart(t, o + m - b)
  BY SeparatedLists
<1>3. ~ ads => m = 0
  <2> SUFFICES ASSUME ~ ads PROVE m = 0
    OBVIOUS
  <2>1. {j \in 1 .. Len(s) : s[j].ad} = {}
    BY <1>1 DEF NoAds
  <2>2. QED
    BY <2>1, FS_EmptySet DEF Ads
<1> HIDE DEF t, m
<1>4. (Distinct(s) => Distinct(t)) /\ (NoAds(s) => NoAds(t))
  BY <1>2, AlikeKeeps
<1>5. o + m - b \in Int
  BY <1>1, <1>2
<1>6. Slice(e, t, b, c, d, o + m - b)
  BY <1>2, <1>4, <1>5 DEF Slice
<1>7. QED
  BY <1>2, <1>3, <1>4, <1>6 DEF t, m

\* Rows behind others.
LEMMA ConcatSlice ==
  ASSUME NEW e, NEW s, NEW t, NEW b, NEW c, NEW d, NEW g, Slice(e, s, b, c, d, g),
         NEW cc, Slice(e, t, b + c, cc, d, g)
  PROVE  Slice(e, s \o t, b, c + cc, d, g)
<1>1. /\ Lists(s, Ranking[e], b, c, d) /\ Apart(s, g) /\ NoAnswers(s) /\ (~ ads => NoAds(s))
      /\ Lists(t, Ranking[e], b + c, cc, d) /\ Apart(t, g) /\ NoAnswers(t) /\ (~ ads => NoAds(t))
      /\ d \in Int /\ g \in Int
  BY DEF Slice
<1>2. /\ Lists(s \o t, Ranking[e], b, c + cc, d) /\ Apart(s \o t, g) /\ NoAnswers(s \o t)
      /\ NoAds(s) /\ NoAds(t) => NoAds(s \o t)
  BY <1>1, ConcatLists
<1>3. QED
  BY <1>1, <1>2 DEF Slice

-----------------------------------------------------------------------------
(* The page of a start, and the page of Google. *)

\* The page of a start.
LEMMA StartPage ==
  ASSUME start \in Nat
  PROVE  /\ firstPage(start) \in Nat /\ firstPage(start) * PageSize \in Nat
         /\ ComputePagination(start).skip \in 0 .. PageSize - 1
         /\ firstPage(start) * PageSize + ComputePagination(start).skip = start
         /\ ComputePagination(start).skip = start % PageSize /\ PageSize \in Nat \ {0}
<1>1. PageSize \in Nat \ {0}
  BY SerpRowsAssumption
<1>2. firstPage(start) = start \div PageSize /\ ComputePagination(start).skip = start % PageSize
  BY DEF firstPage, ComputePagination
<1>3. /\ start \div PageSize \in Nat /\ (start \div PageSize) * PageSize \in Nat
      /\ start % PageSize \in 0 .. PageSize - 1 /\ (start \div PageSize) * PageSize + (start % PageSize) = start
  BY <1>1
<1>4. QED
  BY <1>1, <1>2, <1>3

\* The available results, and a limit of them.
LEMMA Availability ==
  ASSUME NEW e \in Engines, NEW o \in Nat, NEW n \in Nat
  PROVE  /\ Available(e, o, n) \in 0 .. n
         /\ Available(e, o, n) # 0 => o + Available(e, o, n) <= Len(Ranking[e])
         /\ \A max \in Nat : (IF Available(e, o, n) <= max THEN Available(e, o, n) ELSE max)
                               = Available(e, o, IF n <= max THEN n ELSE max)
         /\ \A m \in Nat : Available(e, o, n) + Available(e, o + n, m) = Available(e, o, n + m)
         /\ \A m \in 0 .. n : (IF Available(e, o, n) <= m THEN 0 ELSE Available(e, o, n) - m)
                                = Available(e, o + m, n - m)
         /\ Available(e, o, n) # n => \A m \in Nat : Available(e, o + n, m) = 0
<1> DEFINE L == Len(Ranking[e])
           a(x, y) == Available(e, x, y)
<1>1. L \in Nat
  BY Rankings
<1>2. \A x, y : a(x, y) = IF L <= x THEN 0 ELSE IF L - x <= y THEN L - x ELSE y
  BY DEF Available
<1> HIDE DEF a, L
<1>3. a(o, n) \in 0 .. n /\ (a(o, n) # 0 => o + a(o, n) <= L)
  BY <1>1, <1>2
<1>4. \A max \in Nat : (IF a(o, n) <= max THEN a(o, n) ELSE max) = a(o, IF n <= max THEN n ELSE max)
  BY <1>1, <1>2
<1>5. \A m \in Nat : a(o, n) + a(o + n, m) = a(o, n + m)
  BY <1>1, <1>2
<1>6. \A m \in 0 .. n : (IF a(o, n) <= m THEN 0 ELSE a(o, n) - m) = a(o + m, n - m)
  BY <1>1, <1>2
<1>7. a(o, n) # n => \A m \in Nat : a(o + n, m) = 0
  BY <1>1, <1>2
<1>8. QED
  BY <1>3, <1>4, <1>5, <1>6, <1>7 DEF a, L

\* The rank behind which the rows of a page start: Ecosia's pages are whole.
FirstRank(e) == IF e = "ecosia" THEN firstPage(start) * PageSize ELSE start

\* The rows of a page: the next n of the ranking, as far as there are so many,
\* in their order, and without ads at absolute ranks that are their places.
Fetches(e, s, n) ==
  /\ n \in Nat /\ Lists(s, Ranking[e], FirstRank(e), Available(e, FirstRank(e), n), 0)
  /\ \A i \in DOMAIN s : ~ s[i].ad => s[i].rank # 0
  /\ ~ ads /\ FirstRank(e) = start => Apart(s, 0)

\* Rows of a page without answers.
LEMMA FetchedSlice ==
  ASSUME Asked, NEW e \in Engines, NEW s, NEW n \in Nat, NEW g,
         Slice(e, s, FirstRank(e), Available(e, FirstRank(e), n), 0, g),
         ~ ads /\ FirstRank(e) = start => g = 0
  PROVE  Fetches(e, s, n) /\ NoAnswers(s)
<1>1. \A i \in DOMAIN s : ~ s[i].ad => s[i].rank # 0
  BY DEF Slice, NoAnswers
<1>2. QED
  BY <1>1 DEF Slice, Fetches

\* As many as are asked for.
LEMMA AskedCountType ==
  ASSUME Asked
  PROVE  AskedCount \in Nat \ {0} /\ PageSize \in Nat \ {0} /\ defaultQueryLimit = PageSize
         /\ (client.limit = PageSize => AskedCount = PageSize)
         /\ Tops \in Nat /\ (~ ads => Tops = 0)
BY SerpRowsAssumption, PagedAssumption DEF Asked, AskedCount, Tops

\* Google's page, with answers behind it.
LEMMA GooglePage ==
  ASSUME Asked, NEW urls \in Seq(Int \X Int)
  PROVE  LET s == DeduplicateResults(ParseGoogle(GoogleServed, urls, start))
         IN  Fetches("google", s, AskedCount) /\ Distinct(s)
<1> DEFINE p == Ranked(GoogleServed, start, start + 1)
           x == AnswerRows(urls)
           w == p \o x
           s == DeduplicateResults(w)
           e == "google"
           c == Available(e, start, AskedCount)
           u == Ranking[e]
<1>1. start \in Nat /\ start + 1 \in Nat \ {0} /\ AskedCount \in Nat /\ e \in Engines /\ Tops \in Nat
      /\ (~ ads => Tops = 0)
  BY AskedCountType DEF Asked, Engines
<1>2. Slice(e, p, start, c, 0, Tops)
  <2> HIDE DEF e
  <2>1. GoogleServed = Served(e, start, AskedCount)
    BY DEF GoogleServed, e
  <2>2. 0 = start - start /\ Tops = (start + 1) - 1 + Tops - start
    BY <1>1
  <2>3. Slice(e, Ranked(Served(e, start, AskedCount), start, start + 1), start,
              Available(e, start, AskedCount), 0, Tops)
    BY <1>1, <2>2, PageSlice, Zenon
  <2>4. QED
    BY <2>1, <2>3
<1>4. Lists(p, u, start, c, 0) /\ Apart(p, Tops) /\ NoAnswers(p) /\ p \in Seq(Row) /\ c \in Nat
  BY <1>2 DEF Slice, Lists
<1>5. Len(urls) \in Nat /\ DOMAIN urls = 1 .. Len(urls) /\ \A i \in 1 .. Len(urls) : urls[i] \in Int \X Int
  OBVIOUS
<1>6. x \in Seq(Row) /\ DOMAIN x = 1 .. Len(urls) /\ \A i \in 1 .. Len(urls) : ~ x[i].ad /\ x[i].rank = -i
  <2>1. \A i \in 1 .. Len(urls) : [url |-> urls[i], ad |-> FALSE, rank |-> -i, abs |-> 0] \in Row
    BY <1>5 DEF Row
  <2>2. x \in [1 .. Len(urls) -> Row] /\ \A i \in 1 .. Len(urls) : ~ x[i].ad /\ x[i].rank = -i
    BY <1>5, <2>1 DEF AnswerRows
  <2> HIDE DEF x
  <2>3. QED
    BY <1>5, <2>2, RowSequence
<1> HIDE DEF x, p, c, u
<1>7. OrganicAt(x) = {}
  BY <1>5, <1>6 DEF OrganicAt, IsOrganic
<1>8. Lists(x, u, start + c, 0, 0) /\ Apart(x, Tops)
  <2>1. start + c \in Nat /\ start + c + 1 .. start + c + 0 = {}
    BY <1>1, <1>4
  <2>2. QED
    BY <1>6, <1>7, <2>1 DEF Lists, Apart
<1>9. Lists(w, u, start, c, 0) /\ Apart(w, Tops)
  <2>1. Lists(w, u, start, c + 0, 0) /\ \A g : Apart(p, g) /\ Apart(x, g) => Apart(w, g)
    BY <1>4, <1>8, ConcatLists
  <2>2. c + 0 = c
    BY <1>4
  <2>3. QED
    BY <1>4, <1>8, <2>1, <2>2
<1>10. /\ w \in Seq(Row) /\ Len(p) \in Nat /\ Len(w) = Len(p) + Len(x) /\ DOMAIN p = 1 .. Len(p)
       /\ DOMAIN w = 1 .. Len(p) + Len(x) /\ Len(x) = Len(urls)
       /\ \A i \in 1 .. Len(p) + Len(x) : w[i] = IF i <= Len(p) THEN p[i] ELSE x[i - Len(p)]
  <2>1. /\ w \in Seq(Row) /\ Len(w) = Len(p) + Len(x)
        /\ \A i \in 1 .. Len(p) + Len(x) : w[i] = IF i <= Len(p) THEN p[i] ELSE x[i - Len(p)]
    BY <1>4, <1>6, ConcatProperties
  <2>2. Len(p) \in Nat /\ DOMAIN p = 1 .. Len(p) /\ Len(x) = Len(urls)
    BY <1>4, <1>5, <1>6
  <2> HIDE DEF w
  <2>3. QED
    BY <2>1, <2>2
<1> HIDE DEF w
<1>11. \A i \in 1 .. Len(p) + Len(x) : i <= Len(p) \/ (i - Len(p) \in 1 .. Len(urls) /\ i > Len(p))
  BY <1>5, <1>10
<1>12. \A i \in DOMAIN w : ~ w[i].ad => w[i].rank # 0
  <2> SUFFICES ASSUME NEW i \in DOMAIN w, ~ w[i].ad PROVE w[i].rank # 0
    OBVIOUS
  <2>1. CASE i <= Len(p)
    <3>1. i \in DOMAIN p /\ w[i] = p[i]
      BY <1>10, <2>1
    <3>2. QED
      BY <1>4, <3>1 DEF NoAnswers
  <2>2. CASE ~ (i <= Len(p))
    <3>1. i - Len(p) \in 1 .. Len(urls) /\ w[i] = x[i - Len(p)]
      BY <1>10, <1>11, <2>2
    <3>2. x[i - Len(p)].rank = -(i - Len(p)) /\ -(i - Len(p)) # 0
      BY <1>5, <1>6, <3>1
    <3>3. QED
      BY <3>1, <3>2
  <2>3. QED
    BY <2>1, <2>2
<1>13. AnswersLast(w)
  <2> SUFFICES ASSUME NEW i \in OrganicAt(w), NEW j \in 1 .. i - 1, ~ w[j].ad PROVE w[j].rank > 0
    BY DEF AnswersLast
  <2>1. i \in 1 .. Len(p) + Len(x) /\ w[i].rank > 0
    BY <1>10 DEF OrganicAt, IsOrganic
  <2>2. i <= Len(p)
    <3>1. SUFFICES ASSUME ~ (i <= Len(p)) PROVE FALSE
      OBVIOUS
    <3>2. i - Len(p) \in 1 .. Len(urls) /\ w[i] = x[i - Len(p)]
      BY <1>10, <1>11, <2>1, <3>1
    <3>3. x[i - Len(p)].rank = -(i - Len(p)) /\ ~ (-(i - Len(p)) > 0)
      BY <1>5, <1>6, <3>2
    <3>4. QED
      BY <2>1, <3>2, <3>3
  <2>3. j \in DOMAIN p /\ w[j] = p[j]
    BY <1>10, <2>1, <2>2
  <2>4. QED
    BY <1>4, <2>3 DEF NoAnswers
<1>14. \A y, z \in start + 1 .. start + c : u[y + 0] = u[z + 0] => y = z
  <2> SUFFICES ASSUME NEW y \in start + 1 .. start + c, NEW z \in start + 1 .. start + c, u[y + 0] = u[z + 0]
               PROVE  y = z
    OBVIOUS
  <2>1. c # 0 => start + c <= Len(u)
    BY <1>1, Availability DEF c, u
  <2>2. Len(u) \in Nat
    BY <1>1, Rankings DEF u
  <2>3. y \in 1 .. Len(u) /\ z \in 1 .. Len(u) /\ y + 0 = y /\ z + 0 = z
    BY <1>1, <1>4, <2>1, <2>2
  <2>4. QED
    BY <1>1, <2>3, Rankings DEF u
<1>15. Lists(s, u, start, c, 0) /\ Apart(s, Tops)
  <2>1. Tops \in Int
    BY <1>1
  <2> HIDE DEF s
  <2>2. Lists(DeduplicateResults(w), u, start, c, 0) /\ Apart(DeduplicateResults(w), Tops)
    BY <1>9, <1>13, <1>14, <2>1, DedupLists, Zenon
  <2>3. QED
    BY <2>2 DEF s
<1>16. Distinct(s) /\ From(w, s)
  BY <1>10, DedupDistinct
<1>17. \A i \in DOMAIN s : ~ s[i].ad => s[i].rank # 0
  BY <1>12, <1>16 DEF From
<1>18. Fetches(e, s, AskedCount)
  <2>1. FirstRank(e) = start
    BY DEF FirstRank
  <2> HIDE DEF s
  <2>2. QED
    BY <1>1, <1>15, <1>17, <2>1 DEF Fetches, c, u
<1>19. QED
  BY <1>16, <1>18 DEF ParseGoogle, ParsePage, p, w, x

-----------------------------------------------------------------------------
(* Functions that are given step by step. *)

\* From each member of an interval to the next.
LEMMA Interval ==
  ASSUME NEW lo \in Int, NEW hi \in Int, NEW T, lo \in T, \A p \in lo + 1 .. hi : p - 1 \in T => p \in T
  PROVE  \A p \in lo .. hi : p \in T
<1> DEFINE bad == {n \in Nat : lo + n <= hi /\ lo + n \notin T}
<1>1. SUFFICES ASSUME bad # {} PROVE FALSE
  <2> SUFFICES ASSUME NEW p \in lo .. hi, p \notin T PROVE bad # {}
    OBVIOUS
  <2>1. p - lo \in Nat /\ lo + (p - lo) = p /\ p <= hi
    OBVIOUS
  <2>2. p - lo \in bad
    BY <2>1
  <2>3. QED
    BY <2>2
<1>2. PICK n \in bad : \A m \in bad : n <= m
  BY <1>1, LeastNatural
<1>3. n \in Nat /\ lo + n <= hi /\ lo + n \notin T
  BY <1>2
<1>4. CASE n = 0
  BY <1>3, <1>4
<1>5. CASE n # 0
  <2>1. n - 1 \in Nat /\ lo + (n - 1) = (lo + n) - 1 /\ lo + n \in lo + 1 .. hi /\ lo + (n - 1) <= hi /\ ~ (n <= n - 1)
    BY <1>3, <1>5
  <2>2. n - 1 \notin bad
    BY <1>2, <2>1
  <2>3. lo + (n - 1) \in T
    BY <2>1, <2>2
  <2>4. QED
    BY <1>3, <2>1, <2>3
<1>6. QED
  BY <1>4, <1>5

\* A function that is given by its first value and by a step from each to the next.
Stepping(f, lo, hi, S, z, G) ==
  f \in [lo .. hi -> S] /\ f[lo] = z /\ \A p \in lo + 1 .. hi : f[p] = G[<<f[p - 1], p>>]

\* A function given by its first value and its steps exists on any interval. (A
\* definition by recursion is a choice among such functions.)
LEMMA StepsExist ==
  ASSUME NEW lo \in Int, NEW hi \in Int, lo <= hi, NEW S, NEW z \in S, NEW G \in [S \X (lo .. hi) -> S]
  PROVE  \E f : Stepping(f, lo, hi, S, z, G)
<1> DEFINE T == {p \in lo .. hi : \E f : Stepping(f, lo, p, S, z, G)}
<1>1. lo \in T
  <2> DEFINE f == [p \in lo .. lo |-> z]
  <2>1. lo + 1 .. lo = {} /\ lo \in lo .. lo /\ lo \in lo .. hi
    OBVIOUS
  <2>2. f \in [lo .. lo -> S] /\ f[lo] = z
    BY <2>1
  <2> HIDE DEF f
  <2>3. Stepping(f, lo, lo, S, z, G)
    BY <2>1, <2>2 DEF Stepping
  <2>4. QED
    BY <2>1, <2>3
<1>2. ASSUME NEW p \in lo + 1 .. hi, p - 1 \in T PROVE p \in T
  <2>1. PICK f : Stepping(f, lo, p - 1, S, z, G)
    BY <1>2
  <2> DEFINE g == [q \in lo .. p |-> IF q = p THEN G[<<f[p - 1], p>>] ELSE f[q]]
  <2>2. p \in lo .. hi /\ p - 1 \in lo .. p - 1 /\ lo # p /\ lo \in lo .. p /\ p \in Int
    OBVIOUS
  <2>3. \A q \in lo .. p : q = p \/ q \in lo .. p - 1
    OBVIOUS
  <2>4. \A q \in lo + 1 .. p : q \in lo .. p /\ q - 1 \in lo .. p /\ q - 1 # p /\ (q = p \/ q \in lo + 1 .. p - 1)
    OBVIOUS
  <2>5. f \in [lo .. p - 1 -> S] /\ f[lo] = z /\ \A q \in lo + 1 .. p - 1 : f[q] = G[<<f[q - 1], q>>]
    BY <2>1 DEF Stepping
  <2>6. G[<<f[p - 1], p>>] \in S
    BY <2>2, <2>5
  <2>7. g \in [lo .. p -> S]
    BY <2>3, <2>5, <2>6
  <2>8. g[lo] = z
    BY <2>2, <2>5
  <2>9. \A q \in lo + 1 .. p : g[q] = G[<<g[q - 1], q>>]
    BY <2>2, <2>4, <2>5
  <2> HIDE DEF g
  <2>10. Stepping(g, lo, p, S, z, G)
    BY <2>7, <2>8, <2>9 DEF Stepping
  <2>11. QED
    BY <2>2, <2>10
<1> HIDE DEF T
<1>3. \A p \in lo .. hi : p \in T
  BY <1>1, <1>2, Interval
<1>4. hi \in T
  BY <1>3
<1>5. QED
  BY <1>4 DEF T

-----------------------------------------------------------------------------
(* Bing, Baidu and DuckDuckGo. *)

\* What is available is in the ranking.
LEMMA AvailableInside ==
  ASSUME NEW e \in Engines, NEW o \in Nat, NEW n \in Nat, NEW b \in Nat, NEW d, d = o - b
  PROVE  Inside(e, b, Available(e, o, n), d) /\ Available(e, o, n) \in Nat
<1> DEFINE c == Available(e, o, n)
<1>1. c \in Nat /\ (c # 0 => o + c <= Len(Ranking[e])) /\ Len(Ranking[e]) \in Nat
  <2> HIDE DEF c
  <2>1. c \in 0 .. n /\ (c # 0 => o + c <= Len(Ranking[e]))
    BY Availability DEF c
  <2>2. Len(Ranking[e]) \in Nat
    BY Rankings
  <2>3. QED
    BY <2>1, <2>2
<1> HIDE DEF c
<1>2. d \in Int /\ b + d = o
  OBVIOUS
<1>3. b + c + d = o + c
  BY <1>1, <1>2
<1>4. Inside(e, b, c, d)
  BY <1>1, <1>2, <1>3 DEF Inside
<1>5. QED
  BY <1>1, <1>4 DEF c

\* Rows without duplicates, up to a limit.
LEMMA LimitedSlice ==
  ASSUME NEW e \in Engines, NEW s, NEW b, NEW c, NEW d, NEW g, Slice(e, s, b, c, d, g), Inside(e, b, c, d),
         NEW max \in Nat \ {0}
  PROVE  /\ Slice(e, LimitedRows(s, max), b, IF c <= max THEN c ELSE max, d, g)
         /\ Distinct(LimitedRows(s, max))
<1> DEFINE t == DeduplicateResults(s)
<1>1. Slice(e, t, b, c, d, g) /\ Distinct(t)
  BY DedupSlice
<1> HIDE DEF t
<1>2. /\ Slice(e, LimitOrganicResults(t, max), b, IF c <= max THEN c ELSE max, d, g)
      /\ Distinct(LimitOrganicResults(t, max))
  BY <1>1, LimitSlice
<1>3. QED
  BY <1>2 DEF LimitedRows, t

\* Rows that were numbered from 0 on, numbered behind an offset.
LEMMA OffsetPage ==
  ASSUME NEW e \in Engines, NEW s, NEW c, NEW o \in Nat, NEW g \in Int, Slice(e, s, 0, c, o, g)
  PROVE  /\ Slice(e, Offset(Rebased(s, o), o), o, c, 0, g)
         /\ Distinct(s) => Distinct(Offset(Rebased(s, o), o))
<1> DEFINE t == Rebased(s, o)
<1>1. o + 0 - o = 0 /\ g + 0 - o + o = g
  OBVIOUS
<1>2. Slice(e, t, o, c, o + 0 - o, g + 0 - o) /\ (Distinct(s) => Distinct(t))
  BY RebasedSlice
<1> HIDE DEF t
<1>3. Slice(e, Offset(t, o), o, c, o + 0 - o, g + 0 - o + o) /\ (Distinct(t) => Distinct(Offset(t, o)))
  BY <1>2, OffsetSlice
<1>4. QED
  BY <1>1, <1>2, <1>3 DEF t

\* The rows of an offset's page that are numbered from 0 on, without duplicates.
LEMMA NumberedPage ==
  ASSUME Asked, NEW e \in Engines, NEW o \in Nat, NEW n \in Nat
  PROVE  LET s == DeduplicateResults(ParsePage(Served(e, o, n), 0, 1))
         IN  Slice(e, s, 0, Available(e, o, n), o, Tops) /\ Distinct(s)
<1> DEFINE r == Ranked(Served(e, o, n), 0, 1)
           c == Available(e, o, n)
<1>1. o = o - 0 /\ Tops = 1 - 1 + Tops - 0 /\ 0 \in Nat /\ 1 \in Nat \ {0} /\ o + 0 = o
  BY DEF Tops
<1>2. Slice(e, r, 0, c, o, Tops)
  BY <1>1, PageSlice, Zenon
<1>3. Inside(e, 0, c, o)
  BY <1>1, AvailableInside
<1> HIDE DEF c, r
<1>4. Slice(e, DeduplicateResults(r), 0, c, o, Tops) /\ Distinct(DeduplicateResults(r))
  BY <1>2, <1>3, DedupSlice
<1>5. QED
  BY <1>4 DEF c, r, ParsePage

\* Baidu's rows.
LEMMA BaiduWeb ==
  ASSUME Asked
  PROVE  LET s == BaiduRows(ParseBaidu(BaiduServed), start)
         IN  Slice("baidu", s, start, Available("baidu", start, AskedCount), 0, Tops) /\ Distinct(s)
<1> DEFINE e == "baidu"
           c == Available(e, start, AskedCount)
           r == DeduplicateResults(ParsePage(BaiduServed, 0, 1))
           t == Rebased(r, 0)
<1>1. start \in Nat /\ AskedCount \in Nat /\ e \in Engines /\ Tops \in Nat
  BY AskedCountType DEF Asked, Engines
<1>2. Slice(e, r, 0, c, start, Tops) /\ Distinct(r)
  BY <1>1, NumberedPage DEF BaiduServed
<1> HIDE DEF r, c, e
<1>3. Slice(e, t, 0, c, start + 0 - 0, Tops + 0 - 0) /\ Distinct(t)
  BY <1>2, RebasedSlice
<1>4. start + 0 - 0 = start /\ Tops + 0 - 0 = Tops
  BY <1>1
<1> HIDE DEF t
<1>5. Slice(e, Offset(Rebased(t, start), start), start, c, 0, Tops) /\ Distinct(Offset(Rebased(t, start), start))
  BY <1>1, <1>3, <1>4, OffsetPage
<1>6. QED
  BY <1>5 DEF e, c, t, r, BaiduRows, ParseBaidu

\* Bing's rows.
LEMMA BingWeb ==
  ASSUME Asked
  PROVE  \E n \in Nat :
           /\ n <= client.limit /\ (client.limit = PageSize => n = client.limit)
           /\ Slice("bing", WebRows("bing"), start, Available("bing", start, n), 0, Tops)
           /\ Distinct(WebRows("bing"))
<1> DEFINE e == "bing"
           m == IF start > 0 THEN PageSize ELSE AskedCount
           c == Available(e, start, m)
           r == Ranked(BingServed, start, start + 1)
           max == client.limit
           n == IF m <= max THEN m ELSE max
<1>1. /\ start \in Nat /\ m \in Nat \ {0} /\ e \in Engines /\ Tops \in Nat /\ start + 1 \in Nat \ {0}
      /\ max \in Nat \ {0} /\ (max = PageSize => m = PageSize)
  BY AskedCountType DEF Asked, Engines
<1>2. 0 = start - start /\ Tops = (start + 1) - 1 + Tops - start
  BY <1>1
<1>3. BingServed = Served(e, start, m)
  BY DEF BingServed
<1> HIDE DEF e, m, max
<1>4. Slice(e, Ranked(Served(e, start, m), start, start + 1), start, c, 0, Tops)
  BY <1>1, <1>2, PageSlice, Zenon
<1>5. Inside(e, start, c, 0)
  BY <1>1, <1>2, AvailableInside
<1>6. (IF c <= max THEN c ELSE max) = Available(e, start, n)
  BY <1>1, Availability
<1>7. Slice(e, r, start, c, 0, Tops)
  BY <1>3, <1>4
<1> HIDE DEF c, r
<1>8. Slice(e, LimitedRows(r, max), start, IF c <= max THEN c ELSE max, 0, Tops) /\ Distinct(LimitedRows(r, max))
  BY <1>1, <1>5, <1>7, LimitedSlice
<1>9. WebRows(e) = LimitedRows(r, max)
  BY DEF WebRows, e, r, max, ParseBing, ParsePage
<1>10. n \in Nat /\ n <= max /\ (max = PageSize => n = max)
  BY <1>1
<1>11. QED
  BY <1>6, <1>8, <1>9, <1>10 DEF e, max

\* DuckDuckGo's rows.
LEMMA DDGWeb ==
  ASSUME Asked
  PROVE  /\ Slice("duckduckgo", WebRows("duckduckgo"), start, Available("duckduckgo", start, client.limit), 0, Tops)
         /\ Distinct(WebRows("duckduckgo"))
<1> DEFINE e == "duckduckgo"
           L == Len(Ranking[e])
           m == L + start + client.limit
           r == DeduplicateResults(ParsePage(DDGServed, 0, 1))
           t == skipOrganicResults(r, start)
           max == client.limit
           c == Available(e, start, m - start)
<1>1. /\ start \in Nat /\ L \in Nat /\ e \in Engines /\ Tops \in Nat /\ max \in Nat \ {0} /\ 0 + start = start
      /\ m \in Nat /\ start \in 0 .. m /\ 0 \in Nat /\ m - start \in Nat /\ ~ (m - start <= max /\ m - start # max)
  <2>1. start \in Nat /\ e \in Engines /\ Tops \in Nat /\ client.limit \in Nat \ {0}
    BY AskedCountType DEF Asked, Engines
  <2>2. L \in Nat
    BY <2>1, Rankings
  <2> HIDE DEF L
  <2>3. QED
    BY <2>1, <2>2
<1>2. Available(e, 0, L) = Available(e, 0, m)
  BY <1>1 DEF Available
<1>3. Slice(e, r, 0, Available(e, 0, m), 0, Tops) /\ Distinct(r)
  BY <1>1, <1>2, NumberedPage DEF DDGServed
<1> HIDE DEF e, L, m, max, r
<1>4. (IF Available(e, 0, m) <= start THEN 0 ELSE Available(e, 0, m) - start) = c
  BY <1>1, Availability
<1>5. Slice(e, t, 0 + start, IF Available(e, 0, m) <= start THEN 0 ELSE Available(e, 0, m) - start, 0, Tops)
      /\ Distinct(t)
  BY <1>1, <1>3, SkipSlice
<1>6. Slice(e, t, start, c, 0, Tops)
  BY <1>1, <1>4, <1>5
<1>7. (IF c <= max THEN c ELSE max) = Available(e, start, max)
  <2>1. (IF c <= max THEN c ELSE max) = Available(e, start, IF m - start <= max THEN m - start ELSE max)
    BY <1>1, Availability
  <2>2. (IF m - start <= max THEN m - start ELSE max) = max
    BY <1>1
  <2>3. QED
    BY <2>1, <2>2
<1> HIDE DEF t, c
<1>8. /\ Slice(e, LimitOrganicResults(t, max), start, IF c <= max THEN c ELSE max, 0, Tops)
      /\ Distinct(LimitOrganicResults(t, max))
  BY <1>1, <1>5, <1>6, LimitSlice
<1>9. WebRows(e) = LimitOrganicResults(t, max)
  BY DEF WebRows, e, t, r, max, DDGRows, ParseDDG, windowOrganicResults, ParsePage
<1>10. QED
  BY <1>7, <1>8, <1>9 DEF e, max

-----------------------------------------------------------------------------
(* The engines that are read page by page. *)

\* Pages behind each other.
LEMMA Products ==
  ASSUME NEW p \in Int, NEW q \in Int, NEW d \in Nat \ {0}
  PROVE  /\ (p + 1) * d = p * d + d /\ p * d \in Int /\ (p - q) * d = p * d - q * d
         /\ (p >= q => p * d >= q * d) /\ (p >= 0 => p * d >= p)
<1>1. (p + 1) * d = p * d + d /\ p * d \in Int /\ q * d \in Int /\ (p - q) * d = p * d - q * d
  OBVIOUS
<1>2. p >= q => p * d >= q * d
  <2> SUFFICES ASSUME p >= q PROVE p * d >= q * d
    OBVIOUS
  <2>1. p - q \in Nat
    OBVIOUS
  <2>2. \A k \in Nat : k * d \in Nat
    OBVIOUS
  <2>3. (p - q) * d \in Nat
    BY <2>1, <2>2
  <2>4. QED
    BY <1>1, <2>3
<1>3. p >= 0 => p * d >= p
  OBVIOUS
<1>4. QED
  BY <1>1, <1>2, <1>3

\* The pages from that of the start on.
LEMMA PagesFrom ==
  ASSUME Asked, NEW e \in Engines
  PROVE  /\ firstPage(start) \in Nat /\ PageSize \in Nat \ {0} /\ firstPage(start) \in Pages(e)
         /\ firstPage(start) <= firstPage(start) + Len(Ranking[e])
         /\ Pages(e) = firstPage(start) .. firstPage(start) + Len(Ranking[e])
         /\ \A p \in Pages(e) : /\ p \in Nat /\ p >= firstPage(start) /\ p * PageSize \in Nat
                                /\ (p + 1) * PageSize = p * PageSize + PageSize
                                /\ p # firstPage(start) => p - 1 \in Pages(e) /\ p * PageSize >= start
                                /\ (p + 1) * PageSize - start \in Nat
<1> DEFINE f == firstPage(start)
           L == Len(Ranking[e])
<1>1. /\ f \in Nat /\ f * PageSize \in Nat /\ ComputePagination(start).skip \in 0 .. PageSize - 1
      /\ f * PageSize + ComputePagination(start).skip = start /\ PageSize \in Nat \ {0} /\ start \in Nat
  BY StartPage DEF Asked
<1>2. L \in Nat
  BY Rankings
<1>3. Pages(e) = f .. f + L
  BY DEF Pages
<1> HIDE DEF f, L
<1>4. \A p \in Pages(e) : p \in Nat /\ p >= f /\ (p # f => p - 1 \in Pages(e) /\ p - 1 >= f)
  BY <1>1, <1>2, <1>3
<1>5. ASSUME NEW p \in Pages(e)
      PROVE  /\ p * PageSize \in Nat /\ (p + 1) * PageSize = p * PageSize + PageSize
             /\ p # f => p * PageSize >= start
             /\ (p + 1) * PageSize - start \in Nat
  <2>0. p \in Nat /\ p >= f
    BY <1>4
  <2>1. /\ p \in Int /\ f \in Int /\ f + 1 \in Int /\ p >= f /\ (p # f => p >= f + 1)
    BY <1>1, <2>0
  <2>2. (p + 1) * PageSize = p * PageSize + PageSize /\ p * PageSize >= f * PageSize /\ p * PageSize \in Int
    BY <1>1, <2>1, Products
  <2>3. p # f => p * PageSize >= (f + 1) * PageSize
    BY <1>1, <2>1, Products
  <2>4. (f + 1) * PageSize = f * PageSize + PageSize
    BY <1>1, <2>1, Products
  <2>5. QED
    BY <1>1, <2>2, <2>3, <2>4
<1>6. QED
  BY <1>1, <1>2, <1>3, <1>4, <1>5 DEF f, L

\* The page that is read last is one of the pages.
LEMMA LastPageOfPages ==
  ASSUME Asked, NEW e \in Engines, NEW collected
  PROVE  LastPage(e, collected) \in Pages(e)
<1> DEFINE last == firstPage(start) + Len(Ranking[e])
           Stops(p) == \/ Served(e, p * PageSize, PageSize) = << >>
                       \/ ~ ShouldFetchResultPage(CountOrganicResults(collected[p]), client.limit,
                                                  p - firstPage(start) + 1)
           S == {p \in Pages(e) : Stops(p)}
<1>1. /\ Pages(e) = firstPage(start) .. last /\ firstPage(start) \in Nat /\ PageSize \in Nat \ {0}
      /\ last \in Pages(e) /\ Len(Ranking[e]) \in Nat
  <2>1. Len(Ranking[e]) \in Nat
    BY Rankings
  <2>2. Pages(e) = firstPage(start) .. last /\ firstPage(start) \in Nat /\ PageSize \in Nat \ {0}
    BY PagesFrom
  <2>3. QED
    BY <2>1, <2>2
<1>2. Served(e, last * PageSize, PageSize) = << >>
  <2>1. last \in Nat /\ last >= Len(Ranking[e]) /\ PageSize \in Nat /\ last * PageSize \in Nat
        /\ last * PageSize >= last
    <3>1. last \in Nat /\ last >= Len(Ranking[e]) /\ last \in Int /\ 0 \in Int /\ last >= 0
      BY <1>1
    <3> HIDE DEF last
    <3>2. last * PageSize \in Int /\ last * PageSize >= last
      BY <1>1, <3>1, Products
    <3>3. QED
      BY <1>1, <3>1, <3>2
  <2>2. Len(Ranking[e]) <= last * PageSize
    BY <1>1, <2>1
  <2> HIDE DEF last
  <2>3. Available(e, last * PageSize, PageSize) = 0
    BY <2>2 DEF Available
  <2>4. QED
    BY <2>1, <2>3, ServedTop
<1>3. S \subseteq Nat
  BY <1>1
<1>4. last \in S
  BY <1>1, <1>2
<1>5. LastPage(e, collected) = Min(S)
  BY DEF LastPage
<1>6. S \subseteq Pages(e)
  OBVIOUS
<1> HIDE DEF S
<1>7. Min(S) \in S
  BY <1>3, <1>4, LeastOfSome
<1>8. QED
  BY <1>5, <1>6, <1>7

\* A page of Yandex: the first one without what is before the start.
LEMMA YandexPageSlice ==
  ASSUME Asked, NEW p \in Pages("yandex")
  PROVE  LET o == IF p = firstPage(start) THEN start ELSE p * PageSize
         IN  /\ Slice("yandex", YandexPage(p), o, Available("yandex", o, (p + 1) * PageSize - o), 0, Tops)
             /\ YandexPage(p) \in Seq(Row) /\ o \in Nat
<1> DEFINE e == "yandex"
           b == p * PageSize
           r == Ranked(Served(e, b, PageSize), b, b + 1)
           c == Available(e, b, PageSize)
           k == ComputePagination(start).skip
           d == (p + 1) * PageSize
<1>1. /\ b \in Nat /\ e \in Engines /\ Tops \in Nat /\ PageSize \in Nat \ {0} /\ start \in Nat
      /\ d = b + PageSize
  BY PagesFrom, AskedCountType DEF Asked, Engines
<1>2. 0 = b - b /\ Tops = (b + 1) - 1 + Tops - b /\ b + 1 \in Nat \ {0}
  <2> HIDE DEF b
  <2> QED
    BY <1>1
<1>3. YandexPage(p) = IF p = firstPage(start) THEN skipOrganicResults(r, k) ELSE r
  BY DEF YandexPage, YandexServed, ParseYandex, ParsePage
<1>4. k \in Nat /\ k \in 0 .. PageSize /\ (p = firstPage(start) => b + k = start)
  <2>1. ComputePagination(start).skip \in 0 .. PageSize - 1 /\ firstPage(start) * PageSize + k = start
    BY <1>1, StartPage
  <2> HIDE DEF k
  <2>2. QED
    BY <1>1, <2>1 DEF k
<1> HIDE DEF b, k, e, d
<1>5. Slice(e, r, b, c, 0, Tops)
  BY <1>1, <1>2, PageSlice, Zenon
<1> HIDE DEF r
<1>6. CASE p = firstPage(start)
  <2>1. Slice(e, skipOrganicResults(r, k), b + k, IF c <= k THEN 0 ELSE c - k, 0, Tops)
    BY <1>4, <1>5, SkipSlice
  <2>2. (IF c <= k THEN 0 ELSE c - k) = Available(e, b + k, PageSize - k)
    BY <1>1, <1>4, Availability
  <2>3. PageSize - k = d - start
    BY <1>1, <1>4, <1>6
  <2>4. Slice(e, YandexPage(p), start, Available(e, start, d - start), 0, Tops)
    BY <1>3, <1>4, <1>6, <2>1, <2>2, <2>3
  <2>5. QED
    BY <1>1, <1>6, <2>4 DEF Slice, Lists, e, d
<1>7. CASE p # firstPage(start)
  <2>1. PageSize = d - b
    BY <1>1
  <2>2. Slice(e, YandexPage(p), b, Available(e, b, d - b), 0, Tops)
    BY <1>3, <1>5, <1>7, <2>1
  <2>3. QED
    BY <1>1, <1>7, <2>2 DEF Slice, Lists, e, d, b
<1>8. QED
  BY <1>6, <1>7

\* What Yandex's pages hold: each what the ones before it do, and its own.
LEMMA YandexPagesAre ==
  ASSUME Asked
  PROVE  \A p \in Pages("yandex") :
           YandexPages[p] = IF p = firstPage(start) THEN YandexPage(p) ELSE YandexPages[p - 1] \o YandexPage(p)
<1> DEFINE S == Seq(Row)
           P == Pages("yandex")
           lo == firstPage(start)
           hi == firstPage(start) + Len(Ranking["yandex"])
           G == [x \in S \X (lo .. hi) |-> x[1] \o YandexPage(x[2])]
           z == YandexPage(lo)
           F(f) == [p \in P |-> IF p = lo THEN YandexPage(p) ELSE f[p - 1] \o YandexPage(p)]
<1>1. /\ "yandex" \in Engines /\ P = lo .. hi /\ lo \in Int /\ hi \in Int /\ lo <= hi /\ lo \in P
      /\ \A p \in P : p # lo => p - 1 \in P /\ p \in lo + 1 .. hi
  <2>1. "yandex" \in Engines
    BY DEF Engines
  <2>2. Len(Ranking["yandex"]) \in Nat /\ lo \in Nat /\ P = lo .. hi
    BY <2>1, PagesFrom, Rankings
  <2>3. QED
    BY <2>1, <2>2
<1>2. \A p \in P : YandexPage(p) \in S
  BY YandexPageSlice
<1> HIDE DEF P, lo, hi
<1>3. z \in S /\ G \in [S \X (lo .. hi) -> S]
  <2>1. \A s, t \in S : s \o t \in S
    OBVIOUS
  <2> HIDE DEF S
  <2>2. \A x \in S \X (lo .. hi) : x[1] \in S /\ x[2] \in P
    BY <1>1
  <2>3. QED
    BY <1>1, <1>2, <2>1, <2>2
<1> HIDE DEF S, z, G
<1>4. PICK f : Stepping(f, lo, hi, S, z, G)
  BY <1>1, <1>3, StepsExist
<1>5. f \in [P -> S] /\ f[lo] = z /\ \A p \in lo + 1 .. hi : f[p] = G[<<f[p - 1], p>>]
  BY <1>1, <1>4 DEF Stepping
<1>6. \A p \in P : f[p] = IF p = lo THEN YandexPage(p) ELSE f[p - 1] \o YandexPage(p)
  <2> SUFFICES ASSUME NEW p \in P, p # lo PROVE f[p] = f[p - 1] \o YandexPage(p)
    BY <1>5 DEF z
  <2>1. p - 1 \in P /\ p \in lo .. hi /\ p \in lo + 1 .. hi
    BY <1>1
  <2>2. <<f[p - 1], p>> \in S \X (lo .. hi) /\ f[p] = G[<<f[p - 1], p>>]
    BY <1>5, <2>1
  <2>3. QED
    BY <2>2 DEF G
<1>7. f = F(f)
  BY <1>5, <1>6
<1>8. YandexPages = CHOOSE g : g = F(g)
  BY DEF YandexPages, P, lo
<1>9. YandexPages = F(YandexPages)
  BY <1>7, <1>8
<1>10. QED
  BY <1>9 DEF P, lo

-----------------------------------------------------------------------------
(* Yandex's page of results. *)

\* What is served of n rows and of the m behind them is what is of n + m rows.
LEMMA NothingThere ==
  ASSUME NEW e \in Engines, NEW o \in Nat, NEW n \in Nat, NEW m \in Nat
  PROVE  /\ Available(e, o, n) \in Nat /\ Available(e, o + n, m) \in Nat
         /\ Available(e, o, n) + Available(e, o + n, m) = Available(e, o, n + m)
         /\ Available(e, o + n, m) # 0 => o + n = o + Available(e, o, n)
<1> DEFINE c == Available(e, o, n)
           cc == Available(e, o + n, m)
<1>1. c \in 0 .. n /\ cc \in 0 .. m /\ c + cc = Available(e, o, n + m) /\ (c # n => cc = 0)
  <2>1. o + n \in Nat
    OBVIOUS
  <2>2. c \in 0 .. n /\ c + cc = Available(e, o, n + m) /\ (c # n => cc = 0)
    BY Availability
  <2> HIDE DEF c
  <2>3. cc \in 0 .. m
    BY <2>1, Availability
  <2>4. QED
    BY <2>2, <2>3
<1> HIDE DEF c, cc
<1>2. c \in Nat /\ cc \in Nat /\ (cc # 0 => o + n = o + c)
  BY <1>1
<1>3. QED
  BY <1>1, <1>2 DEF c, cc

\* All of Yandex's pages up to p list what there is from the start to the end of p.
LEMMA YandexPagesSlice ==
  ASSUME Asked
  PROVE  \A p \in Pages("yandex") :
           Slice("yandex", YandexPages[p], start, Available("yandex", start, (p + 1) * PageSize - start), 0, Tops)
<1> DEFINE e == "yandex"
           P == Pages(e)
           lo == firstPage(start)
           hi == firstPage(start) + Len(Ranking[e])
           a(p) == Available(e, start, (p + 1) * PageSize - start)
           T == {p \in P : Slice(e, YandexPages[p], start, a(p), 0, Tops)}
<1>1. /\ e \in Engines /\ P = lo .. hi /\ lo \in Int /\ hi \in Int /\ lo \in P /\ start \in Nat /\ PageSize \in Nat
      /\ \A p \in P : /\ p \in Nat /\ p * PageSize \in Nat /\ (p + 1) * PageSize = p * PageSize + PageSize
                      /\ p # lo => p - 1 \in P /\ p * PageSize >= start
  <2>1. e \in Engines
    BY DEF Engines
  <2>2. Len(Ranking[e]) \in Nat /\ start \in Nat
    BY <2>1, Rankings DEF Asked
  <2> HIDE DEF e
  <2>3. /\ lo \in Nat /\ P = lo .. hi /\ lo \in P /\ PageSize \in Nat
        /\ \A p \in P : /\ p \in Nat /\ p * PageSize \in Nat /\ (p + 1) * PageSize = p * PageSize + PageSize
                        /\ p # lo => p - 1 \in P /\ p * PageSize >= start
    BY <2>1, PagesFrom
  <2>4. lo \in Int /\ hi \in Int
    BY <2>2, <2>3
  <2>5. QED
    BY <2>1, <2>2, <2>3, <2>4
<1>2. \A p \in P : YandexPages[p] = IF p = lo THEN YandexPage(p) ELSE YandexPages[p - 1] \o YandexPage(p)
  BY YandexPagesAre
<1>3. \A p \in P : LET o == IF p = lo THEN start ELSE p * PageSize
                   IN  Slice(e, YandexPage(p), o, Available(e, o, (p + 1) * PageSize - o), 0, Tops)
  BY YandexPageSlice
<1> HIDE DEF P, lo, hi, e
<1>4. lo \in T
  BY <1>1, <1>2, <1>3
<1>5. ASSUME NEW p \in lo + 1 .. hi, p - 1 \in T PROVE p \in T
  <2>1. p \in P /\ p # lo /\ p - 1 \in P /\ (p - 1) + 1 = p
    BY <1>1
  <2> DEFINE b == p * PageSize
             n == b - start
             c == Available(e, start, n)
             cc == Available(e, b, PageSize)
  <2>2. b \in Nat /\ n \in Nat /\ (p + 1) * PageSize = b + PageSize /\ start + n = b
    BY <1>1, <2>1
  <2>3. Slice(e, YandexPages[p - 1], start, c, 0, Tops)
    BY <1>5, <2>1
  <2>4. (p + 1) * PageSize - b = PageSize /\ (p + 1) * PageSize - start = n + PageSize
    <3> HIDE DEF b
    <3> QED
      BY <1>1, <2>2 DEF n
  <2>5. Slice(e, YandexPage(p), b, cc, 0, Tops)
    BY <1>3, <2>1, <2>4
  <2> HIDE DEF b, n
  <2>6. c \in Nat /\ cc \in Nat /\ c + cc = Available(e, start, n + PageSize) /\ (cc # 0 => b = start + c)
    <3> HIDE DEF c, cc
    <3>1. /\ Available(e, start, n) \in Nat /\ Available(e, start + n, PageSize) \in Nat
          /\ Available(e, start, n) + Available(e, start + n, PageSize) = Available(e, start, n + PageSize)
          /\ Available(e, start + n, PageSize) # 0 => start + n = start + Available(e, start, n)
      <4>1. e \in Engines /\ start \in Nat /\ n \in Nat /\ PageSize \in Nat
        BY <1>1, <2>2
      <4> HIDE DEF a, T
      <4>2. QED
        BY <4>1, NothingThere
    <3>2. QED
      BY <2>2, <3>1 DEF c, cc
  <2> HIDE DEF c, cc
  <2>7. Slice(e, YandexPage(p), start + c, cc, 0, Tops)
    <3>1. CASE cc # 0
      BY <2>5, <2>6, <3>1
    <3>2. CASE cc = 0
      <4>1. start + c \in Nat /\ 0 \in Int /\ Tops \in Int
        BY <1>1, <2>6 DEF Tops
      <4>2. Slice(e, YandexPage(p), b, 0, 0, Tops)
        BY <2>5, <3>2
      <4>3. Slice(e, YandexPage(p), start + c, 0, 0, Tops)
        BY <4>1, <4>2, EmptySlice
      <4>4. QED
        BY <3>2, <4>3
    <3>3. QED
      BY <3>1, <3>2
  <2>8. Slice(e, YandexPages[p - 1] \o YandexPage(p), start, c + cc, 0, Tops)
    BY <2>3, <2>7, ConcatSlice
  <2>9. YandexPages[p] = YandexPages[p - 1] \o YandexPage(p)
    BY <1>2, <2>1
  <2>10. Slice(e, YandexPages[p], start, a(p), 0, Tops)
    BY <2>4, <2>6, <2>8, <2>9
  <2>11. QED
    BY <2>1, <2>10
<1> HIDE DEF T
<1>6. \A p \in P : p \in T
  BY <1>1, <1>4, <1>5, Interval
<1>7. QED
  BY <1>6 DEF T, P, e

\* Yandex's rows.
LEMMA YandexWeb ==
  ASSUME Asked
  PROVE  \E n \in Nat :
           /\ n <= client.limit /\ (client.limit = PageSize /\ start % PageSize = 0 => n = client.limit)
           /\ Slice("yandex", WebRows("yandex"), start, Available("yandex", start, n), 0, Tops)
           /\ Distinct(WebRows("yandex"))
<1> DEFINE e == "yandex"
           last == LastPage(e, YandexPages)
           m == (last + 1) * PageSize - start
           max == client.limit
           n == IF m <= max THEN m ELSE max
           c == Available(e, start, m)
<1>1. e \in Engines /\ start \in Nat /\ max \in Nat \ {0}
  BY DEF Engines, Asked
<1>2. last \in Pages(e)
  BY <1>1, LastPageOfPages
<1>3. m \in Nat /\ (start % PageSize = 0 => m >= PageSize)
  <2>1. /\ last \in Nat /\ last >= firstPage(start) /\ m \in Nat /\ last * PageSize \in Nat
        /\ (last + 1) * PageSize = last * PageSize + PageSize
        /\ firstPage(start) \in Nat /\ PageSize \in Nat \ {0}
    BY <1>1, <1>2, PagesFrom
  <2> DEFINE x == last * PageSize
             y == firstPage(start) * PageSize
  <2>2. y + (start % PageSize) = start /\ y \in Nat
    BY <1>1, StartPage
  <2> HIDE DEF last
  <2>3. x >= y
    BY <2>1, Products
  <2>4. start % PageSize = 0 => (last + 1) * PageSize >= start + PageSize
    <3>1. (last + 1) * PageSize = x + PageSize /\ x \in Nat /\ PageSize \in Nat
      BY <2>1
    <3> HIDE DEF x, y
    <3>2. QED
      BY <1>1, <2>2, <2>3, <3>1
  <2>5. (last + 1) * PageSize \in Nat
    BY <2>1
  <2> HIDE DEF m
  <2>6. QED
    BY <1>1, <2>1, <2>4, <2>5 DEF m
<1>4. Slice(e, YandexPages[last], start, c, 0, Tops)
  BY <1>2, YandexPagesSlice
<1> HIDE DEF last, m, e, max
<1>5. Inside(e, start, c, 0)
  <2>1. 0 = start - start
    BY <1>1
  <2>2. QED
    BY <1>1, <1>3, <2>1, AvailableInside
<1>6. (IF c <= max THEN c ELSE max) = Available(e, start, n)
  BY <1>1, <1>3, Availability
<1> HIDE DEF c
<1>7. /\ Slice(e, LimitedRows(YandexPages[last], max), start, IF c <= max THEN c ELSE max, 0, Tops)
      /\ Distinct(LimitedRows(YandexPages[last], max))
  BY <1>1, <1>4, <1>5, LimitedSlice
<1>8. WebRows(e) = LimitedRows(YandexPages[last], max)
  BY DEF WebRows, e, max, last
<1>9. n \in Nat /\ n <= max /\ (max = PageSize /\ start % PageSize = 0 => n = max)
  BY <1>1, <1>3
<1>10. QED
  BY <1>6, <1>7, <1>8, <1>9 DEF e, max

-----------------------------------------------------------------------------
(* The pages of Ecosia. *)

\* The rows of Ecosia's page p behind those of the pages before it.
EcosiaStep(before, p) == before \o ParseEcosia(EcosiaServed(p), before, startRank(start))

\* A page of Ecosia behind rows is rows.
LEMMA EcosiaStepRows ==
  ASSUME Asked, NEW before \in Seq(Row), NEW p \in Pages("ecosia")
  PROVE  EcosiaStep(before, p) \in Seq(Row)
<1>1. "ecosia" \in Engines
  BY DEF Engines
<1>2. p * PageSize \in Nat /\ PageSize \in Nat /\ startRank(start) \in Int
  <2>1. p * PageSize \in Nat /\ PageSize \in Nat
    BY <1>1, PagesFrom
  <2>2. firstPage(start) * PageSize \in Nat
    BY StartPage DEF Asked
  <2>3. QED
    BY <2>1, <2>2 DEF startRank
<1>3. EcosiaServed(p) \in Seq(Row)
  BY <1>1, <1>2, ServedTop DEF EcosiaServed
<1>4. ParseEcosia(EcosiaServed(p), before, startRank(start)) \in Seq(Row)
  BY <1>2, <1>3, EcosiaPage
<1>5. QED
  BY <1>4, ConcatProperties DEF EcosiaStep

\* What Ecosia's pages hold.
LEMMA EcosiaPagesAre ==
  ASSUME Asked
  PROVE  \A p \in Pages("ecosia") :
           EcosiaPages[p] = EcosiaStep(IF p = firstPage(start) THEN << >> ELSE EcosiaPages[p - 1], p)
<1> DEFINE S == Seq(Row)
           P == Pages("ecosia")
           lo == firstPage(start)
           hi == firstPage(start) + Len(Ranking["ecosia"])
           G == [x \in S \X (lo .. hi) |-> EcosiaStep(x[1], x[2])]
           z == EcosiaStep(<< >>, lo)
           F(f) == [p \in P |-> EcosiaStep(IF p = lo THEN << >> ELSE f[p - 1], p)]
<1>1. /\ "ecosia" \in Engines /\ P = lo .. hi /\ lo \in Int /\ hi \in Int /\ lo <= hi /\ lo \in P
      /\ \A p \in P : p # lo => p - 1 \in P /\ p \in lo + 1 .. hi
  <2>1. "ecosia" \in Engines
    BY DEF Engines
  <2>2. Len(Ranking["ecosia"]) \in Nat /\ lo \in Nat /\ P = lo .. hi
    BY <2>1, PagesFrom, Rankings
  <2>3. QED
    BY <2>1, <2>2
<1>2. \A s \in S, p \in P : EcosiaStep(s, p) \in S
  BY EcosiaStepRows
<1> HIDE DEF P, lo, hi
<1>3. z \in S /\ G \in [S \X (lo .. hi) -> S]
  <2>1. << >> \in S
    OBVIOUS
  <2> HIDE DEF S
  <2>2. \A x \in S \X (lo .. hi) : x[1] \in S /\ x[2] \in P
    BY <1>1
  <2>3. QED
    BY <1>1, <1>2, <2>1, <2>2
<1> HIDE DEF S, z, G
<1>4. PICK f : Stepping(f, lo, hi, S, z, G)
  BY <1>1, <1>3, StepsExist
<1>5. f \in [P -> S] /\ f[lo] = z /\ \A p \in lo + 1 .. hi : f[p] = G[<<f[p - 1], p>>]
  BY <1>1, <1>4 DEF Stepping
<1>6. \A p \in P : f[p] = EcosiaStep(IF p = lo THEN << >> ELSE f[p - 1], p)
  <2> SUFFICES ASSUME NEW p \in P, p # lo PROVE f[p] = EcosiaStep(f[p - 1], p)
    BY <1>5 DEF z
  <2>1. p - 1 \in P /\ p \in lo .. hi /\ p \in lo + 1 .. hi
    BY <1>1
  <2>2. <<f[p - 1], p>> \in S \X (lo .. hi) /\ f[p] = G[<<f[p - 1], p>>]
    BY <1>5, <2>1
  <2>3. QED
    BY <2>2 DEF G
<1>7. f = F(f)
  BY <1>5, <1>6
<1>8. EcosiaPages = CHOOSE g : g = F(g)
  BY DEF EcosiaPages, P, lo, EcosiaStep
<1>9. EcosiaPages = F(EcosiaPages)
  BY <1>7, <1>8
<1>10. QED
  BY <1>9 DEF P, lo

\* Rows of e that have no absolute ranks yet.
Piece(e, s, b, c) == Lists(s, Ranking[e], b, c, 0) /\ NoAnswers(s) /\ (~ ads => NoAds(s))

\* Where there are no organic rows, they are at any place.
LEMMA EmptyPiece ==
  ASSUME NEW e, NEW s, NEW b, Piece(e, s, b, 0), NEW bb \in Nat
  PROVE  Piece(e, s, bb, 0)
<1>1. b \in Nat /\ \A i \in OrganicAt(s) : s[i].rank \in b + 1 .. b + 0
  BY DEF Piece, Lists
<1>2. OrganicAt(s) = {} /\ bb + 1 .. bb + 0 = {}
  <2>1. b + 1 .. b + 0 = {} /\ bb + 1 .. bb + 0 = {}
    BY <1>1
  <2>2. QED
    BY <1>1, <2>1
<1>3. QED
  BY <1>2 DEF Piece, Lists

\* A page of Ecosia behind c rows.
LEMMA EcosiaPiece ==
  ASSUME Asked, NEW p \in Nat, p * PageSize \in Nat, NEW before \in Seq(Row), NEW o \in Nat,
         NEW b \in Nat, b = o + CountOrganicResults(before),
         Available("ecosia", p * PageSize, PageSize) # 0 => b = p * PageSize
  PROVE  Piece("ecosia", ParseEcosia(EcosiaServed(p), before, o + 1), b, Available("ecosia", p * PageSize, PageSize))
<1> DEFINE e == "ecosia"
           q == p * PageSize
           c == Available(e, q, PageSize)
           m == IF c = 0 THEN 0 ELSE Tops
           v == [k \in 1 .. c |-> Ranking[e][q + k]]
           s == EcosiaServed(p)
           t == ParseEcosia(s, before, o + 1)
<1>1. e \in Engines /\ PageSize \in Nat /\ q \in Nat
  BY AskedCountType DEF Engines
<1>2. c \in Nat /\ Top(s, m, c, v)
  BY <1>1, ServedTop DEF EcosiaServed
<1>3. \A k \in 1 .. c : v[k] = Ranking[e][b + k + 0]
  <2>1. CASE c = 0
    <3>1. 1 .. 0 = {}
      OBVIOUS
    <3> HIDE DEF v
    <3>2. QED
      BY <2>1, <3>1
  <2>2. CASE c # 0
    <3>1. b = q
      BY <2>2
    <3>2. \A k \in 1 .. c : b + k + 0 = q + k
      BY <1>1, <3>1
    <3>3. QED
      BY <3>2
  <2>3. QED
    BY <2>1, <2>2
<1>4. m \in Nat /\ (~ ads => m = 0)
  BY DEF Tops
<1>5. CountOrganicResults(before) \in Nat
  BY CountTypes
<1> HIDE DEF e, q, c, m, v, s
<1> DEFINE r == o + 1
           w == Ranking[e]
           d == 0
<1>6. r \in Int /\ b = r + CountOrganicResults(before) - 1 /\ c \in Nat
  <2>1. \A x \in Nat : o + x = (o + 1) + x - 1
    OBVIOUS
  <2>2. QED
    BY <1>2, <1>5, <2>1
<1> HIDE DEF t, r, w, d
<1>7. /\ Lists(ParseEcosia(s, before, r), w, b, c, d)
      /\ NoAnswers(ParseEcosia(s, before, r)) /\ (m = 0 => NoAds(ParseEcosia(s, before, r)))
  <2>1. Top(s, m, c, v) /\ Copies(v, c, w, b, d)
    BY <1>2, <1>3 DEF w, d, Copies
  <2>2. QED
    BY <1>6, <2>1, EcosiaLists
<1>8. Piece(e, t, b, c)
  BY <1>4, <1>7 DEF Piece, t, r, w, d
<1>9. QED
  BY <1>8 DEF e, t, c, s, q

-----------------------------------------------------------------------------
(* Ecosia's page of results. *)

\* All of Ecosia's pages up to p list what there is from the first of them to the end of p.
LEMMA EcosiaPagesPiece ==
  ASSUME Asked
  PROVE  \A p \in Pages("ecosia") :
           Piece("ecosia", EcosiaPages[p], FirstRank("ecosia"),
                 Available("ecosia", FirstRank("ecosia"), (p + 1) * PageSize - FirstRank("ecosia")))
<1> DEFINE e == "ecosia"
           P == Pages(e)
           lo == firstPage(start)
           hi == firstPage(start) + Len(Ranking[e])
           o == FirstRank(e)
           a(p) == Available(e, o, (p + 1) * PageSize - o)
           T == {p \in P : Piece(e, EcosiaPages[p], o, a(p))}
<1>1. /\ e \in Engines /\ P = lo .. hi /\ lo \in Int /\ hi \in Int /\ lo \in P /\ PageSize \in Nat /\ o \in Nat
      /\ o = lo * PageSize /\ startRank(start) = o + 1
      /\ \A p \in P : /\ p \in Nat /\ p * PageSize \in Nat /\ (p + 1) * PageSize = p * PageSize + PageSize
                      /\ p * PageSize >= o /\ (p # lo => p - 1 \in P)
  <2>1. e \in Engines /\ o = lo * PageSize /\ startRank(start) = o + 1
    BY DEF Engines, FirstRank, startRank
  <2>2. Len(Ranking[e]) \in Nat
    BY <2>1, Rankings
  <2> HIDE DEF e
  <2>3. /\ lo \in Nat /\ P = lo .. hi /\ lo \in P /\ PageSize \in Nat \ {0}
        /\ \A p \in P : /\ p \in Nat /\ p * PageSize \in Nat /\ (p + 1) * PageSize = p * PageSize + PageSize
                        /\ p >= lo /\ (p # lo => p - 1 \in P)
    BY <2>1, PagesFrom
  <2>4. lo \in Int /\ hi \in Int
    BY <2>2, <2>3
  <2> HIDE DEF P, lo, hi
  <2>5. \A p \in P : p * PageSize >= lo * PageSize
    BY <2>3, <2>4, Products
  <2>6. o \in Nat
    BY <2>1, <2>3
  <2>7. QED
    BY <2>1, <2>3, <2>4, <2>5, <2>6
<1>2. \A p \in P : EcosiaPages[p] = EcosiaStep(IF p = lo THEN << >> ELSE EcosiaPages[p - 1], p)
  BY EcosiaPagesAre
<1> HIDE DEF P, lo, hi, o
<1>3. ASSUME NEW p \in P, NEW before, before = IF p = lo THEN << >> ELSE EcosiaPages[p - 1], p # lo => p - 1 \in T
      PROVE  p \in T
  <2> DEFINE b == p * PageSize
             n == b - o
             c == Available(e, o, n)
             cc == Available(e, b, PageSize)
             s == ParseEcosia(EcosiaServed(p), before, o + 1)
  <2>1. b \in Nat /\ n \in Nat /\ (p + 1) * PageSize = b + PageSize /\ o + n = b /\ (p + 1) * PageSize - o = n + PageSize
    BY <1>1
  <2>2. Piece(e, before, o, c)
    <3>1. CASE p = lo
      <4>1. before = << >> /\ n = 0
        BY <1>1, <1>3, <3>1
      <4>2. << >> \in Seq(Row) /\ DOMAIN << >> = {}
        OBVIOUS
      <4> HIDE DEF n
      <4>3. c = 0
        <5>1. Len(Ranking[e]) \in Nat
          BY <1>1, Rankings
        <5>2. QED
          BY <1>1, <4>1, <5>1 DEF Available
      <4>4. o + 1 .. o + 0 = {} /\ OrganicAt(<< >>) = {}
        BY <1>1, <4>2 DEF OrganicAt
      <4> HIDE DEF c, e
      <4>5. Lists(<< >>, Ranking[e], o, 0, 0)
        BY <1>1, <4>2, <4>4 DEF Lists
      <4>6. QED
        BY <4>1, <4>2, <4>3, <4>5 DEF Piece, NoAnswers, NoAds
    <3>2. CASE p # lo
      <4>1. p - 1 \in P /\ (p - 1) + 1 = p
        BY <1>1, <3>2
      <4>2. Piece(e, EcosiaPages[p - 1], o, Available(e, o, ((p - 1) + 1) * PageSize - o))
        BY <1>3, <3>2
      <4>3. QED
        BY <1>3, <3>2, <4>1, <4>2
    <3>3. QED
      BY <3>1, <3>2
  <2>3. CountOrganicResults(before) = c /\ before \in Seq(Row)
    <3> HIDE DEF c
    <3>1. Lists(before, Ranking[e], o, c, 0) /\ NoAnswers(before)
      BY <2>2 DEF Piece
    <3>2. before \in Seq(Row)
      BY <3>1 DEF Lists
    <3>3. QED
      BY <3>1, <3>2, CountIsRank
  <2>4. c \in Nat /\ cc \in Nat /\ c + cc = Available(e, o, n + PageSize) /\ (cc # 0 => b = o + c)
    <3> HIDE DEF b, n, c, cc, T
    <3>1. /\ Available(e, o, n) \in Nat /\ Available(e, o + n, PageSize) \in Nat
          /\ Available(e, o, n) + Available(e, o + n, PageSize) = Available(e, o, n + PageSize)
          /\ Available(e, o + n, PageSize) # 0 => o + n = o + Available(e, o, n)
      <4>1. e \in Engines /\ o \in Nat /\ n \in Nat /\ PageSize \in Nat
        BY <1>1, <2>1
      <4> HIDE DEF a, s, e
      <4>2. QED
        BY <4>1, NothingThere
    <3>2. QED
      BY <2>1, <3>1 DEF c, cc
  <2>5. Piece(e, s, o + c, cc)
    <3>1. o + c \in Nat /\ o + c = o + CountOrganicResults(before) /\ p \in Nat
      <4> HIDE DEF c, T, n, b
      <4>1. QED
        <5>1. p \in Nat /\ o \in Nat
          BY <1>1
        <5>2. QED
          BY <2>3, <2>4, <5>1
    <3>2. Available("ecosia", p * PageSize, PageSize) # 0 => o + c = p * PageSize
      BY <2>4
    <3> HIDE DEF c, T, n
    <3>3. QED
      BY <1>1, <2>1, <2>3, <3>1, <3>2, EcosiaPiece
  <2>6. EcosiaPages[p] = before \o s
    BY <1>1, <1>2, <1>3 DEF EcosiaStep
  <2> HIDE DEF s, c, cc
  <2>7. Piece(e, before \o s, o, c + cc)
    <3>1. Lists(before, Ranking[e], o, c, 0) /\ Lists(s, Ranking[e], o + c, cc, 0)
      BY <2>2, <2>5 DEF Piece
    <3>2. /\ Lists(before \o s, Ranking[e], o, c + cc, 0)
          /\ NoAnswers(before) /\ NoAnswers(s) => NoAnswers(before \o s)
          /\ NoAds(before) /\ NoAds(s) => NoAds(before \o s)
      BY <3>1, ConcatLists
    <3>3. QED
      BY <2>2, <2>5, <3>2 DEF Piece
  <2>8. Piece(e, EcosiaPages[p], o, a(p))
    BY <2>1, <2>4, <2>6, <2>7
  <2>9. QED
    BY <2>8
<1>4. lo \in T
  <2> DEFINE before == << >>
  <2>1. before = IF lo = lo THEN << >> ELSE EcosiaPages[lo - 1]
    OBVIOUS
  <2> HIDE DEF before, T
  <2>2. QED
    BY <1>1, <1>3, <2>1
<1>5. \A p \in lo + 1 .. hi : p - 1 \in T => p \in T
  <2> SUFFICES ASSUME NEW p \in lo + 1 .. hi, p - 1 \in T PROVE p \in T
    OBVIOUS
  <2>1. p \in P
    BY <1>1
  <2> HIDE DEF T
  <2>2. QED
    BY <1>3, <2>1
<1> HIDE DEF T
<1>6. \A p \in P : p \in T
  BY <1>1, <1>4, <1>5, Interval
<1>7. QED
  BY <1>6 DEF T, P, e, o

\* Ecosia's rows: whole pages, and absolute ranks behind the start.
LEMMA EcosiaWeb ==
  ASSUME Asked
  PROVE  \E n \in Nat :
           /\ n <= client.limit /\ (client.limit = PageSize => n = client.limit)
           /\ \E g \in Int :
                /\ Slice("ecosia", WebRows("ecosia"), FirstRank("ecosia"),
                         Available("ecosia", FirstRank("ecosia"), n), 0, g)
                /\ ~ ads => g = start - FirstRank("ecosia")
           /\ Distinct(WebRows("ecosia"))
<1> DEFINE e == "ecosia"
           last == LastPage(e, EcosiaPages)
           o == FirstRank(e)
           m == (last + 1) * PageSize - o
           max == client.limit
           n == IF m <= max THEN m ELSE max
           c == Available(e, o, m)
           s == EcosiaPages[last]
           t == SetSeparatedAdAbsoluteRanks(s, start)
<1>1. e \in Engines /\ start \in Nat /\ max \in Nat \ {0}
  BY DEF Engines, Asked
<1>2. last \in Pages(e)
  BY <1>1, LastPageOfPages
<1>3. m \in Nat /\ m >= PageSize /\ o \in Nat
  <2> DEFINE x == last * PageSize
             y == firstPage(start) * PageSize
  <2>1. /\ last \in Nat /\ last >= firstPage(start) /\ x \in Nat
        /\ (last + 1) * PageSize = x + PageSize
        /\ firstPage(start) \in Nat /\ PageSize \in Nat \ {0}
    BY <1>1, <1>2, PagesFrom
  <2>2. y \in Nat /\ o = y
    BY <1>1, StartPage DEF FirstRank
  <2> HIDE DEF last
  <2>3. x >= y
    BY <2>1, Products
  <2> HIDE DEF x, y, o
  <2>4. QED
    BY <2>1, <2>2, <2>3
<1>4. Piece(e, s, o, c)
  BY <1>2, EcosiaPagesPiece
<1> HIDE DEF last, m, e, max, o, s
<1>5. 0 \in Int /\ Lists(s, Ranking[e], o, c, 0) /\ NoAnswers(s) /\ (~ ads => NoAds(s))
  BY <1>4 DEF Piece
<1>6. PICK g \in Int : Slice(e, t, o, c, 0, g) /\ (~ ads => g = start - o)
  <2> HIDE DEF c, t, n
  <2>1. /\ Slice(e, SetSeparatedAdAbsoluteRanks(s, start), o, c, 0, start + Ads(s, Len(s)) - o)
        /\ Ads(s, Len(s)) \in Nat /\ (~ ads => Ads(s, Len(s)) = 0)
    BY <1>1, <1>5, SeparatedSlice
  <2>2. start + Ads(s, Len(s)) - o \in Int /\ (~ ads => start + Ads(s, Len(s)) - o = start - o)
    BY <1>1, <1>3, <2>1
  <2>3. QED
    BY <2>1, <2>2 DEF t
<1>7. Inside(e, o, c, 0)
  <2>1. 0 = o - o
    BY <1>3
  <2>2. QED
    BY <1>1, <1>3, <2>1, AvailableInside
<1>8. (IF c <= max THEN c ELSE max) = Available(e, o, n)
  BY <1>1, <1>3, Availability
<1> HIDE DEF c, t
<1>9. /\ Slice(e, LimitedRows(t, max), o, IF c <= max THEN c ELSE max, 0, g)
      /\ Distinct(LimitedRows(t, max))
  BY <1>1, <1>6, <1>7, LimitedSlice
<1>10. WebRows(e) = LimitedRows(t, max)
  BY DEF WebRows, e, max, last, t, s, EcosiaRows
<1>11. n \in Nat /\ n <= max /\ (max = PageSize => n = max)
  BY <1>1, <1>3
<1>12. Slice(e, WebRows(e), o, Available(e, o, n), 0, g)
  BY <1>8, <1>9, <1>10
<1>13. QED
  BY <1>6, <1>9, <1>10, <1>11, <1>12 DEF e, max, o

-----------------------------------------------------------------------------
(* The raw searches, which read one document. *)

\* The document of Google holds the rows from the start on that were asked for.
LEMMA RawGoogleSlice ==
  ASSUME Asked
  PROVE  Slice("google", RawGoogle(GoogleServed, start), start, Available("google", start, AskedCount), 0, Tops)
<1> DEFINE e == "google"
           c == Available(e, start, AskedCount)
           s == DeduplicateResults(ParsePage(GoogleServed, 0, 1))
<1>1. start \in Nat /\ AskedCount \in Nat /\ e \in Engines /\ Tops \in Int
  BY AskedCountType DEF Asked, Engines
<1>2. Slice(e, s, 0, c, start, Tops)
  BY <1>1, NumberedPage DEF GoogleServed
<1> HIDE DEF s, c, e
<1>3. Slice(e, Offset(Rebased(s, start), start), start, c, 0, Tops)
  BY <1>1, <1>2, OffsetPage
<1>4. Slice(e, IF start > 0 THEN Offset(Rebased(s, start), start) ELSE s, start, c, 0, Tops)
  <2>1. CASE start > 0
    BY <1>3, <2>1
  <2>2. CASE ~ (start > 0)
    <3>1. start = 0
      BY <1>1, <2>2
    <3>2. QED
      BY <1>2, <2>2, <3>1
  <2>3. QED
    BY <2>1, <2>2
<1>5. QED
  BY <1>4 DEF RawGoogle, e, c, s

\* The document of Baidu holds the rows from the start on that were asked for.
LEMMA RawBaiduSlice ==
  ASSUME Asked
  PROVE  Slice("baidu", RawBaidu(BaiduServed, start), start, Available("baidu", start, AskedCount), 0, Tops)
<1> DEFINE e == "baidu"
           c == Available(e, start, AskedCount)
           r == DeduplicateResults(ParsePage(BaiduServed, 0, 1))
           t == ParseBaidu(BaiduServed)
           w == BaiduRows(t, start)
           x == IF start > 0 THEN w ELSE t
<1>1. start \in Nat /\ AskedCount \in Nat /\ e \in Engines /\ Tops \in Int
  BY AskedCountType DEF Asked, Engines
<1>2. Slice(e, w, start, c, 0, Tops)
  BY BaiduWeb
<1>3. Slice(e, r, 0, c, start, Tops)
  BY <1>1, NumberedPage DEF BaiduServed
<1>4. t = Rebased(r, 0)
  BY DEF ParseBaidu
<1>5. start + 0 - 0 = start /\ Tops + 0 - 0 = Tops /\ 0 = start - start
  BY <1>1
<1> HIDE DEF r, c, e, t, w
<1>6. Slice(e, Rebased(r, 0), 0, c, start + 0 - 0, Tops + 0 - 0)
  BY <1>3, RebasedSlice
<1>7. Slice(e, x, start, c, 0, Tops)
  <2>1. CASE start > 0
    BY <1>2, <2>1
  <2>2. CASE ~ (start > 0)
    <3>1. start = 0
      BY <1>1, <2>2
    <3>2. QED
      BY <1>4, <1>5, <1>6, <2>2, <3>1
  <2>3. QED
    BY <2>1, <2>2
<1>8. Inside(e, start, c, 0)
  BY <1>1, <1>5, AvailableInside DEF c
<1> HIDE DEF x
<1>9. Slice(e, DeduplicateResults(x), start, c, 0, Tops)
  BY <1>1, <1>7, <1>8, DedupSlice
<1>10. QED
  BY <1>9 DEF RawBaidu, e, c, x, w, t

\* The document of Yandex is the rest of the page that the start is on.
LEMMA RawYandexSlice ==
  ASSUME Asked
  PROVE  Slice("yandex", RawYandex(YandexServed(firstPage(start)), start), start,
               Available("yandex", start, PageSize - (start % PageSize)), 0, Tops)
<1> DEFINE e == "yandex"
           f == firstPage(start) * PageSize
           k == ComputePagination(start).skip
           c == Available(e, f, PageSize)
           cc == Available(e, start, PageSize - k)
           r == DeduplicateResults(ParsePage(YandexServed(firstPage(start)), 0, 1))
           t == skipOrganicResults(r, k)
           x == IF start > 0 THEN Rebased(t, start) ELSE t
<1>1. /\ start \in Nat /\ e \in Engines /\ Tops \in Int /\ PageSize \in Nat /\ f \in Nat /\ k \in Nat
      /\ k \in 0 .. PageSize /\ f + k = start /\ k = start % PageSize
  <2>1. start \in Nat /\ e \in Engines /\ Tops \in Int
    BY AskedCountType DEF Asked, Engines
  <2>2. /\ f \in Nat /\ k \in 0 .. PageSize - 1 /\ f + k = start /\ k = start % PageSize /\ PageSize \in Nat \ {0}
    BY <2>1, StartPage
  <2> HIDE DEF f, k
  <2>3. QED
    BY <2>1, <2>2
<1>2. Slice(e, r, 0, c, f, Tops)
  BY <1>1, NumberedPage DEF YandexServed
<1> HIDE DEF r, e, f, k
<1>3. (IF c <= k THEN 0 ELSE c - k) = cc
  <2> HIDE DEF c, cc, t, x
  <2>1. \A i \in 0 .. PageSize : (IF Available(e, f, PageSize) <= i THEN 0 ELSE Available(e, f, PageSize) - i)
                                   = Available(e, f + i, PageSize - i)
    BY <1>1, Availability
  <2>2. QED
    BY <1>1, <2>1 DEF c, cc
<1> HIDE DEF c, cc
<1>4. Slice(e, t, 0 + k, IF c <= k THEN 0 ELSE c - k, f, Tops)
  BY <1>1, <1>2, SkipSlice
<1>5. 0 + k = k /\ f + k - start = 0 /\ Tops + k - start + f = Tops
  BY <1>1
<1>6. Slice(e, t, k, cc, f, Tops)
  BY <1>3, <1>4, <1>5
<1> HIDE DEF t
<1>7. Slice(e, Rebased(t, start), start, cc, f + k - start, Tops + k - start)
  BY <1>1, <1>6, RebasedSlice
<1>8. Slice(e, x, start, cc, 0, Tops + k - start)
  <2>1. CASE start > 0
    BY <1>5, <1>7, <2>1
  <2>2. CASE ~ (start > 0)
    <3>1. start = 0 /\ k = 0 /\ f = 0 /\ Tops + k - start = Tops
      BY <1>1, <2>2
    <3>2. QED
      BY <1>6, <2>2, <3>1
  <2>3. QED
    BY <2>1, <2>2
<1> HIDE DEF x
<1>9. Slice(e, Offset(x, f), start, cc, 0, Tops + k - start + f)
  BY <1>1, <1>8, OffsetSlice
<1>10. QED
  BY <1>1, <1>5, <1>9 DEF RawYandex, e, f, cc, x, t, k, r

\* The document of Ecosia is the whole page that the start is on; only ads move
\* its absolute ranks.
LEMMA RawEcosiaSlice ==
  ASSUME Asked
  PROVE  \E g \in Int :
           /\ Slice("ecosia", RawEcosia(EcosiaServed(firstPage(start)), start), FirstRank("ecosia"),
                    Available("ecosia", FirstRank("ecosia"), PageSize), 0, g)
           /\ ~ ads => g = 0
<1> DEFINE e == "ecosia"
           o == FirstRank(e)
           c == Available(e, o, PageSize)
           none == << >>
           served == EcosiaServed(firstPage(start))
           m == IF c = 0 THEN 0 ELSE Tops
           v == [i \in 1 .. c |-> Ranking[e][o + i]]
           s == ParseEcosia(served, none, 1)
           t == SetSeparatedAdAbsoluteRanks(s, 0)
           w == DeduplicateResults(t)
           x == Rebased(w, o)
           y == SetSeparatedAdAbsoluteRanks(x, o)
<1>1. /\ start \in Nat /\ e \in Engines /\ Tops \in Nat /\ (~ ads => Tops = 0) /\ PageSize \in Nat
      /\ o = firstPage(start) * PageSize /\ o \in Nat
  <2>1. start \in Nat /\ e \in Engines /\ Tops \in Nat /\ (~ ads => Tops = 0) /\ PageSize \in Nat
        /\ o = firstPage(start) * PageSize
    BY AskedCountType DEF Asked, Engines, FirstRank
  <2>2. QED
    BY <2>1, StartPage
<1>2. served = Served(e, o, PageSize)
  BY <1>1 DEF EcosiaServed
<1>3. startRank(start) - 1 = o
  <2> HIDE DEF o
  <2> QED
    BY <1>1 DEF startRank
<1> HIDE DEF e, o, served
<1>4. c \in Nat /\ Top(served, m, c, v)
  BY <1>1, <1>2, ServedTop
<1>5. m \in Nat /\ (~ ads => m = 0)
  BY <1>1
<1>6. \A i \in 1 .. c : v[i] = Ranking[e][0 + i + o]
  <2>1. \A i \in Int : 0 + i + o = o + i
    BY <1>1
  <2>2. QED
    BY <2>1
<1>7. none \in Seq(Row) /\ 0 \in Nat /\ 1 \in Int /\ 0 = 1 + CountOrganicResults(none) - 1
  <2>1. none \in Seq(Row) /\ Len(none) = 0
    OBVIOUS
  <2>2. {j \in 1 .. 0 : ~ none[j].ad} = {}
    OBVIOUS
  <2>3. CountOrganicResults(none) = 0
    BY <2>1, <2>2, FS_EmptySet DEF CountOrganicResults, Organics
  <2>4. QED
    BY <2>1, <2>3
<1> HIDE DEF c, m, v, none
<1>8. /\ Lists(ParseEcosia(served, none, 1), Ranking[e], 0, c, o) /\ NoAnswers(ParseEcosia(served, none, 1))
      /\ (m = 0 => NoAds(ParseEcosia(served, none, 1)))
  <2> HIDE DEF s
  <2>1. Copies(v, c, Ranking[e], 0, o)
    BY <1>6 DEF Copies
  <2>2. QED
    BY <1>4, <1>7, <2>1, EcosiaLists
<1>9. Lists(s, Ranking[e], 0, c, o) /\ NoAnswers(s) /\ (~ ads => NoAds(s))
  BY <1>5, <1>8
<1> HIDE DEF s
<1>10. /\ Slice(e, t, 0, c, o, 0 + Ads(s, Len(s)) - 0) /\ Ads(s, Len(s)) \in Nat
  <2>1. o \in Int
    BY <1>1
  <2> HIDE DEF t
  <2>2. Slice(e, SetSeparatedAdAbsoluteRanks(s, 0), 0, c, o, 0 + Ads(s, Len(s)) - 0) /\ Ads(s, Len(s)) \in Nat
    BY <1>7, <1>9, <2>1, SeparatedSlice
  <2>3. QED
    BY <2>2 DEF t
<1>11. Inside(e, 0, c, o)
  <2>1. o = o - 0
    BY <1>1
  <2>2. QED
    BY <1>1, <1>7, <2>1, AvailableInside DEF c
<1> HIDE DEF t
<1>12. Slice(e, w, 0, c, o, 0 + Ads(s, Len(s)) - 0)
  BY <1>1, <1>10, <1>11, DedupSlice
<1> HIDE DEF w
<1>13. Slice(e, x, o, c, o + 0 - o, 0 + Ads(s, Len(s)) - 0 + 0 - o)
  BY <1>1, <1>12, RebasedSlice
<1>14. o + 0 - o = 0 /\ 0 = o - o
  BY <1>1
<1>15. Lists(x, Ranking[e], o, c, 0) /\ NoAnswers(x) /\ (~ ads => NoAds(x))
  BY <1>13, <1>14 DEF Slice
<1> HIDE DEF x
<1>16. /\ Slice(e, y, o, c, 0, o + Ads(x, Len(x)) - o)
       /\ Ads(x, Len(x)) \in Nat /\ (~ ads => Ads(x, Len(x)) = 0)
  <2>1. 0 \in Int
    OBVIOUS
  <2> HIDE DEF y
  <2>2. /\ Slice(e, SetSeparatedAdAbsoluteRanks(x, o), o, c, 0, o + Ads(x, Len(x)) - o)
        /\ Ads(x, Len(x)) \in Nat /\ (~ ads => Ads(x, Len(x)) = 0)
    BY <1>1, <1>15, <2>1, SeparatedSlice
  <2>3. QED
    BY <2>2 DEF y
<1>17. Inside(e, o, c, 0)
  BY <1>1, <1>14, AvailableInside DEF c
<1> HIDE DEF y
<1>18. Slice(e, DeduplicateResults(y), o, c, 0, o + Ads(x, Len(x)) - o)
  BY <1>1, <1>16, <1>17, DedupSlice
<1>19. o + Ads(x, Len(x)) - o \in Int /\ (~ ads => o + Ads(x, Len(x)) - o = 0)
  BY <1>1, <1>16
<1>20. RawEcosia(served, start) = DeduplicateResults(y)
  BY <1>1, <1>3 DEF RawEcosia, y, x, w, t, s, none
<1>21. QED
  BY <1>18, <1>19, <1>20 DEF e, c, o, served

-----------------------------------------------------------------------------
(* Every engine, by either way of asking. *)

\* The limits for which a page is no longer than the limit, or exactly as long.
Within(e, n, alike) ==
  /\ client.limit >= PageSize \/ (alike /\ e \notin {"google", "baidu"}) => n <= client.limit
  /\ alike /\ e = "google" /\ (client.limit = PageSize \/ (client.limit > PageSize /\ obeys)) => n = client.limit
  /\ client.limit = PageSize /\ start % PageSize = 0 => n = client.limit

\* The rows of a page of e are the next n of its ranking.
LEMMA WebPage ==
  ASSUME Asked, NEW e \in Engines
  PROVE  \E n \in Nat : /\ Fetches(e, WebRows(e), n) /\ Distinct(WebRows(e)) /\ Within(e, n, TRUE)
                        /\ e # "google" => NoAnswers(WebRows(e))
<1>1. /\ AskedCount \in Nat \ {0} /\ PageSize \in Nat \ {0} /\ client.limit \in Nat \ {0} /\ start \in Nat
      /\ (~ ads => Tops = 0)
      /\ AskedCount = IF client.limit > PageSize /\ obeys THEN client.limit ELSE PageSize
  BY AskedCountType DEF Asked, AskedCount
<1> DEFINE s == WebRows(e)
           Is(n, g) == /\ Slice(e, s, FirstRank(e), Available(e, FirstRank(e), n), 0, g) /\ Distinct(s)
                       /\ ~ ads /\ FirstRank(e) = start => g = 0
           Holds(n) == Fetches(e, s, n) /\ Distinct(s) /\ Within(e, n, TRUE) /\ (e # "google" => NoAnswers(s))
<1>2. ASSUME NEW n \in Nat, NEW g, Is(n, g), Within(e, n, TRUE) PROVE Holds(n)
  <2> HIDE DEF s
  <2>1. Fetches(e, s, n) /\ NoAnswers(s)
    BY <1>2, FetchedSlice
  <2>2. QED
    BY <1>2, <2>1
<1>3. CASE e = "google"
  <2> DEFINE urls == IF start = 0 THEN Answered ELSE << >>
  <2>1. urls \in Seq(Int \X Int)
    <3>1. Answered \in Seq(Int \X Int) /\ << >> \in Seq(Int \X Int)
      BY PagedAssumption
    <3>2. QED
      BY <3>1
  <2>2. s = DeduplicateResults(ParseGoogle(GoogleServed, urls, start))
    BY <1>3 DEF WebRows
  <2> HIDE DEF urls, s
  <2>3. Fetches("google", s, AskedCount) /\ Distinct(s)
    BY <2>1, <2>2, GooglePage
  <2>4. Within(e, AskedCount, TRUE)
    BY <1>1, <1>3 DEF Within
  <2>5. Fetches(e, s, AskedCount) /\ Distinct(s) /\ Within(e, AskedCount, TRUE) /\ (e # "google" => NoAnswers(s))
    BY <1>3, <2>3, <2>4
  <2> HIDE DEF Is, Holds
  <2>6. QED
    BY <1>1, <2>5 DEF s
<1>4. CASE e = "bing"
  <2>1. PICK n \in Nat : /\ n <= client.limit /\ (client.limit = PageSize => n = client.limit)
                         /\ Slice("bing", WebRows("bing"), start, Available("bing", start, n), 0, Tops)
                         /\ Distinct(WebRows("bing"))
    BY BingWeb
  <2>2. Is(n, Tops) /\ Within(e, n, TRUE)
    BY <1>1, <1>4, <2>1 DEF FirstRank, Within
  <2> HIDE DEF Holds, Is
  <2>3. QED
    BY <1>2, <2>2 DEF Holds
<1>5. CASE e = "baidu"
  <2>1. s = BaiduRows(ParseBaidu(BaiduServed), start)
    BY <1>5 DEF WebRows
  <2>2. Slice(e, s, start, Available(e, start, AskedCount), 0, Tops) /\ Distinct(s)
    BY <1>5, <2>1, BaiduWeb
  <2> HIDE DEF s
  <2>3. Is(AskedCount, Tops) /\ Within(e, AskedCount, TRUE)
    BY <1>1, <1>5, <2>2 DEF FirstRank, Within
  <2> HIDE DEF Holds, Is
  <2>4. QED
    BY <1>1, <1>2, <2>3 DEF Holds, s
<1>6. CASE e = "duckduckgo"
  <2>1. /\ Slice("duckduckgo", WebRows("duckduckgo"), start, Available("duckduckgo", start, client.limit), 0, Tops)
        /\ Distinct(WebRows("duckduckgo"))
    BY DDGWeb
  <2>2. Is(client.limit, Tops) /\ Within(e, client.limit, TRUE)
    BY <1>1, <1>6, <2>1 DEF FirstRank, Within
  <2> HIDE DEF Holds, Is
  <2>3. QED
    BY <1>1, <1>2, <2>2 DEF Holds
<1>7. CASE e = "yandex"
  <2>1. PICK n \in Nat :
           /\ n <= client.limit /\ (client.limit = PageSize /\ start % PageSize = 0 => n = client.limit)
           /\ Slice("yandex", WebRows("yandex"), start, Available("yandex", start, n), 0, Tops)
           /\ Distinct(WebRows("yandex"))
    BY YandexWeb
  <2>2. Is(n, Tops) /\ Within(e, n, TRUE)
    BY <1>1, <1>7, <2>1 DEF FirstRank, Within
  <2> HIDE DEF Holds, Is
  <2>3. QED
    BY <1>2, <2>2 DEF Holds
<1>8. CASE e = "ecosia"
  <2>1. PICK n \in Nat :
           /\ n <= client.limit /\ (client.limit = PageSize => n = client.limit)
           /\ \E g \in Int :
                /\ Slice("ecosia", WebRows("ecosia"), FirstRank("ecosia"),
                         Available("ecosia", FirstRank("ecosia"), n), 0, g)
                /\ ~ ads => g = start - FirstRank("ecosia")
           /\ Distinct(WebRows("ecosia"))
    BY EcosiaWeb
  <2>2. PICK g \in Int : /\ Slice("ecosia", WebRows("ecosia"), FirstRank("ecosia"),
                                  Available("ecosia", FirstRank("ecosia"), n), 0, g)
                         /\ ~ ads => g = start - FirstRank("ecosia")
    BY <2>1
  <2>3. ~ ads /\ FirstRank(e) = start => g = 0
    BY <1>1, <1>8, <2>2
  <2>4. Is(n, g) /\ Within(e, n, TRUE)
    BY <1>1, <1>8, <2>1, <2>2, <2>3 DEF Within
  <2> HIDE DEF Holds, Is
  <2>5. QED
    BY <1>2, <2>4 DEF Holds
<1>9. QED
  BY <1>3, <1>4, <1>5, <1>6, <1>7, <1>8 DEF Engines

\* So are those of a document.
LEMMA DocumentPage ==
  ASSUME Asked, NEW e \in RawEngines
  PROVE  \E n \in Nat : /\ Fetches(e, DocumentRows(e), n) /\ Within(e, n, FALSE)
                        /\ NoAnswers(DocumentRows(e)) /\ (~ ads => Apart(DocumentRows(e), 0))
<1>1. /\ AskedCount \in Nat \ {0} /\ PageSize \in Nat \ {0} /\ client.limit \in Nat \ {0} /\ start \in Nat
      /\ (~ ads => Tops = 0) /\ e \in Engines
      /\ AskedCount = IF client.limit > PageSize /\ obeys THEN client.limit ELSE PageSize
  BY AskedCountType DEF Asked, AskedCount, Engines, RawEngines
<1> DEFINE s == DocumentRows(e)
           Is(n, g) == Slice(e, s, FirstRank(e), Available(e, FirstRank(e), n), 0, g) /\ (~ ads => g = 0)
           Holds(n) == Fetches(e, s, n) /\ Within(e, n, FALSE) /\ NoAnswers(s) /\ (~ ads => Apart(s, 0))
<1>2. ASSUME NEW n \in Nat, NEW g, Is(n, g), Within(e, n, FALSE) PROVE Holds(n)
  <2> HIDE DEF s
  <2>1. Fetches(e, s, n) /\ NoAnswers(s)
    BY <1>1, <1>2, FetchedSlice
  <2>2. ~ ads => Apart(s, 0)
    BY <1>2 DEF Slice
  <2>3. QED
    BY <1>2, <2>1, <2>2
<1>3. CASE e = "google"
  <2>1. Is(AskedCount, Tops) /\ Within(e, AskedCount, FALSE)
    BY <1>1, <1>3, RawGoogleSlice DEF FirstRank, Within, DocumentRows
  <2> HIDE DEF Holds, Is
  <2>2. QED
    BY <1>1, <1>2, <2>1 DEF Holds
<1>4. CASE e = "baidu"
  <2>1. s = RawBaidu(BaiduServed, start)
    BY <1>4 DEF DocumentRows
  <2>2. Is(AskedCount, Tops) /\ Within(e, AskedCount, FALSE)
    BY <1>1, <1>4, <2>1, RawBaiduSlice DEF FirstRank, Within
  <2> HIDE DEF Holds, Is
  <2>3. QED
    BY <1>1, <1>2, <2>2 DEF Holds
<1>5. CASE e = "yandex"
  <2> DEFINE n == PageSize - (start % PageSize)
  <2>1. n \in Nat /\ n <= PageSize /\ (start % PageSize = 0 => n = PageSize)
    <3>1. start % PageSize \in 0 .. PageSize - 1
      BY <1>1
    <3>2. QED
      BY <1>1, <3>1
  <2>2. s = RawYandex(YandexServed(firstPage(start)), start)
    BY <1>5 DEF DocumentRows
  <2>3. Slice("yandex", s, start, Available("yandex", start, n), 0, Tops)
    BY <2>2, RawYandexSlice
  <2> HIDE DEF s, n
  <2>4. Is(n, Tops) /\ Within(e, n, FALSE)
    BY <1>1, <1>5, <2>1, <2>3 DEF FirstRank, Within
  <2> HIDE DEF Holds, Is
  <2>5. QED
    BY <1>2, <2>1, <2>4 DEF Holds, s
<1>6. CASE e = "ecosia"
  <2>1. s = RawEcosia(EcosiaServed(firstPage(start)), start)
    BY <1>6 DEF DocumentRows
  <2>2. PICK g \in Int : /\ Slice("ecosia", s, FirstRank("ecosia"), Available("ecosia", FirstRank("ecosia"), PageSize), 0, g)
                         /\ ~ ads => g = 0
    BY <2>1, RawEcosiaSlice
  <2> HIDE DEF s
  <2>3. Is(PageSize, g) /\ Within(e, PageSize, FALSE)
    BY <1>1, <1>6, <2>2 DEF Within
  <2> HIDE DEF Holds, Is
  <2>4. QED
    BY <1>1, <1>2, <2>3 DEF Holds, s
<1>7. QED
  BY <1>3, <1>4, <1>5, <1>6 DEF RawEngines

-----------------------------------------------------------------------------
(* The ranks of ads. *)

\* Ads have ranks of their own, counted from 1.
AdsCounted(s) == s \in Seq(Row) /\ \A i \in DOMAIN s : s[i].ad => s[i].rank > 0

\* Some of the rows have no other ads.
LEMMA FromCounted ==
  ASSUME NEW s, AdsCounted(s), NEW t, From(s, t)
  PROVE  AdsCounted(t)
BY DEF AdsCounted, From

\* Parsers number the ads of a page from 1.
LEMMA RankedCounted ==
  ASSUME NEW s \in Seq(Row), NEW a \in Int, NEW b \in Int
  PROVE  AdsCounted(Ranked(s, b, a))
<1> DEFINE t == Ranked(s, b, a)
<1>1. t \in Seq(Row) /\ Len(t) = Len(s) /\ DOMAIN t = DOMAIN s
  BY RankedRows DEF Ranked
<1>2. ASSUME NEW i \in DOMAIN s, s[i].ad PROVE Ads(s, i) \in Nat /\ Ads(s, i) > 0
  <2>1. i \in Nat /\ i \in 1 .. i
    OBVIOUS
  <2>2. i \in {j \in 1 .. i : s[j].ad}
    BY <1>2, <2>1
  <2>3. IsFiniteSet(1 .. i)
    BY <2>1, FS_Interval
  <2>4. IsFiniteSet({j \in 1 .. i : s[j].ad})
    BY <2>3, FS_Subset
  <2>5. Cardinality({j \in 1 .. i : s[j].ad}) \in Nat /\ Cardinality({j \in 1 .. i : s[j].ad}) # 0
    BY <2>2, <2>4, FS_CardinalityType, FS_EmptySet
  <2>6. QED
    BY <2>5 DEF Ads
<1>3. \A i \in DOMAIN s : t[i].ad = s[i].ad /\ (s[i].ad => t[i].rank = Ads(s, i))
  <2> SUFFICES ASSUME NEW i \in DOMAIN s PROVE t[i].ad = s[i].ad /\ (s[i].ad => t[i].rank = Ads(s, i))
    OBVIOUS
  <2>1. s[i] \in Row
    OBVIOUS
  <2>2. t[i] = [s[i] EXCEPT !.rank = IF s[i].ad THEN Ads(s, i) ELSE b + Organics(s, i), !.abs = a + i - 1]
    BY DEF Ranked
  <2>3. QED
    BY <2>1, <2>2 DEF Row
<1> HIDE DEF t
<1>4. QED
  BY <1>1, <1>2, <1>3 DEF AdsCounted, t

\* Numbering the other ranks leaves those of the ads.
LEMMA RenumberedCounted ==
  ASSUME NEW s, AdsCounted(s), NEW o \in Int
  PROVE  AdsCounted(Rebased(s, o)) /\ AdsCounted(Offset(s, o)) /\ AdsCounted(SetSeparatedAdAbsoluteRanks(s, o))
<1>1. s \in Seq(Row) /\ \A i \in DOMAIN s : s[i].ad => s[i].rank > 0
  BY DEF AdsCounted
<1>2. \A i \in DOMAIN s : s[i] \in Row
  BY <1>1

<1>4. AdsCounted(Rebased(s, o))
  <2>1. Rebased(s, o) \in Seq(Row) /\ DOMAIN Rebased(s, o) = DOMAIN s
    BY <1>1, RebasedRows DEF Rebased
  <2>2. \A i \in DOMAIN s : Rebased(s, o)[i] = IF s[i].ad THEN s[i] ELSE [s[i] EXCEPT !.rank = o + Organics(s, i)]
    BY DEF Rebased
  <2>3. ASSUME NEW i \in DOMAIN s PROVE Rebased(s, o)[i].ad => Rebased(s, o)[i].rank > 0
    <3>1. [s[i] EXCEPT !.rank = o + Organics(s, i)].ad = s[i].ad
      BY <1>2 DEF Row
    <3>2. QED
      BY <1>1, <2>2, <3>1
  <2>4. QED
    BY <2>1, <2>3 DEF AdsCounted
<1>5. AdsCounted(Offset(s, o))
  <2>1. Offset(s, o) \in Seq(Row) /\ DOMAIN Offset(s, o) = DOMAIN s
    BY <1>1, RebasedRows DEF Offset
  <2>2. \A i \in DOMAIN s : Offset(s, o)[i] = IF s[i].abs > 0 THEN [s[i] EXCEPT !.abs = s[i].abs + o] ELSE s[i]
    BY DEF Offset
  <2>3. ASSUME NEW i \in DOMAIN s PROVE Offset(s, o)[i].ad => Offset(s, o)[i].rank > 0
    <3>1. /\ [s[i] EXCEPT !.abs = s[i].abs + o].ad = s[i].ad
          /\ [s[i] EXCEPT !.abs = s[i].abs + o].rank = s[i].rank
      BY <1>2 DEF Row
    <3>2. QED
      BY <1>1, <2>2, <3>1
  <2>4. QED
    BY <2>1, <2>3 DEF AdsCounted
<1>6. AdsCounted(SetSeparatedAdAbsoluteRanks(s, o))
  <2> DEFINE t == SetSeparatedAdAbsoluteRanks(s, o)
             w(i) == IF s[i].ad THEN o + s[i].rank ELSE o + Ads(s, Len(s)) + Organics(s, i)
  <2>1. t \in Seq(Row) /\ DOMAIN t = DOMAIN s
    BY <1>1, SeparatedRows DEF SetSeparatedAdAbsoluteRanks
  <2>2. \A i \in DOMAIN s : t[i] = [s[i] EXCEPT !.abs = w(i)]
    BY DEF SetSeparatedAdAbsoluteRanks
  <2> HIDE DEF t, w
  <2>3. ASSUME NEW i \in DOMAIN s PROVE t[i].ad => t[i].rank > 0
    <3>1. [s[i] EXCEPT !.abs = w(i)].ad = s[i].ad /\ [s[i] EXCEPT !.abs = w(i)].rank = s[i].rank
      BY <1>2 DEF Row
    <3>2. QED
      BY <1>1, <2>2, <3>1
  <2>4. QED
    BY <2>1, <2>3 DEF AdsCounted, t
<1>7. QED
  BY <1>4, <1>5, <1>6

\* Rows behind others.
LEMMA ConcatCounted ==
  ASSUME NEW s, AdsCounted(s), NEW t, AdsCounted(t)
  PROVE  AdsCounted(s \o t)
<1>1. s \in Seq(Row) /\ t \in Seq(Row) /\ s \o t \in Seq(Row)
  BY ConcatProperties DEF AdsCounted
<1>2. \A k \in DOMAIN (s \o t) : (\E i \in DOMAIN s : (s \o t)[k] = s[i]) \/ \E i \in DOMAIN t : (s \o t)[k] = t[i]
  <2> SUFFICES ASSUME NEW k \in DOMAIN (s \o t)
               PROVE  (\E i \in DOMAIN s : (s \o t)[k] = s[i]) \/ \E i \in DOMAIN t : (s \o t)[k] = t[i]
    OBVIOUS
  <2>1. Len(s) \in Nat /\ Len(t) \in Nat /\ k \in 1 .. Len(s) + Len(t) /\ DOMAIN s = 1 .. Len(s) /\ DOMAIN t = 1 .. Len(t)
    BY <1>1
  <2>2. (s \o t)[k] = IF k <= Len(s) THEN s[k] ELSE t[k - Len(s)]
    BY <1>1, <2>1
  <2>3. QED
    BY <2>1, <2>2
<1>3. QED
  BY <1>1, <1>2 DEF AdsCounted

\* No filter renumbers ads.
LEMMA KeptCounted ==
  ASSUME NEW s, AdsCounted(s)
  PROVE  /\ AdsCounted(DeduplicateResults(s)) /\ \A at : at \subseteq DOMAIN s => AdsCounted(Kept(s, at))
         /\ \A max : AdsCounted(LimitOrganicResults(s, max)) /\ AdsCounted(skipOrganicResults(s, max))
<1>1. s \in Seq(Row) /\ Len(s) \in Nat /\ DOMAIN s = 1 .. Len(s)
  BY DEF AdsCounted
<1>2. AdsCounted(DeduplicateResults(s))
  BY <1>1, DedupDistinct, FromCounted
<1>3. ASSUME NEW at, at \subseteq DOMAIN s PROVE AdsCounted(Kept(s, at))
  <2> DEFINE t == Kept(s, at)
  <2>1. Selects(s, at, t) /\ t \in Seq(Row)
    BY <1>1, <1>3, KeptFacts, KeptRows
  <2> HIDE DEF t
  <2>2. \A k \in DOMAIN t : \E i \in at : t[k] = s[i]
    BY <2>1 DEF Selects
  <2>3. From(s, t)
    BY <1>3, <2>1, <2>2 DEF From
  <2>4. QED
    BY <2>3, FromCounted DEF t
<1>4. ASSUME NEW max PROVE AdsCounted(LimitOrganicResults(s, max)) /\ AdsCounted(skipOrganicResults(s, max))
  <2> DEFINE in == {i \in DOMAIN s : s[i].ad \/ Organics(s, i) <= max}
             rest == {i \in DOMAIN s : s[i].ad \/ Organics(s, i) > max}
  <2>1. LimitOrganicResults(s, max) = IF max <= 0 THEN s ELSE Kept(s, in)
    BY DEF LimitOrganicResults
  <2>2. skipOrganicResults(s, max) = Kept(s, rest)
    BY DEF skipOrganicResults
  <2>3. in \subseteq DOMAIN s /\ rest \subseteq DOMAIN s
    OBVIOUS
  <2> HIDE DEF in, rest
  <2>4. AdsCounted(Kept(s, in)) /\ AdsCounted(Kept(s, rest))
    BY <1>3, <2>3
  <2>5. QED
    BY <2>1, <2>2, <2>4
<1>5. QED
  BY <1>2, <1>3, <1>4

\* Ecosia goes on counting its ads where the pages before ended.
LEMMA EcosiaCounted ==
  ASSUME NEW s \in Seq(Row), NEW before \in Seq(Row), NEW r \in Int
  PROVE  AdsCounted(ParseEcosia(s, before, r))
<1> DEFINE o == Kept(s, {i \in DOMAIN s : ~ s[i].ad})
           a == Kept(s, {i \in DOMAIN s : s[i].ad})
           m == Ads(before, Len(before))
           x == [i \in DOMAIN o |-> [o[i] EXCEPT !.rank = r + CountOrganicResults(before) + i - 1]]
           y == [i \in DOMAIN a |-> [a[i] EXCEPT !.rank = m + i]]
<1>1. ParseEcosia(s, before, r) = x \o y
  BY DEF ParseEcosia
<1>2. m \in Nat /\ CountOrganicResults(before) \in Nat
  BY CountTypes
<1>3. o \in Seq(Row) /\ a \in Seq(Row)
  BY KeptRows
<1>4. \A k \in DOMAIN o : ~ o[k].ad
  <2> DEFINE at == {i \in DOMAIN s : ~ s[i].ad}
             t == Kept(s, at)
  <2>1. Selects(s, at, t) /\ t \in Seq(Row) /\ t = o
    <3>1. Len(s) \in Nat /\ DOMAIN s = 1 .. Len(s) /\ at \subseteq 1 .. Len(s)
      OBVIOUS
    <3> HIDE DEF at
    <3>2. Selects(s, at, t)
      BY <3>1, KeptFacts
    <3>3. QED
      BY <1>3, <3>2 DEF at
  <2> HIDE DEF t, at, o
  <2>2. \A k \in DOMAIN t : \E i \in at : t[k] = s[i]
    BY <2>1 DEF Selects
  <2> USE DEF at
  <2>3. QED
    BY <2>1, <2>2
<1> HIDE DEF o, a, m
<1>5. \A z \in Row, v \in Int : LET w == [z EXCEPT !.rank = v] IN w \in Row /\ w.ad = z.ad /\ w.rank = v
  BY DEF Row
<1>6. x \in Seq(Row) /\ \A i \in DOMAIN x : x[i].ad => x[i].rank > 0
  <2>1. Len(o) \in Nat /\ DOMAIN o = 1 .. Len(o) /\ \A i \in 1 .. Len(o) : o[i] \in Row /\ r + CountOrganicResults(before) + i - 1 \in Int
    BY <1>2, <1>3
  <2>2. x \in [1 .. Len(o) -> Row] /\ \A i \in 1 .. Len(o) : x[i].ad = o[i].ad
    BY <1>5, <2>1
  <2>3. x \in Seq(Row) /\ DOMAIN x = 1 .. Len(o)
    BY <2>1, <2>2, RowSequence
  <2> HIDE DEF x
  <2>4. QED
    BY <1>4, <2>1, <2>2, <2>3
<1>7. y \in Seq(Row) /\ \A i \in DOMAIN y : y[i].ad => y[i].rank > 0
  <2>1. Len(a) \in Nat /\ DOMAIN a = 1 .. Len(a) /\ \A i \in 1 .. Len(a) : a[i] \in Row /\ m + i \in Int /\ m + i > 0
    BY <1>2, <1>3
  <2>2. y \in [1 .. Len(a) -> Row] /\ \A i \in 1 .. Len(a) : y[i].rank = m + i
    BY <1>5, <2>1
  <2>3. y \in Seq(Row) /\ DOMAIN y = 1 .. Len(a)
    BY <2>1, <2>2, RowSequence
  <2> HIDE DEF y
  <2>4. QED
    BY <2>1, <2>2, <2>3
<1>8. AdsCounted(x) /\ AdsCounted(y)
  <2> HIDE DEF x, y
  <2>1. QED
    BY <1>6, <1>7 DEF AdsCounted
<1>9. QED
  <2> HIDE DEF x, y
  <2>1. QED
    BY <1>1, <1>8, ConcatCounted

-----------------------------------------------------------------------------
(* No engine's page has an ad without a rank. *)

\* Rows of a page that was served.
LEMMA ServedCounted ==
  ASSUME Asked, NEW e \in Engines, NEW o \in Nat, NEW n \in Nat, NEW a \in Int, NEW b \in Int
  PROVE  AdsCounted(Ranked(Served(e, o, n), b, a)) /\ Served(e, o, n) \in Seq(Row)
<1>1. Served(e, o, n) \in Seq(Row)
  BY ServedTop
<1>2. QED
  BY <1>1, RankedCounted

\* Ads of all the pages of Yandex.
LEMMA YandexCounted ==
  ASSUME Asked
  PROVE  \A p \in Pages("yandex") : AdsCounted(YandexPages[p])
<1> DEFINE e == "yandex"
           lo == firstPage(start)
           hi == firstPage(start) + Len(Ranking[e])
           T == {p \in Pages(e) : AdsCounted(YandexPages[p])}
<1>1. e \in Engines
  BY DEF Engines
<1>2. /\ lo \in Nat /\ hi \in Nat /\ lo \in Pages(e) /\ Pages(e) = lo .. hi /\ PageSize \in Nat
      /\ \A p \in Pages(e) : p \in Nat /\ p * PageSize \in Nat /\ (p # lo => p - 1 \in Pages(e))
  <2>1. Len(Ranking[e]) \in Nat
    BY <1>1, Rankings
  <2> HIDE DEF e
  <2>2. /\ lo \in Nat /\ PageSize \in Nat \ {0} /\ lo \in Pages(e) /\ Pages(e) = lo .. hi
        /\ \A p \in Pages(e) : p \in Nat /\ p * PageSize \in Nat /\ (p # lo => p - 1 \in Pages(e))
    BY <1>1, PagesFrom
  <2>3. QED
    BY <2>1, <2>2
<1>3. ASSUME NEW p \in Pages(e) PROVE AdsCounted(YandexPage(p))
  <2> DEFINE r == Ranked(Served(e, p * PageSize, PageSize), p * PageSize, p * PageSize + 1)
             k == ComputePagination(start).skip
  <2>1. YandexPage(p) = IF p = firstPage(start) THEN skipOrganicResults(r, k) ELSE r
    BY DEF YandexPage, YandexServed, ParseYandex, ParsePage
  <2>2. AdsCounted(r)
    <3>1. p * PageSize \in Nat /\ PageSize \in Nat /\ p * PageSize + 1 \in Int /\ p * PageSize \in Int
      <4>1. p * PageSize \in Nat /\ PageSize \in Nat
        BY <1>2
      <4> DEFINE x == p * PageSize
      <4> HIDE DEF x
      <4>2. x \in Nat => x + 1 \in Int /\ x \in Int
        OBVIOUS
      <4>3. QED
        BY <4>1, <4>2 DEF x
    <3> HIDE DEF e
    <3>2. QED
      BY <1>1, <3>1, ServedCounted, Zenon
  <2> HIDE DEF r, k
  <2>3. QED
    BY <2>1, <2>2, KeptCounted
<1>4. \A p \in Pages(e) : YandexPages[p] = IF p = lo THEN YandexPage(p) ELSE YandexPages[p - 1] \o YandexPage(p)
  BY YandexPagesAre
<1>5. lo \in T
  BY <1>2, <1>3, <1>4
<1>6. \A p \in lo + 1 .. hi : p - 1 \in T => p \in T
  <2> SUFFICES ASSUME NEW p \in lo + 1 .. hi, p - 1 \in T PROVE p \in T
    OBVIOUS
  <2>1. p \in Pages(e) /\ p # lo
    <3> HIDE DEF lo, hi, e
    <3>1. QED
      BY <1>2
  <2>2. AdsCounted(YandexPages[p - 1] \o YandexPage(p))
    BY <1>3, <2>1, ConcatCounted
  <2>3. QED
    BY <1>4, <2>1, <2>2
<1>7. \A p \in lo .. hi : p \in T
  <2>1. lo \in Int /\ hi \in Int
    <3> HIDE DEF lo, hi
    <3>1. QED
      BY <1>2
  <2> HIDE DEF T, lo, hi
  <2>2. QED
    BY <1>5, <1>6, <2>1, Interval
<1>8. QED
  <2> HIDE DEF lo, hi
  <2>1. QED
    BY <1>2, <1>7

\* Ads of all the pages of Ecosia.
LEMMA EcosiaPagesCounted ==
  ASSUME Asked
  PROVE  \A p \in Pages("ecosia") : AdsCounted(EcosiaPages[p])
<1> DEFINE e == "ecosia"
           lo == firstPage(start)
           hi == firstPage(start) + Len(Ranking[e])
           T == {p \in Pages(e) : AdsCounted(EcosiaPages[p])}
<1>1. e \in Engines
  BY DEF Engines
<1>2. /\ lo \in Nat /\ hi \in Nat /\ lo \in Pages(e) /\ Pages(e) = lo .. hi /\ PageSize \in Nat
      /\ \A p \in Pages(e) : p \in Nat /\ p * PageSize \in Nat /\ (p # lo => p - 1 \in Pages(e))
  <2>1. Len(Ranking[e]) \in Nat
    BY <1>1, Rankings
  <2> HIDE DEF e
  <2>2. /\ lo \in Nat /\ PageSize \in Nat \ {0} /\ lo \in Pages(e) /\ Pages(e) = lo .. hi
        /\ \A p \in Pages(e) : p \in Nat /\ p * PageSize \in Nat /\ (p # lo => p - 1 \in Pages(e))
    BY <1>1, PagesFrom
  <2>3. QED
    BY <2>1, <2>2
<1>3. startRank(start) \in Int
  BY PaginationTypes DEF Asked
<1>4. ASSUME NEW p \in Pages(e), NEW before, AdsCounted(before) PROVE AdsCounted(EcosiaStep(before, p))
  <2>1. p * PageSize \in Nat /\ PageSize \in Nat /\ before \in Seq(Row)
    BY <1>2, <1>4 DEF AdsCounted
  <2>2. Served(e, p * PageSize, PageSize) \in Seq(Row)
    <3> HIDE DEF e
    <3>1. QED
      BY <1>1, <2>1, ServedTop
  <2>3. EcosiaServed(p) \in Seq(Row)
    BY <2>2 DEF EcosiaServed
  <2>4. AdsCounted(ParseEcosia(EcosiaServed(p), before, startRank(start)))
    BY <1>3, <2>1, <2>3, EcosiaCounted
  <2>5. QED
    BY <1>4, <2>4, ConcatCounted DEF EcosiaStep
<1>5. \A p \in Pages(e) : EcosiaPages[p] = EcosiaStep(IF p = lo THEN << >> ELSE EcosiaPages[p - 1], p)
  BY EcosiaPagesAre
<1>6. AdsCounted(<< >>)
  BY DEF AdsCounted
<1>7. lo \in T
  <2>1. EcosiaPages[lo] = EcosiaStep(<< >>, lo)
    BY <1>2, <1>5
  <2>2. QED
    BY <1>2, <1>4, <1>6, <2>1
<1>8. \A p \in lo + 1 .. hi : p - 1 \in T => p \in T
  <2> SUFFICES ASSUME NEW p \in lo + 1 .. hi, p - 1 \in T PROVE p \in T
    OBVIOUS
  <2>1. p \in Pages(e) /\ p # lo
    <3> HIDE DEF lo, hi, e
    <3>1. QED
      BY <1>2
  <2>2. EcosiaPages[p] = EcosiaStep(EcosiaPages[p - 1], p)
    BY <1>5, <2>1
  <2>3. QED
    BY <1>4, <2>1, <2>2
<1>9. \A p \in lo .. hi : p \in T
  <2>1. lo \in Int /\ hi \in Int
    <3> HIDE DEF lo, hi
    <3>1. QED
      BY <1>2
  <2> HIDE DEF T, lo, hi
  <2>2. QED
    BY <1>7, <1>8, <2>1, Interval
<1>10. QED
  <2> HIDE DEF lo, hi
  <2>1. QED
    BY <1>2, <1>9

\* Every row of an engine but Google's answers has a rank above 0.
LEMMA WebCounted ==
  ASSUME Asked, NEW e \in Engines, e # "google"
  PROVE  AdsCounted(WebRows(e))
<1> DEFINE max == client.limit
<1>1. start \in Nat /\ start + 1 \in Int /\ AskedCount \in Nat /\ PageSize \in Nat
  BY AskedCountType DEF Asked
<1>2. CASE e = "bing"
  <2> DEFINE n == IF start > 0 THEN PageSize ELSE AskedCount
             r == Ranked(Served(e, start, n), start, start + 1)
  <2>1. n \in Nat /\ start \in Int
    BY <1>1
  <2>2. WebRows(e) = LimitOrganicResults(DeduplicateResults(r), max)
    BY <1>2 DEF WebRows, LimitedRows, ParseBing, ParsePage, BingServed
  <2> HIDE DEF n
  <2>3. AdsCounted(r)
    BY <1>1, <2>1, ServedCounted, Zenon
  <2> HIDE DEF r
  <2>4. AdsCounted(DeduplicateResults(r))
    BY <2>3, KeptCounted
  <2>5. QED
    BY <2>2, <2>4, KeptCounted
<1>3. CASE e = "duckduckgo"
  <2> DEFINE r == Ranked(Served(e, 0, Len(Ranking[e])), 0, 1)
  <2>1. Len(Ranking[e]) \in Nat /\ 0 \in Nat /\ 0 \in Int /\ 1 \in Int
    BY Rankings
  <2>2. WebRows(e) = LimitOrganicResults(skipOrganicResults(DeduplicateResults(r), start), max)
    BY <1>3 DEF WebRows, DDGRows, windowOrganicResults, ParseDDG, ParsePage, DDGServed
  <2>3. AdsCounted(r)
    BY <2>1, ServedCounted, Zenon
  <2> HIDE DEF r
  <2>4. AdsCounted(DeduplicateResults(r))
    BY <2>3, KeptCounted
  <2>5. AdsCounted(skipOrganicResults(DeduplicateResults(r), start))
    BY <2>4, KeptCounted
  <2>6. QED
    BY <2>2, <2>5, KeptCounted
<1>4. CASE e = "baidu"
  <2> DEFINE r == Ranked(Served(e, start, AskedCount), 0, 1)
             d == DeduplicateResults(r)
  <2>1. 0 \in Int /\ 1 \in Int /\ start \in Int
    BY <1>1
  <2>2. WebRows(e) = Offset(Rebased(Rebased(d, 0), start), start)
    BY <1>4 DEF WebRows, BaiduRows, ParseBaidu, ParsePage, BaiduServed
  <2>3. AdsCounted(r)
    BY <1>1, <2>1, ServedCounted, Zenon
  <2> HIDE DEF r
  <2>4. AdsCounted(d)
    BY <2>3, KeptCounted
  <2> HIDE DEF d
  <2>5. AdsCounted(Rebased(d, 0))
    BY <2>1, <2>4, RenumberedCounted
  <2>6. AdsCounted(Rebased(Rebased(d, 0), start))
    BY <2>1, <2>5, RenumberedCounted
  <2>7. QED
    BY <2>1, <2>2, <2>6, RenumberedCounted
<1>5. CASE e = "yandex"
  <2> DEFINE r == YandexPages[LastPage(e, YandexPages)]
  <2>1. WebRows(e) = LimitOrganicResults(DeduplicateResults(r), max)
    BY <1>5 DEF WebRows, LimitedRows
  <2>2. AdsCounted(r)
    <3>1. LastPage(e, YandexPages) \in Pages("yandex")
      BY <1>5, LastPageOfPages
    <3>2. QED
      BY <3>1, YandexCounted
  <2> HIDE DEF r
  <2>3. AdsCounted(DeduplicateResults(r))
    BY <2>2, KeptCounted
  <2>4. QED
    BY <2>1, <2>3, KeptCounted
<1>6. CASE e = "ecosia"
  <2> DEFINE r == EcosiaPages[LastPage(e, EcosiaPages)]
             t == SetSeparatedAdAbsoluteRanks(r, start)
  <2>1. WebRows(e) = LimitOrganicResults(DeduplicateResults(t), max)
    BY <1>6 DEF WebRows, LimitedRows, EcosiaRows
  <2>2. AdsCounted(r)
    <3>1. LastPage(e, EcosiaPages) \in Pages("ecosia")
      BY <1>6, LastPageOfPages
    <3>2. QED
      BY <3>1, EcosiaPagesCounted
  <2>3. AdsCounted(t)
    <3>1. start \in Int
      BY <1>1
    <3> HIDE DEF r
    <3>2. QED
      BY <2>2, <3>1, RenumberedCounted
  <2> HIDE DEF t
  <2>4. AdsCounted(DeduplicateResults(t))
    BY <2>3, KeptCounted
  <2>5. QED
    BY <2>1, <2>4, KeptCounted
<1>7. QED
  BY <1>2, <1>3, <1>4, <1>5, <1>6 DEF Engines

-----------------------------------------------------------------------------
(* What a client of engines at rest receives. *)

\* A row of an engine's page, and the engine.
MegaRow == [engine : Engines, url : Int \X Int, ad : BOOLEAN, rank : Int, abs : Int]

\* A row that is where its rank says: its URL is at that place in the ranking of
\* its engine; and only Google's answers have no rank.
Placed(r) ==
  /\ r.engine \in client.engines
  /\ ~ r.ad /\ r.rank >= 0 =>
       /\ r.rank \in 1 .. Len(Ranking[r.engine]) /\ Ranking[r.engine][r.rank] = r.url
       /\ \/ ads \/ client.kind = "image" \/ r.abs = r.rank
          \/ r.engine = "ecosia" /\ client.kind = "web" /\ start % PageSize # 0
  /\ client.kind = "web" /\ r.rank <= 0 => r.engine = "google"

\* Types of the variables, and what of the query stays as InitFromContext has
\* validated it.
ClientTypes ==
  /\ client \in Clients /\ start \in Int /\ start >= client.start
  /\ ads \in BOOLEAN /\ obeys \in BOOLEAN /\ turn \in {"sending", "asking", "answered", "left"}
  /\ turn \in {"asking", "answered"} => client.limit \in 1 .. MaxQueryLimit /\ start \in Nat
  /\ turn \in {"asking", "answered"} \/ start # client.start => client.start \in Nat
  /\ client.limit % PageSize = 0 /\ client.start % PageSize = 0 => start % PageSize = 0
  /\ waiting \subseteq client.engines

\* What has arrived is rows of the engines asked, each where its rank says.
ArrivedRows ==
  turn = "asking" => arrived \in Seq(MegaRow) /\ \A i \in DOMAIN arrived : Placed(arrived[i])

\* The rows of a page, or of a document, of the only engine.
Fetched(s) ==
  \E n \in Nat :
    /\ Fetches(the, s, n) /\ Within(the, n, client.kind = "web")
    /\ the # "google" \/ client.kind = "raw" => NoAnswers(s)

\* An engine asked alone has not answered, or all that arrived is one page of it.
OneOutcome ==
  one /\ turn = "asking" =>
    \/ waiting = client.engines /\ arrived = << >>
    \/ /\ waiting = {}
       /\ client.kind # "image" => \E s : Fetched(s) /\ arrived = [i \in DOMAIN s |-> Of(the, s[i])]

\* Where the pages fit together, what the client has received is the ranking
\* from the first start on, as far as it has been asked for, or all of it.
Walk ==
  one /\ Aligned =>
    /\ received \in Seq(Int) /\ received = [i \in DOMAIN received |-> client.start + i]
    /\ client.kind = "image" => received = << >>
    /\ client.kind # "image" =>
         /\ turn \in {"sending", "asking"} => Len(received) = Available(the, client.start, start - client.start)
         /\ turn = "answered" /\ HasMore =>
              Len(received) = Available(the, client.start, start + client.limit - client.start)
         /\ turn = "answered" /\ ~ HasMore /\ client.limit = PageSize /\ client.start % PageSize = 0 =>
              Len(received) = Max({0, Len(Ranking[the]) - client.start})

\* The inductive invariant. ArrivedRows and OneOutcome are what Walk and
\* RanksArePlaces need of the engines' answers at the moment the envelope is
\* made of them; they need the types of the client for the pages' lemmas.
IInv == ClientTypes /\ ArrivedRows /\ OneOutcome /\ Walk

\* There are six engines.
LEMMA FiniteEngines == IsFiniteSet(Engines)
<1>1. Engines = {"baidu", "bing", "duckduckgo"} \cup {"ecosia", "google", "yandex"}
  BY DEF Engines
<1>2. \A x, y, z : IsFiniteSet({x, y, z})
  <2> SUFFICES ASSUME NEW x, NEW y, NEW z PROVE IsFiniteSet({x, y, z})
    OBVIOUS
  <2>1. IsFiniteSet({x} \cup {y}) /\ IsFiniteSet({z})
    BY FS_Singleton, FS_Union
  <2>2. IsFiniteSet(({x} \cup {y}) \cup {z})
    BY <2>1, FS_Union
  <2>3. {x, y, z} = ({x} \cup {y}) \cup {z}
    OBVIOUS
  <2>4. QED
    BY <2>2, <2>3
<1>3. IsFiniteSet({"baidu", "bing", "duckduckgo"}) /\ IsFiniteSet({"ecosia", "google", "yandex"})
  BY <1>2
<1>4. QED
  BY <1>1, <1>3, FS_Union

\* Who is asked.
LEMMA ClientFacts ==
  ASSUME client \in Clients
  PROVE  /\ client.engines \subseteq Engines /\ client.engines # {} /\ client.kind \in {"web", "raw", "image"}
         /\ client.limit \in Int /\ client.start \in Int /\ (client.kind # "web" => one)
         /\ client.kind = "raw" => client.engines \subseteq RawEngines
         /\ one => client.engines = {the} /\ the \in Engines
<1>1. ClientOK(client)
  BY PagedAssumption
<1>2. one => client.engines = {the}
  <2> SUFFICES ASSUME one PROVE client.engines = {the}
    OBVIOUS
  <2>1. IsFiniteSet(Engines)
    BY FiniteEngines
  <2>2. IsFiniteSet(client.engines)
    BY <1>1, <2>1, FS_Subset DEF ClientOK
  <2>3. \E x : client.engines = {x}
    BY <2>2, FS_Singleton DEF one
  <2>4. QED
    BY <2>3 DEF the
<1>3. client.limit \in Int /\ client.start \in Int
  BY <1>1 DEF ClientOK
<1>4. QED
  BY <1>1, <1>2, <1>3 DEF ClientOK, one

\* A cut sequence is a beginning of it.
LEMMA CutBeginning ==
  ASSUME NEW S, NEW s \in Seq(S), NEW n \in Nat
  PROVE  /\ Cut(s, n) \in Seq(S) /\ \A i \in DOMAIN Cut(s, n) : i \in DOMAIN s /\ Cut(s, n)[i] = s[i]
<1> DEFINE m == IF Len(s) > n THEN n ELSE Len(s)
           t == SubSeq(s, 1, m)
<1>1. Len(s) \in Nat /\ DOMAIN s = 1 .. Len(s) /\ m \in Nat /\ m <= Len(s) /\ \A i \in 1 .. m : i \in 1 .. Len(s)
  OBVIOUS
<1>2. \A i \in 1 .. m : s[i] \in S
  BY <1>1
<1> HIDE DEF m
<1>3. t \in Seq(S) /\ Len(t) = m /\ \A k \in 1 .. m : t[k] = s[k]
  <2>1. 1 \in Int /\ m \in Int /\ (IF 1 <= m THEN m - 1 + 1 ELSE 0) = m /\ \A k \in 1 .. m - 1 + 1 : 1 + k - 1 = k
    BY <1>1
  <2>2. m - 1 + 1 = m
    BY <1>1
  <2>3. /\ t \in Seq(S) /\ Len(t) = IF 1 <= m THEN m - 1 + 1 ELSE 0
        /\ \A k \in 1 .. m - 1 + 1 : t[k] = s[1 + k - 1]
    BY <1>1, <1>2, <2>1, SubSeqProperties
  <2> HIDE DEF t
  <2>4. QED
    BY <2>1, <2>2, <2>3
<1> HIDE DEF t
<1>4. DOMAIN t = 1 .. m
  BY <1>1, <1>3
<1>5. QED
  BY <1>1, <1>3, <1>4 DEF Cut, t, m

\* An image's rank is its place, however many are cut, and whichever.
LEMMA ImagePage ==
  ASSUME Asked, NEW e \in Engines, NEW s \in ImageRows(e)
  PROVE  /\ s \in Seq(Row)
         /\ \A i \in DOMAIN s : s[i].rank \in 1 .. Len(Ranking[e]) /\ Ranking[e][s[i].rank] = s[i].url
<1> DEFINE L == Len(Ranking[e])
           g == Grid(e)
           Takes(t) == t \in Seq(Row) /\ \A i \in DOMAIN t : \E j \in DOMAIN g : t[i] = g[j]
<1>1. L \in Nat /\ DOMAIN Ranking[e] = 1 .. L /\ \A i \in 1 .. L : Ranking[e][i] \in Int \X Int
  <2>1. Ranking[e] \in Seq(Int \X Int) /\ L \in Nat /\ DOMAIN Ranking[e] = 1 .. L
    BY Rankings
  <2>2. QED
    BY <2>1
<1>2. \A x \in Int \X Int, r \in Int : LET w == [Organic(x) EXCEPT !.rank = r] IN w \in Row /\ w.url = x /\ w.rank = r
  <2>1. \A z \in Row, r \in Int : LET w == [z EXCEPT !.rank = r] IN w \in Row /\ w.url = z.url /\ w.rank = r
    BY DEF Row
  <2>2. QED
    BY <2>1, OrganicRow
<1>3. g = [i \in 1 .. L |-> [Organic(Ranking[e][i]) EXCEPT !.rank = i]]
  BY <1>1 DEF Grid
<1> HIDE DEF g, L
<1>4. \A i \in 1 .. L : g[i] \in Row /\ g[i].url = Ranking[e][i] /\ g[i].rank = i
  <2>1. \A i \in 1 .. L : i \in Int /\ g[i] = [Organic(Ranking[e][i]) EXCEPT !.rank = i]
    BY <1>1, <1>3
  <2>2. \A x \in Int \X Int, r \in Int : /\ [Organic(x) EXCEPT !.rank = r] \in Row
                                         /\ [Organic(x) EXCEPT !.rank = r].url = x
                                         /\ [Organic(x) EXCEPT !.rank = r].rank = r
    BY <1>2
  <2> SUFFICES ASSUME NEW i \in 1 .. L PROVE g[i] \in Row /\ g[i].url = Ranking[e][i] /\ g[i].rank = i
    OBVIOUS
  <2>3. i \in Int /\ Ranking[e][i] \in Int \X Int /\ g[i] = [Organic(Ranking[e][i]) EXCEPT !.rank = i]
    BY <1>1, <2>1
  <2>4. QED
    BY <2>2, <2>3
<1>5. g \in Seq(Row) /\ Len(g) = L /\ DOMAIN g = 1 .. L
  <2>1. g \in [1 .. L -> Row] /\ DOMAIN g = 1 .. L
    BY <1>3, <1>4
  <2>2. QED
    BY <1>1, <2>1, RowSequence
<1>6. client.limit \in Nat
  BY DEF Asked
<1>7. Takes(Cut(g, client.limit)) /\ Takes(g)
  <2>1. /\ Cut(g, client.limit) \in Seq(Row)
        /\ \A i \in DOMAIN Cut(g, client.limit) : i \in DOMAIN g /\ Cut(g, client.limit)[i] = g[i]
    BY <1>5, <1>6, CutBeginning
  <2>2. QED
    BY <1>5, <2>1
<1>8. \A c \in SUBSET DOMAIN g : Takes(Kept(g, c))
  <2> SUFFICES ASSUME NEW c \in SUBSET DOMAIN g PROVE Takes(Kept(g, c))
    OBVIOUS
  <2> DEFINE t == Kept(g, c)
  <2>1. Selects(g, c, t) /\ t \in Seq(Row)
    BY <1>1, <1>5, KeptFacts, KeptRows
  <2> HIDE DEF t
  <2>2. \A i \in DOMAIN t : \E j \in c : t[i] = g[j]
    BY <2>1 DEF Selects
  <2>3. QED
    BY <2>1, <2>2 DEF t
<1>9. Takes(s)
  <2> DEFINE G == Grid(e)
  <2>1. CASE e = "yandex"
    <3>1. PICK c \in SUBSET DOMAIN g : s = Kept(g, c)
      BY <2>1 DEF ImageRows, YandexImages, g
    <3>2. QED
      BY <1>8, <3>1
  <2>2. CASE e = "duckduckgo"
    <3>1. s = g
      BY <2>2 DEF ImageRows, DDGImages, g
    <3>2. QED
      BY <1>7, <3>1
  <2>3. CASE e \in {"google", "bing", "ecosia", "baidu"}
    <3>1. s = Cut(g, client.limit)
      BY <2>3 DEF ImageRows, GoogleImages, BingImages, EcosiaImages, BaiduImages, g
    <3>2. QED
      BY <1>7, <3>1
  <2>4. QED
    BY <2>1, <2>2, <2>3 DEF Engines
<1>10. QED
  BY <1>4, <1>5, <1>9 DEF L

-----------------------------------------------------------------------------
(* What arrives from an engine. *)

\* A row and its engine.
LEMMA OfRow ==
  ASSUME NEW e \in Engines, NEW r \in Row
  PROVE  /\ Of(e, r) \in MegaRow /\ Of(e, r).engine = e /\ Of(e, r).url = r.url /\ Of(e, r).ad = r.ad
         /\ Of(e, r).rank = r.rank /\ Of(e, r).abs = r.abs
BY DEF Of, MegaRow, Row

\* A page's rows are where their ranks say.
LEMMA FetchedPlaces ==
  ASSUME Asked, NEW e \in Engines, NEW s, NEW n, Fetches(e, s, n), NEW i \in DOMAIN s, ~ s[i].ad, s[i].rank >= 0
  PROVE  /\ i \in OrganicAt(s) /\ s[i].rank \in 1 .. Len(Ranking[e]) /\ Ranking[e][s[i].rank] = s[i].url
         /\ ~ ads /\ FirstRank(e) = start => s[i].abs = s[i].rank
<1> DEFINE b == FirstRank(e)
           c == Available(e, b, n)
<1>1. /\ Lists(s, Ranking[e], b, c, 0) /\ n \in Nat /\ s[i].rank # 0 /\ (~ ads /\ b = start => Apart(s, 0))
  BY DEF Fetches
<1>2. s \in Seq(Row) /\ b \in Nat /\ c \in Nat /\ s[i] \in Row
  BY <1>1 DEF Lists
<1>3. s[i].rank \in Int /\ s[i].abs \in Int
  BY <1>2 DEF Row
<1>4. i \in OrganicAt(s)
  BY <1>1, <1>3 DEF OrganicAt, IsOrganic
<1>5. s[i].rank \in b + 1 .. b + c /\ s[i].url = Ranking[e][s[i].rank + 0]
  BY <1>1, <1>4 DEF Lists
<1> HIDE DEF b
<1>6. (c # 0 => b + c <= Len(Ranking[e])) /\ Len(Ranking[e]) \in Nat
  BY <1>1, <1>2, Availability, Rankings
<1> HIDE DEF c
<1>7. s[i].rank + 0 = s[i].rank /\ s[i].rank \in 1 .. Len(Ranking[e])
  <2>1. s[i].rank + 0 = s[i].rank
    BY <1>3
  <2>2. c # 0
    BY <1>2, <1>5
  <2>3. QED
    BY <1>2, <1>5, <1>6, <2>1, <2>2
<1>8. ~ ads /\ b = start => s[i].abs = s[i].rank
  <2>1. ~ ads /\ b = start => s[i].abs = s[i].rank + 0
    BY <1>1, <1>4 DEF Apart
  <2>2. QED
    BY <1>7, <2>1
<1>9. QED
  BY <1>4, <1>5, <1>7, <1>8 DEF b

\* Every outcome of an engine is rows that are where their ranks say.
LEMMA OutcomeRows ==
  ASSUME Asked, client \in Clients, NEW e \in client.engines, NEW s \in AnswersOf(e)
  PROVE  s \in Seq(Row) /\ \A i \in DOMAIN s : Of(e, s[i]) \in MegaRow /\ Placed(Of(e, s[i]))
<1>1. e \in Engines /\ client.kind \in {"web", "raw", "image"} /\ (client.kind = "raw" => e \in RawEngines)
  BY ClientFacts
<1>2. s \in Seq(Row) /\ \A i \in DOMAIN s : ~ s[i].ad /\ s[i].rank >= 0 =>
        /\ s[i].rank \in 1 .. Len(Ranking[e]) /\ Ranking[e][s[i].rank] = s[i].url
        /\ \/ ads \/ client.kind = "image" \/ s[i].abs = s[i].rank
           \/ e = "ecosia" /\ client.kind = "web" /\ start % PageSize # 0
  <2>1. CASE client.kind = "image"
    <3>1. s \in ImageRows(e)
      BY <2>1 DEF AnswersOf
    <3>2. QED
      BY <1>1, <2>1, <3>1, ImagePage
  <2>2. CASE client.kind = "web"
    <3>1. s = WebRows(e)
      BY <2>2 DEF AnswersOf
    <3>2. PICK n \in Nat : Fetches(e, s, n)
      BY <1>1, <3>1, WebPage
    <3>3. s \in Seq(Row)
      BY <3>2 DEF Fetches, Lists
    <3>4. FirstRank(e) = start \/ (e = "ecosia" /\ start % PageSize # 0)
      <4> DEFINE f == firstPage(start) * PageSize
      <4>1. start \in Nat
        BY DEF Asked
      <4>2. f \in Nat /\ f + ComputePagination(start).skip = start /\ ComputePagination(start).skip = start % PageSize
            /\ ComputePagination(start).skip \in 0 .. PageSize - 1 /\ PageSize \in Nat
        BY <4>1, StartPage
      <4>3. FirstRank(e) = IF e = "ecosia" THEN f ELSE start
        BY DEF FirstRank
      <4> HIDE DEF f
      <4>4. start % PageSize = 0 => f = start
        BY <4>1, <4>2
      <4>5. QED
        BY <4>3, <4>4
    <3>5. QED
      BY <1>1, <2>2, <3>2, <3>3, <3>4, FetchedPlaces
  <2>3. CASE client.kind = "raw"
    <3>1. s = DocumentRows(e) /\ e \in RawEngines
      BY <1>1, <2>3 DEF AnswersOf
    <3>2. PICK n \in Nat : Fetches(e, s, n) /\ (~ ads => Apart(s, 0))
      BY <3>1, DocumentPage
    <3>3. s \in Seq(Row)
      BY <3>2 DEF Fetches, Lists
    <3>4. \A i \in DOMAIN s : s[i] \in Row
      BY <3>3
    <3>5. \A i \in OrganicAt(s) : ~ ads => s[i].abs = s[i].rank
      <4> SUFFICES ASSUME NEW i \in OrganicAt(s), ~ ads PROVE s[i].abs = s[i].rank
        OBVIOUS
      <4>1. s[i].abs = s[i].rank + 0 /\ i \in DOMAIN s
        BY <3>2 DEF Apart, OrganicAt
      <4>2. s[i].rank \in Int
        BY <3>4, <4>1 DEF Row
      <4>3. QED
        BY <4>1, <4>2
    <3>6. QED
      BY <1>1, <3>2, <3>3, <3>5, FetchedPlaces
  <2>4. QED
    BY <1>1, <2>1, <2>2, <2>3
<1>3. client.kind = "web" /\ e # "google" => \A i \in DOMAIN s : s[i].rank > 0
  <2> SUFFICES ASSUME client.kind = "web", e # "google", NEW i \in DOMAIN s PROVE s[i].rank > 0
    OBVIOUS
  <2>1. s = WebRows(e)
    BY DEF AnswersOf
  <2>2. AdsCounted(s) /\ NoAnswers(s)
    BY <1>1, <2>1, WebPage, WebCounted
  <2>3. s[i].ad => s[i].rank > 0
    BY <2>2 DEF AdsCounted
  <2>4. ~ s[i].ad => s[i].rank > 0
    BY <2>2 DEF NoAnswers
  <2>5. QED
    BY <2>3, <2>4
<1>4. ASSUME NEW i \in DOMAIN s PROVE Of(e, s[i]) \in MegaRow /\ Placed(Of(e, s[i]))
  <2>1. s[i] \in Row
    BY <1>2
  <2>2. /\ Of(e, s[i]) \in MegaRow /\ Of(e, s[i]).engine = e /\ Of(e, s[i]).url = s[i].url /\ Of(e, s[i]).ad = s[i].ad
        /\ Of(e, s[i]).rank = s[i].rank /\ Of(e, s[i]).abs = s[i].abs
    BY <1>1, <2>1, OfRow
  <2>3. s[i].rank \in Int
    BY <2>1 DEF Row
  <2>4. client.kind = "web" /\ s[i].rank <= 0 => e = "google"
    BY <1>3, <2>3
  <2>5. QED
    BY <1>2, <2>2, <2>4 DEF Placed
<1>5. QED
  BY <1>2, <1>4

-----------------------------------------------------------------------------
(* Merging. *)

\* What deduplicateMegaResults has kept of the first n rows.
Keeps(s) == CHOOSE k : k = [n \in 0 .. Len(s) |-> IF n = 0 THEN << >> ELSE Offered(k[n - 1], s[n])]

\* An offered row is appended, or replaces its like.
LEMMA OfferedRows ==
  ASSUME NEW kept \in Seq(MegaRow), NEW r \in MegaRow
  PROVE  /\ Offered(kept, r) \in Seq(MegaRow)
         /\ \A j \in DOMAIN Offered(kept, r) : Offered(kept, r)[j] = r \/ (j \in DOMAIN kept /\ Offered(kept, r)[j] = kept[j])
<1> DEFINE n == Len(kept)
           f == [i \in DOMAIN kept |-> IF SameResult(kept[i], r) /\ betterMegaResult(r, kept[i]) THEN r ELSE kept[i]]
<1>1. n \in Nat /\ DOMAIN kept = 1 .. n /\ \A i \in 1 .. n : kept[i] \in MegaRow
  OBVIOUS
<1>2. CASE \A i \in DOMAIN kept : ~ SameResult(kept[i], r)
  <2>1. Offered(kept, r) = Append(kept, r)
    BY <1>2 DEF Offered
  <2>2. Append(kept, r) \in Seq(MegaRow)
    OBVIOUS
  <2>3. \A j \in DOMAIN Append(kept, r) : j \in DOMAIN kept \/ j = n + 1
    OBVIOUS
  <2>4. \A j \in DOMAIN kept : Append(kept, r)[j] = kept[j]
    OBVIOUS
  <2>5. Append(kept, r)[n + 1] = r
    OBVIOUS
  <2>6. QED
    BY <2>1, <2>2, <2>3, <2>4, <2>5
<1>3. CASE ~ \A i \in DOMAIN kept : ~ SameResult(kept[i], r)
  <2>1. Offered(kept, r) = f
    BY <1>3 DEF Offered
  <2>2. f \in [1 .. n -> MegaRow] /\ DOMAIN f = DOMAIN kept
    BY <1>1
  <2>3. f \in Seq(MegaRow)
    BY <1>1, <2>2
  <2>4. \A j \in DOMAIN kept : f[j] = r \/ f[j] = kept[j]
    OBVIOUS
  <2>5. QED
    BY <2>1, <2>2, <2>3, <2>4
<1>4. QED
  BY <1>2, <1>3

\* It keeps by and by, from nothing.
LEMMA KeepsSteps ==
  ASSUME NEW s \in Seq(MegaRow)
  PROVE  /\ Keeps(s)[0] = << >> /\ \A n \in 0 .. Len(s) : Keeps(s)[n] \in Seq(MegaRow)
         /\ \A n \in 1 .. Len(s) : Keeps(s)[n] = Offered(Keeps(s)[n - 1], s[n])
<1> DEFINE S == Seq(MegaRow)
           L == Len(s)
           z == << >>
           G == [x \in S \X (0 .. L) |-> IF x[2] \in DOMAIN s THEN Offered(x[1], s[x[2]]) ELSE x[1]]
           F(k) == [n \in 0 .. L |-> IF n = 0 THEN << >> ELSE Offered(k[n - 1], s[n])]
<1>1. L \in Nat /\ DOMAIN s = 1 .. L /\ \A n \in 1 .. L : s[n] \in MegaRow
  OBVIOUS
<1>2. z \in S
  OBVIOUS
<1>3. G \in [S \X (0 .. L) -> S]
  <2>1. \A x \in S \X (0 .. L) : x[1] \in S
    OBVIOUS
  <2>2. \A x \in S \X (0 .. L) : x[2] \in DOMAIN s => Offered(x[1], s[x[2]]) \in S
    <3>1. \A x \in S \X (0 .. L) : x[2] \in DOMAIN s => x[1] \in S /\ s[x[2]] \in MegaRow
      BY <1>1
    <3>2. QED
      BY <3>1, OfferedRows
  <2>3. QED
    BY <2>1, <2>2
<1> HIDE DEF S, z, G, L
<1>4. PICK f : Stepping(f, 0, L, S, z, G)
  <2>1. 0 \in Int /\ L \in Int /\ 0 <= L
    BY <1>1
  <2>2. QED
    BY <1>2, <1>3, <2>1, StepsExist
<1>5. f \in [0 .. L -> S] /\ f[0] = z /\ \A p \in 0 + 1 .. L : f[p] = G[<<f[p - 1], p>>]
  BY <1>4 DEF Stepping
<1>6. \A n \in 1 .. L : f[n] = Offered(f[n - 1], s[n])
  <2> SUFFICES ASSUME NEW n \in 1 .. L PROVE f[n] = Offered(f[n - 1], s[n])
    OBVIOUS
  <2>1. n \in 0 + 1 .. L /\ n - 1 \in 0 .. L /\ n \in 0 .. L /\ n \in DOMAIN s
    BY <1>1
  <2>2. <<f[n - 1], n>> \in S \X (0 .. L) /\ f[n] = G[<<f[n - 1], n>>]
    BY <1>5, <2>1
  <2>3. QED
    BY <2>1, <2>2 DEF G
<1>7. f = F(f)
  <2>1. \A n \in 0 .. L : n # 0 => n \in 1 .. L
    BY <1>1
  <2>2. \A n \in 0 .. L : f[n] = IF n = 0 THEN << >> ELSE Offered(f[n - 1], s[n])
    BY <1>5, <1>6, <2>1 DEF z
  <2>3. QED
    BY <1>5, <2>2
<1>8. Keeps(s) = CHOOSE k : k = F(k)
  BY DEF Keeps, L
<1>9. Keeps(s) = F(Keeps(s))
  BY <1>7, <1>8
<1>10. Keeps(s)[0] = << >> /\ \A n \in 1 .. L : Keeps(s)[n] = Offered(Keeps(s)[n - 1], s[n])
  <2>1. \A n \in 0 .. L : Keeps(s)[n] = F(Keeps(s))[n]
    BY <1>9
  <2>2. 0 \in 0 .. L /\ \A n \in 1 .. L : n \in 0 .. L /\ n # 0
    BY <1>1
  <2>3. QED
    BY <2>1, <2>2
<1>11. \A n \in 0 .. L : Keeps(s)[n] \in S
  <2> DEFINE T == {n \in 0 .. L : Keeps(s)[n] \in S}
  <2>1. 0 \in T
    BY <1>1, <1>2, <1>10 DEF z
  <2>2. \A n \in 0 + 1 .. L : n - 1 \in T => n \in T
    <3> SUFFICES ASSUME NEW n \in 0 + 1 .. L, n - 1 \in T PROVE n \in T
      OBVIOUS
    <3>1. n \in 1 .. L /\ n \in 0 .. L
      BY <1>1
    <3>2. Keeps(s)[n - 1] \in S /\ s[n] \in MegaRow
      BY <1>1, <3>1
    <3>3. QED
      BY <1>10, <3>1, <3>2, OfferedRows DEF S
  <2> HIDE DEF T
  <2>3. \A n \in 0 .. L : n \in T
    <3>1. 0 \in Int /\ L \in Int
      BY <1>1
    <3>2. QED
      BY <2>1, <2>2, <3>1, Interval
  <2>4. QED
    BY <2>3 DEF T
<1>12. QED
  BY <1>10, <1>11 DEF S, L

-----------------------------------------------------------------------------
(* The order of merged results. *)

\* The names of the engines are in an order.
LEMMA EngineOrder ==
  \A d, e, f \in Engines :
    /\ ~ EngineLess(d, d)
    /\ EngineLess(d, e) /\ EngineLess(e, f) => EngineLess(d, f)
    /\ EngineLess(d, f) => EngineLess(d, e) \/ EngineLess(e, f)
    /\ EngineLess(d, e) \/ EngineLess(e, d) \/ d = e
<1> DEFINE no == [e \in Engines |-> IF e = "baidu" THEN 1 ELSE IF e = "bing" THEN 2 ELSE IF e = "duckduckgo" THEN 3
                                    ELSE IF e = "ecosia" THEN 4 ELSE IF e = "google" THEN 5 ELSE 6]
<1>1. \A e \in Engines : no[e] \in 1 .. 6
  OBVIOUS
<1>2. DOMAIN engineNames = 1 .. 6
  BY DEF engineNames
<1>3. \A e \in Engines : \A i \in 1 .. 6 : engineNames[i] = e <=> i = no[e]
  <2> SUFFICES ASSUME NEW e \in Engines, NEW i \in 1 .. 6 PROVE engineNames[i] = e <=> i = no[e]
    OBVIOUS
  <2>1. i \in {1, 2, 3, 4, 5, 6}
    OBVIOUS
  <2>2. engineNames[i] = IF i = 1 THEN "baidu" ELSE IF i = 2 THEN "bing" ELSE IF i = 3 THEN "duckduckgo"
                         ELSE IF i = 4 THEN "ecosia" ELSE IF i = 5 THEN "google" ELSE "yandex"
    BY <2>1 DEF engineNames
  <2>3. e \in {"baidu", "bing", "duckduckgo", "ecosia", "google", "yandex"}
    BY DEF Engines
  <2>4. QED
    BY <2>1, <2>2, <2>3
<1> HIDE DEF no
<1>4. \A d, e \in Engines : EngineLess(d, e) <=> no[d] < no[e]
  BY <1>1, <1>2, <1>3 DEF EngineLess
<1>5. \A d, e \in Engines : no[d] = no[e] => d = e
  BY <1>1, <1>3
<1>6. QED
  <2> SUFFICES ASSUME NEW d \in Engines, NEW e \in Engines, NEW f \in Engines
               PROVE  /\ ~ EngineLess(d, d)
                      /\ EngineLess(d, e) /\ EngineLess(e, f) => EngineLess(d, f)
                      /\ EngineLess(d, f) => EngineLess(d, e) \/ EngineLess(e, f)
                      /\ EngineLess(d, e) \/ EngineLess(e, d) \/ d = e
    OBVIOUS
  <2>1. no[d] \in Int /\ no[e] \in Int /\ no[f] \in Int
    BY <1>1
  <2>2. QED
    BY <1>4, <1>5, <2>1

\* An order within an order.
ThenBy(S, A, B) == {p \in S \X S : p \in A \/ (<<p[2], p[1]>> \notin A /\ p \in B)}

\* An order within an order is one.
LEMMA Lexical ==
  ASSUME NEW S, NEW A, Ordering(A, S), NEW B, Ordering(B, S)
  PROVE  Ordering(ThenBy(S, A, B), S)
<1> DEFINE C == ThenBy(S, A, B)
<1>1. \A x, y \in S : <<x, y>> \in C <=> <<x, y>> \in A \/ (<<y, x>> \notin A /\ <<x, y>> \in B)
  BY DEF ThenBy
<1>2. /\ \A x \in S : <<x, x>> \notin A /\ <<x, x>> \notin B
      /\ \A x, y, z \in S : /\ <<x, y>> \in A /\ <<y, z>> \in A => <<x, z>> \in A
                            /\ <<x, y>> \in B /\ <<y, z>> \in B => <<x, z>> \in B
                            /\ <<x, z>> \in A => <<x, y>> \in A \/ <<y, z>> \in A
                            /\ <<x, z>> \in B => <<x, y>> \in B \/ <<y, z>> \in B
  BY DEF Ordering
<1> HIDE DEF C
<1>3. \A x \in S : <<x, x>> \notin C
  BY <1>1, <1>2
<1>4. ASSUME NEW x \in S, NEW y \in S, NEW z \in S
      PROVE  /\ <<x, y>> \in C /\ <<y, z>> \in C => <<x, z>> \in C
             /\ <<x, z>> \in C => <<x, y>> \in C \/ <<y, z>> \in C
  <2> DEFINE a(u, v) == <<u, v>> \in A
             b(u, v) == <<u, v>> \in B
             c(u, v) == <<u, v>> \in C
  <2>1. /\ ~ a(x, x) /\ ~ a(y, y) /\ ~ a(z, z)
        /\ (a(x, y) => a(x, z) \/ a(z, y)) /\ (a(x, z) => a(x, y) \/ a(y, z))
        /\ (a(y, z) => a(y, x) \/ a(x, z)) /\ (a(z, x) => a(z, y) \/ a(y, x))
        /\ (a(y, x) => a(y, z) \/ a(z, x)) /\ (a(z, y) => a(z, x) \/ a(x, y))
        /\ (a(x, y) /\ a(y, z) => a(x, z)) /\ (a(x, y) /\ a(y, x) => a(x, x)) /\ (a(y, z) /\ a(z, y) => a(y, y))
        /\ (a(x, z) /\ a(z, x) => a(x, x))
        /\ (b(x, y) /\ b(y, z) => b(x, z)) /\ (b(x, z) => b(x, y) \/ b(y, z))
    BY <1>2, Zenon
  <2>2. /\ c(x, y) <=> a(x, y) \/ (~ a(y, x) /\ b(x, y))
        /\ c(y, z) <=> a(y, z) \/ (~ a(z, y) /\ b(y, z))
        /\ c(x, z) <=> a(x, z) \/ (~ a(z, x) /\ b(x, z))
    BY <1>1, Zenon
  <2> HIDE DEF a, b, c
  <2>3. (c(x, y) /\ c(y, z) => c(x, z)) /\ (c(x, z) => c(x, y) \/ c(y, z))
    BY <2>1, <2>2
  <2>4. QED
    BY <2>3 DEF c
<1>5. QED
  BY <1>3, <1>4 DEF Ordering, C

\* The order of merged results.
RowsInOrder == {p \in MegaRow \X MegaRow : resultLess(p[1], p[2])}
EnginesInOrder == {p \in MegaRow \X MegaRow : EngineLess(p[1].engine, p[2].engine)}
UrlsInOrder == {p \in MegaRow \X MegaRow : UrlLess(normalizeURL(p[1].url), normalizeURL(p[2].url))}
MegaLess == {p \in MegaRow \X MegaRow : megaLess(p[1], p[2])}

\* sortMegaResults compares by an order.
LEMMA MegaOrder == Ordering(MegaLess, MegaRow)
<1> DEFINE row(r) == [url |-> r.url, ad |-> r.ad, rank |-> r.rank, abs |-> r.abs]
<1>1. Ordering(RowsInOrder, MegaRow)
  <2>1. \A r \in MegaRow : row(r) \in Row
    BY DEF MegaRow, Row
  <2>2. \A l, m \in MegaRow : resultLess(l, m) <=> resultLess(row(l), row(m))
    BY DEF resultLess, resultSortPosition
  <2> HIDE DEF row
  <2>3. \A l, m \in MegaRow : <<l, m>> \in RowsInOrder <=> resultLess(row(l), row(m))
    BY <2>2 DEF RowsInOrder
  <2>4. QED
    BY <2>1, <2>3, RowOrder DEF Ordering
<1>2. Ordering(EnginesInOrder, MegaRow)
  <2>1. \A l, m \in MegaRow : <<l, m>> \in EnginesInOrder <=> EngineLess(l.engine, m.engine)
    BY DEF EnginesInOrder
  <2>2. \A r \in MegaRow : r.engine \in Engines
    BY DEF MegaRow
  <2>3. QED
    BY <2>1, <2>2, EngineOrder DEF Ordering
<1>3. Ordering(UrlsInOrder, MegaRow)
  <2>1. \A l, m \in MegaRow : <<l, m>> \in UrlsInOrder <=> l.url[1] < m.url[1]
    BY DEF UrlsInOrder, UrlLess, normalizeURL
  <2>2. \A r \in MegaRow : r.url[1] \in Int
    BY DEF MegaRow
  <2>3. QED
    BY <2>1, <2>2 DEF Ordering
<1> DEFINE Inner == ThenBy(MegaRow, EnginesInOrder, UrlsInOrder)
           Outer == ThenBy(MegaRow, RowsInOrder, Inner)
<1>4. Ordering(Inner, MegaRow)
  BY <1>2, <1>3, Lexical
<1>5. Ordering(Outer, MegaRow)
  <2> HIDE DEF Inner
  <2>1. QED
    BY <1>1, <1>4, Lexical
<1>6. MegaLess = Outer
  <2>1. \A r, s \in MegaRow : <<r, s>> \in Inner <=>
          EngineLess(r.engine, s.engine) \/ (r.engine = s.engine /\ UrlLess(normalizeURL(r.url), normalizeURL(s.url)))
    <3>1. \A r, s \in MegaRow : <<r, s>> \in Inner <=>
            \/ <<r, s>> \in EnginesInOrder
            \/ <<s, r>> \notin EnginesInOrder /\ <<r, s>> \in UrlsInOrder
      BY DEF ThenBy
    <3>2. \A r, s \in MegaRow : /\ <<r, s>> \in EnginesInOrder <=> EngineLess(r.engine, s.engine)
                                /\ <<r, s>> \in UrlsInOrder <=> UrlLess(normalizeURL(r.url), normalizeURL(s.url))
      BY DEF EnginesInOrder, UrlsInOrder
    <3>3. \A r \in MegaRow : r.engine \in Engines
      BY DEF MegaRow
    <3> HIDE DEF Inner
    <3>4. QED
      BY <3>1, <3>2, <3>3, EngineOrder
  <2>2. \A r, s \in MegaRow : <<r, s>> \in Outer <=>
          \/ <<r, s>> \in RowsInOrder
          \/ <<s, r>> \notin RowsInOrder /\ <<r, s>> \in Inner
    <3> HIDE DEF Inner
    <3>1. QED
      BY DEF ThenBy
  <2>3. \A r, s \in MegaRow : <<r, s>> \in RowsInOrder <=> resultLess(r, s)
    BY DEF RowsInOrder
  <2>4. \A r, s \in MegaRow : <<r, s>> \in MegaLess <=> megaLess(r, s)
    BY DEF MegaLess
  <2>5. MegaLess \subseteq MegaRow \X MegaRow /\ Outer \subseteq MegaRow \X MegaRow
    BY DEF MegaLess, ThenBy
  <2> HIDE DEF Inner, Outer
  <2>6. \A r, s \in MegaRow : <<r, s>> \in MegaLess <=> <<r, s>> \in Outer
    BY <2>1, <2>2, <2>3, <2>4 DEF megaLess
  <2>7. QED
    BY <2>5, <2>6
<1>7. QED
  BY <1>5, <1>6

\* Sorted merged results are a permutation of them, by that order.
LEMMA MegaSorted ==
  ASSUME NEW s \in Seq(MegaRow)
  PROVE  /\ Sorted(s, megaLess) \in Seq(MegaRow)
         /\ \E q : /\ Moves(q, s, Sorted(s, megaLess))
                   /\ \A i, j \in DOMAIN s : j \in Upto(s, MegaLess, i) <=> q[j] <= q[i]
<1> DEFINE at(k) == CHOOSE i \in DOMAIN s : Place(s, i, megaLess) = k
           sorted == [k \in DOMAIN s |-> s[at(k)]]
<1>1. Sorted(s, megaLess) = SubSeq(sorted, 1, Len(s))
  <2>1. [t \in {s} |-> [k \in DOMAIN t |-> t[CHOOSE i \in DOMAIN t : Place(t, i, megaLess) = k]]][s] = sorted
    OBVIOUS
  <2>2. QED
    BY <2>1 DEF Sorted
<1>2. \A i, j \in DOMAIN s : megaLess(s[i], s[j]) <=> <<s[i], s[j]>> \in MegaLess
  BY DEF MegaLess
<1>3. \A i \in DOMAIN s : Place(s, i, megaLess) = Cardinality(Upto(s, MegaLess, i))
  <2> SUFFICES ASSUME NEW i \in DOMAIN s
               PROVE  Place(s, i, megaLess) = Cardinality(Upto(s, MegaLess, i))
    OBVIOUS
  <2>1. Upto(s, MegaLess, i)
          = {j \in DOMAIN s : megaLess(s[j], s[i]) \/ (~ megaLess(s[i], s[j]) /\ j <= i)}
    BY <1>2 DEF Upto
  <2>2. QED
    BY <2>1 DEF Place
<1> DEFINE by(k) == CHOOSE i \in DOMAIN s : Cardinality(Upto(s, MegaLess, i)) = k
<1>4. \A k \in DOMAIN s : at(k) = by(k)
  <2> SUFFICES ASSUME NEW k \in DOMAIN s PROVE at(k) = by(k)
    OBVIOUS
  <2>1. LET q == [i \in DOMAIN s |-> Cardinality(Upto(s, MegaLess, i))]
        IN  /\ \A i, j \in DOMAIN s : q[i] = q[j] => i = j
            /\ \E i \in DOMAIN s : q[i] = k
    BY MegaOrder, PlacesOfMembers
  <2>2. PICK i \in DOMAIN s : Cardinality(Upto(s, MegaLess, i)) = k
    BY <2>1
  <2>3. \A j \in DOMAIN s : Cardinality(Upto(s, MegaLess, j)) = k => j = i
    BY <2>1, <2>2
  <2>4. QED
    BY <1>3, <2>2, <2>3
<1>5. sorted = [k \in DOMAIN s |-> s[by(k)]]
  <2> HIDE DEF at, by
  <2> QED
    BY <1>4
<1> HIDE DEF sorted
<1>6. QED
  BY <1>1, <1>5, MegaOrder, SortedMembers

\* Merged results are rows that arrived.
LEMMA MergedRows ==
  ASSUME NEW s \in Seq(MegaRow)
  PROVE  /\ deduplicateMegaResults(s) = Sorted(Keeps(s)[Len(s)], megaLess)
         /\ deduplicateMegaResults(s) \in Seq(MegaRow)
         /\ \A k \in DOMAIN deduplicateMegaResults(s) : \E i \in DOMAIN s : deduplicateMegaResults(s)[k] = s[i]
<1> DEFINE L == Len(s)
           t == Keeps(s)[L]
           m == deduplicateMegaResults(s)
           T == {n \in 0 .. L : \A k \in DOMAIN Keeps(s)[n] : \E i \in DOMAIN s : Keeps(s)[n][k] = s[i]}
<1>1. m = Sorted(Keeps(s)[Len(s)], megaLess)
  BY DEF deduplicateMegaResults, Keeps
<1>2. /\ Keeps(s)[0] = << >> /\ \A n \in 0 .. Len(s) : Keeps(s)[n] \in Seq(MegaRow)
      /\ \A n \in 1 .. Len(s) : Keeps(s)[n] = Offered(Keeps(s)[n - 1], s[n])
  BY KeepsSteps
<1>3. L \in Nat /\ DOMAIN s = 1 .. L /\ t \in Seq(MegaRow)
  BY <1>2
<1>4. \A n \in 0 .. L : n \in T
  <2>1. 0 \in T
    BY <1>2, <1>3
  <2>2. \A n \in 0 + 1 .. L : n - 1 \in T => n \in T
    <3> SUFFICES ASSUME NEW n \in 0 + 1 .. L, n - 1 \in T PROVE n \in T
      OBVIOUS
    <3>1. n \in 1 .. L /\ n \in 0 .. L /\ n - 1 \in 0 .. L /\ n \in DOMAIN s
      BY <1>3
    <3>2. Keeps(s)[n - 1] \in Seq(MegaRow) /\ s[n] \in MegaRow /\ Keeps(s)[n] = Offered(Keeps(s)[n - 1], s[n])
      BY <1>2, <3>1
    <3>3. \A j \in DOMAIN Keeps(s)[n] : Keeps(s)[n][j] = s[n]
            \/ (j \in DOMAIN Keeps(s)[n - 1] /\ Keeps(s)[n][j] = Keeps(s)[n - 1][j])
      BY <3>2, OfferedRows
    <3>4. QED
      BY <3>1, <3>3
  <2>3. QED
    <3>1. 0 \in Int /\ L \in Int
      BY <1>3
    <3> HIDE DEF T, L, t, m
    <3>2. QED
      BY <2>1, <2>2, <3>1, Interval
<1>5. \A k \in DOMAIN t : \E i \in DOMAIN s : t[k] = s[i]
  BY <1>3, <1>4
<1> HIDE DEF t, m
<1>6. m = Sorted(t, megaLess)
  BY <1>1 DEF t
<1>7. m \in Seq(MegaRow) /\ \E q : Moves(q, t, m)
  BY <1>3, <1>6, MegaSorted
<1>8. PICK q : Moves(q, t, m)
  BY <1>7
<1>9. \A k \in DOMAIN m : \E i \in DOMAIN t : m[k] = t[i]
  <2>1. DOMAIN m = DOMAIN t
    BY <1>3, <1>7, <1>8 DEF Moves
  <2>2. QED
    BY <1>8, <2>1 DEF Moves
<1>10. QED
  BY <1>1, <1>5, <1>7, <1>9 DEF m

-----------------------------------------------------------------------------
(* Types of a client, and rows that arrive, are kept. *)

\* While engines are asked, their pages are as the lemmas say.
LEMMA Asking ==
  ASSUME ClientTypes, turn = "asking"
  PROVE  Asked /\ client \in Clients /\ client.limit \in 1 .. MaxQueryLimit /\ client.limit \in Nat \ {0}
<1>1. MaxQueryLimit \in Nat
  BY PagedAssumption
<1>2. client.limit \in 1 .. MaxQueryLimit /\ start \in Nat /\ ads \in BOOLEAN /\ obeys \in BOOLEAN /\ client \in Clients
  BY DEF ClientTypes
<1>3. client.limit \in Nat \ {0}
  BY <1>1, <1>2
<1>4. QED
  BY <1>2, <1>3 DEF Asked

\* Who the client is never changes.
LEMMA SameClient ==
  ASSUME UNCHANGED client
  PROVE  one' = one /\ the' = the
BY DEF one, the

\* A client that has asked for nothing yet.
LEMMA ClientTypesInit ==
  ASSUME PagedInit
  PROVE  ClientTypes
<1>1. client \in Clients /\ start = client.start
  BY DEF PagedInit
<1>2. client.start \in Int
  BY <1>1, ClientFacts
<1>3. start \in Int /\ start >= client.start
  BY <1>1, <1>2
<1>4. ads \in BOOLEAN /\ obeys \in BOOLEAN /\ turn = "sending" /\ waiting = {}
  BY DEF PagedInit
<1>5. client.limit % PageSize = 0 /\ client.start % PageSize = 0 => start % PageSize = 0
  BY <1>1
<1>6. QED
  BY <1>1, <1>3, <1>4, <1>5 DEF ClientTypes

\* Every action keeps the types: next_start is behind start and, for pages of
\* whole page sizes, a page's first place again.
LEMMA ClientTypesStep ==
  ASSUME ClientTypes, [PagedNext]_pagedVars
  PROVE  ClientTypes'
<1>1. client \in Clients /\ ads \in BOOLEAN /\ obeys \in BOOLEAN
  BY DEF ClientTypes
<1>2. client.start \in Int /\ client.limit \in Int
  BY <1>1, ClientFacts
<1>3. start \in Int /\ start >= client.start /\ waiting \subseteq client.engines
      /\ (client.limit % PageSize = 0 /\ client.start % PageSize = 0 => start % PageSize = 0)
  BY DEF ClientTypes
<1>4. start # client.start => client.start \in Nat
  BY DEF ClientTypes
<1>5. CASE InitFromContext
  <2>1. UNCHANGED <<client, start, ads, obeys>>
    BY <1>5 DEF InitFromContext
  <2>2. CASE client.limit \in 1 .. MaxQueryLimit /\ start >= 0
    <3>1. turn' = "asking" /\ waiting' = client.engines
      BY <1>5, <2>2 DEF InitFromContext
    <3>2. start \in Nat
      BY <1>3, <2>2
    <3>3. client.start \in Nat
      BY <1>4, <3>2
    <3>4. QED
      BY <1>1, <1>3, <2>1, <2>2, <3>1, <3>2, <3>3 DEF ClientTypes
  <2>3. CASE ~ (client.limit \in 1 .. MaxQueryLimit /\ start >= 0)
    <3>1. turn' = "left" /\ waiting' = waiting
      BY <1>5, <2>3 DEF InitFromContext
    <3>2. QED
      BY <1>1, <1>3, <1>4, <2>1, <3>1 DEF ClientTypes
  <2>4. QED
    BY <2>2, <2>3
<1>6. CASE Envelope
  <2>1. UNCHANGED <<client, start, ads, obeys, waiting>> /\ turn = "asking" /\ turn' = "answered"
    BY <1>6 DEF Envelope
  <2>2. QED
    BY <2>1 DEF ClientTypes
<1>7. CASE NextPage
  <2>1. UNCHANGED <<client, ads, obeys, waiting>> /\ turn = "answered" /\ turn' = "sending" /\ start' = start + client.limit
    BY <1>7 DEF NextPage, NextStart
  <2>2. client.limit \in 1 .. MaxQueryLimit /\ start \in Nat /\ client.start \in Nat
    BY <2>1 DEF ClientTypes
  <2>3. MaxQueryLimit \in Nat
    BY PagedAssumption
  <2>4. start' \in Int /\ start' >= client.start
    BY <1>2, <1>3, <2>1, <2>2, <2>3
  <2>5. client.limit % PageSize = 0 /\ client.start % PageSize = 0 => start' % PageSize = 0
    <3>1. PageSize \in Nat \ {0}
      BY SerpRowsAssumption
    <3>2. client.limit % PageSize = 0 /\ client.start % PageSize = 0 => (start + client.limit) % PageSize = 0
      BY <1>2, <1>3, <3>1, SumOfMultiples
    <3>3. QED
      BY <2>1, <3>2
  <2>6. QED
    BY <1>1, <1>3, <2>1, <2>2, <2>4, <2>5 DEF ClientTypes
<1>8. CASE NoMore
  <2>1. UNCHANGED <<client, start, ads, obeys, waiting>> /\ turn' = "left"
    BY <1>8 DEF NoMore
  <2>2. QED
    BY <2>1 DEF ClientTypes
<1>9. CASE \E e \in Engines : EngineAnswers(e) \/ EngineFails(e)
  <2>1. /\ UNCHANGED <<client, start, ads, obeys>> /\ turn = "asking" /\ turn' \in {"asking", "left"}
        /\ waiting' \subseteq waiting
    BY <1>9 DEF EngineAnswers, EngineFails
  <2>2. QED
    BY <2>1 DEF ClientTypes
<1>10. CASE UNCHANGED pagedVars
  BY <1>10 DEF pagedVars, ClientTypes
<1>11. QED
  BY <1>5, <1>6, <1>7, <1>8, <1>9, <1>10 DEF PagedNext

\* What arrives is rows that are where their ranks say.
LEMMA ArrivedRowsStep ==
  ASSUME ClientTypes, ArrivedRows, [PagedNext]_pagedVars
  PROVE  ArrivedRows'
<1>1. CASE InitFromContext
  <2>1. arrived' = << >>
    BY <1>1 DEF InitFromContext
  <2>2. QED
    BY <2>1 DEF ArrivedRows
<1>2. CASE Envelope \/ NextPage \/ NoMore
  <2>1. turn' # "asking"
    BY <1>2 DEF Envelope, NextPage, NoMore
  <2>2. QED
    BY <2>1 DEF ArrivedRows
<1>3. ASSUME NEW e \in Engines, EngineAnswers(e) PROVE ArrivedRows'
  <2>1. /\ turn = "asking" /\ e \in waiting /\ UNCHANGED <<client, start, ads>>
    BY <1>3 DEF EngineAnswers
  <2>2. PICK s \in AnswersOf(e) : arrived' = arrived \o [i \in DOMAIN s |-> Of(e, s[i])]
    BY <1>3 DEF EngineAnswers
  <2> DEFINE t == [i \in DOMAIN s |-> Of(e, s[i])]
  <2>3. e \in client.engines /\ Asked /\ client \in Clients
    BY <2>1, Asking DEF ClientTypes
  <2>4. s \in Seq(Row) /\ \A i \in DOMAIN s : Of(e, s[i]) \in MegaRow /\ Placed(Of(e, s[i]))
    BY <2>3, OutcomeRows
  <2>5. t \in Seq(MegaRow) /\ \A i \in DOMAIN t : Placed(t[i])
    <3>1. Len(s) \in Nat /\ DOMAIN s = 1 .. Len(s)
      BY <2>4
    <3>2. t \in [1 .. Len(s) -> MegaRow] /\ DOMAIN t = DOMAIN s /\ \A i \in DOMAIN s : t[i] = Of(e, s[i])
      BY <2>4, <3>1
    <3> HIDE DEF t
    <3>3. QED
      BY <2>4, <3>1, <3>2
  <2>6. arrived \in Seq(MegaRow) /\ \A i \in DOMAIN arrived : Placed(arrived[i])
    BY <2>1 DEF ArrivedRows
  <2> HIDE DEF t
  <2>7. arrived' = arrived \o t
    BY <2>2 DEF t
  <2>8. arrived' \in Seq(MegaRow) /\ \A k \in DOMAIN arrived' : Placed(arrived'[k])
    <3> DEFINE u == arrived \o t
    <3>1. u \in Seq(MegaRow) /\ Len(arrived) \in Nat /\ Len(t) \in Nat /\ DOMAIN u = 1 .. Len(arrived) + Len(t)
          /\ DOMAIN arrived = 1 .. Len(arrived) /\ DOMAIN t = 1 .. Len(t)
      BY <2>5, <2>6
    <3>2. \A k \in DOMAIN u : u[k] = IF k <= Len(arrived) THEN arrived[k] ELSE t[k - Len(arrived)]
      BY <2>5, <2>6
    <3>3. \A k \in DOMAIN u : IF k <= Len(arrived) THEN k \in DOMAIN arrived ELSE k - Len(arrived) \in DOMAIN t
      BY <3>1
    <3> HIDE DEF u
    <3>4. \A k \in DOMAIN u : Placed(u[k])
      BY <2>5, <2>6, <3>2, <3>3
    <3>5. QED
      BY <2>7, <3>1, <3>4 DEF u
  <2>9. \A r : Placed(r) => Placed(r)'
    BY <2>1 DEF Placed
  <2>10. QED
    BY <2>8, <2>9 DEF ArrivedRows
<1>4. ASSUME NEW e \in Engines, EngineFails(e) PROVE ArrivedRows'
  <2>1. turn = "asking" /\ UNCHANGED <<client, start, ads, arrived>>
    BY <1>4 DEF EngineFails
  <2>2. QED
    BY <2>1 DEF ArrivedRows, Placed
<1>5. CASE UNCHANGED pagedVars
  BY <1>5 DEF pagedVars, ArrivedRows, Placed
<1>6. QED
  BY <1>1, <1>2, <1>3, <1>4, <1>5 DEF PagedNext

-----------------------------------------------------------------------------
(* What the only engine answers is kept. *)

\* What an engine at rest has said stays true.
LEMMA FetchedStays ==
  ASSUME UNCHANGED <<client, start, ads, obeys>>, NEW s
  PROVE  Fetched(s)' <=> Fetched(s)
<1>1. the' = the
  BY SameClient
<1>2. QED
  BY <1>1 DEF Fetched, Fetches, Within, FirstRank

\* The outcome of an engine that is asked alone.
LEMMA OutcomeFetched ==
  ASSUME Asked, client \in Clients, client.kind # "image", NEW e \in client.engines, e = the, NEW s \in AnswersOf(e)
  PROVE  Fetched(s)
<1>1. e \in Engines /\ client.kind \in {"web", "raw"} /\ (client.kind = "raw" => e \in RawEngines)
  BY ClientFacts
<1>2. CASE client.kind = "web"
  <2>1. s = WebRows(e)
    BY <1>2 DEF AnswersOf
  <2>2. PICK n \in Nat : /\ Fetches(e, WebRows(e), n) /\ Within(e, n, TRUE)
                         /\ e # "google" => NoAnswers(WebRows(e))
    BY <1>1, WebPage
  <2>3. (client.kind = "web") = TRUE
    BY <1>2
  <2>4. QED
    BY <1>2, <2>1, <2>2, <2>3 DEF Fetched
<1>3. CASE client.kind = "raw"
  <2>1. s = DocumentRows(e)
    BY <1>3 DEF AnswersOf
  <2>2. PICK n \in Nat : Fetches(e, DocumentRows(e), n) /\ Within(e, n, FALSE) /\ NoAnswers(DocumentRows(e))
    BY <1>1, <1>3, DocumentPage
  <2>3. (client.kind = "web") = FALSE
    BY <1>3
  <2>4. QED
    BY <2>1, <2>2, <2>3 DEF Fetched
<1>4. QED
  BY <1>1, <1>2, <1>3

\* Every action keeps OneOutcome: the answer of the only engine is a page of it.
LEMMA OneOutcomeStep ==
  ASSUME ClientTypes, OneOutcome, [PagedNext]_pagedVars
  PROVE  OneOutcome'
<1>1. CASE InitFromContext
  <2>1. UNCHANGED client /\ arrived' = << >> /\ (turn' = "asking" => waiting' = client.engines)
    BY <1>1 DEF InitFromContext
  <2>2. QED
    BY <2>1 DEF OneOutcome
<1>2. CASE Envelope \/ NextPage \/ NoMore
  <2>1. turn' # "asking"
    BY <1>2 DEF Envelope, NextPage, NoMore
  <2>2. QED
    BY <2>1 DEF OneOutcome
<1>3. ASSUME NEW e \in Engines, EngineAnswers(e) PROVE OneOutcome'
  <2> SUFFICES ASSUME one', turn' = "asking" PROVE OneOutcome'
    BY DEF OneOutcome
  <2>1. /\ turn = "asking" /\ e \in waiting /\ waiting' = waiting \ {e} /\ UNCHANGED <<client, start, ads, obeys>>
    BY <1>3 DEF EngineAnswers
  <2>2. one /\ one' = one /\ the' = the /\ client \in Clients
    BY <2>1, SameClient DEF ClientTypes
  <2>3. client.engines = {the} /\ waiting \subseteq client.engines /\ Asked
    BY <2>1, <2>2, ClientFacts, Asking DEF ClientTypes
  <2>4. e = the /\ waiting' = {} /\ waiting # {}
    BY <2>1, <2>3
  <2>5. arrived = << >>
    BY <2>1, <2>2, <2>4 DEF OneOutcome
  <2>6. PICK s \in AnswersOf(e) : arrived' = arrived \o [i \in DOMAIN s |-> Of(e, s[i])]
    BY <1>3 DEF EngineAnswers
  <2> DEFINE t == [i \in DOMAIN s |-> Of(e, s[i])]
  <2>7. s \in Seq(Row)
    BY <2>2, <2>3, <2>4, OutcomeRows
  <2>8. arrived' = t
    <3>1. Len(s) \in Nat /\ DOMAIN s = 1 .. Len(s)
      BY <2>7
    <3>2. t \in Seq({t[i] : i \in DOMAIN s})
      BY <3>1
    <3> HIDE DEF t
    <3>3. << >> \o t = t
      BY <3>2
    <3>4. QED
      BY <2>5, <2>6, <3>3 DEF t
  <2>9. client.kind # "image" => Fetched(s)
    BY <2>2, <2>3, <2>4, OutcomeFetched
  <2>10. Fetched(s) => Fetched(s)'
    BY <2>1, FetchedStays
  <2>11. (client.kind # "image" =>
           \E z : Fetched(z) /\ arrived = [i \in DOMAIN z |-> Of(the, z[i])])'
    BY <2>1, <2>2, <2>4, <2>8, <2>9, <2>10
  <2>12. QED
    BY <2>4, <2>11 DEF OneOutcome
<1>4. ASSUME NEW e \in Engines, EngineFails(e) PROVE OneOutcome'
  <2>1. UNCHANGED client /\ (one => turn' = "left")
    BY <1>4 DEF EngineFails
  <2>2. one' = one
    BY <2>1, SameClient
  <2>3. QED
    BY <2>1, <2>2 DEF OneOutcome
<1>5. CASE UNCHANGED pagedVars
  <2>1. UNCHANGED <<client, start, ads, obeys, turn, waiting, arrived>>
    BY <1>5 DEF pagedVars
  <2>2. one' = one /\ the' = the
    BY <2>1, SameClient
  <2>3. \A s : Fetched(s) <=> Fetched(s)'
    BY <2>1, FetchedStays
  <2>4. QED
    BY <2>1, <2>2, <2>3 DEF OneOutcome
<1>6. QED
  BY <1>1, <1>2, <1>3, <1>4, <1>5 DEF PagedNext

-----------------------------------------------------------------------------
(* Ranks in the envelope. *)

\* What of a row shows in the envelope.
LEMMA EnrichedRow ==
  ASSUME NEW r \in MegaRow
  PROVE  /\ EnrichResult(r).engine = r.engine /\ EnrichResult(r).url = normalizeURL(r.url)
         /\ EnrichResult(r).type = "organic" <=> ~ r.ad /\ r.rank >= 0
         /\ EnrichResult(r).type = "ad" <=> r.ad
         /\ r.rank >= 0 => EnrichResult(r).rank = r.rank
         /\ r.abs > 0 => EnrichResult(r).position = r.abs
<1>1. r.rank \in Int /\ r.ad \in BOOLEAN
  BY DEF MegaRow
<1>2. r.rank < 0 <=> ~ r.rank >= 0
  BY <1>1
<1>3. /\ EnrichResult(r).engine = r.engine /\ EnrichResult(r).url = normalizeURL(r.url)
      /\ EnrichResult(r).type = (IF r.ad THEN "ad" ELSE IF r.rank < 0 THEN "people_also_ask" ELSE "organic")
      /\ r.rank >= 0 => EnrichResult(r).rank = r.rank
      /\ EnrichResult(r).position = computeResultPosition(r)
  BY DEF EnrichResult
<1>4. r.abs > 0 => computeResultPosition(r) = r.abs
  BY DEF computeResultPosition
<1>5. QED
  BY <1>1, <1>2, <1>3, <1>4

\* What an organic result, or an image, says of its place.
PlaceTold(r) ==
  r.type = "organic" =>
    /\ normalizeURL(Ranking[r.engine][r.rank]) = r.url
    /\ \/ ads \/ client.kind = "image"
       \/ r.engine = "ecosia" /\ client.kind = "web" /\ start % PageSize # 0
       \/ r.position = r.rank

\* EnrichResult shows the place of a row that is at its place.
LEMMA PlacedTells ==
  ASSUME NEW r \in MegaRow, Placed(r)
  PROVE  PlaceTold(EnrichResult(r))
<1> DEFINE x == EnrichResult(r)
<1>1. /\ x.engine = r.engine /\ x.url = normalizeURL(r.url) /\ (x.type = "organic" => ~ r.ad /\ r.rank >= 0)
      /\ (r.rank >= 0 => x.rank = r.rank) /\ (r.abs > 0 => x.position = r.abs)
  BY EnrichedRow
<1> HIDE DEF x
<1>2. r.rank >= 0 /\ ~ r.ad =>
        /\ r.rank > 0 /\ Ranking[r.engine][r.rank] = r.url
        /\ \/ ads \/ client.kind = "image" \/ r.abs = r.rank
           \/ r.engine = "ecosia" /\ client.kind = "web" /\ start % PageSize # 0
  <2>1. \A L : r.rank \in 1 .. L => r.rank > 0
    BY DEF MegaRow
  <2>2. QED
    BY <2>1 DEF Placed
<1>3. x.type = "organic" => /\ normalizeURL(Ranking[x.engine][x.rank]) = x.url
                            /\ \/ ads \/ client.kind = "image" \/ x.position = x.rank
                               \/ x.engine = "ecosia" /\ client.kind = "web" /\ start % PageSize # 0
  BY <1>1, <1>2
<1>4. QED
  BY <1>3 DEF PlaceTold, x

\* The rows of the envelope are rows that arrived.
LEMMA EnvelopeRows ==
  ASSUME arrived \in Seq(MegaRow)
  PROVE  LET s == IF one THEN arrived ELSE MegaResults
         IN  s \in Seq(MegaRow) /\ \A k \in DOMAIN s : \E i \in DOMAIN arrived : s[k] = arrived[i]
<1>1. /\ deduplicateMegaResults(arrived) \in Seq(MegaRow)
      /\ \A k \in DOMAIN deduplicateMegaResults(arrived) : \E i \in DOMAIN arrived :
            deduplicateMegaResults(arrived)[k] = arrived[i]
  BY MergedRows
<1>2. QED
  BY <1>1 DEF MegaResults

\* Every action keeps RanksArePlaces: the envelope is of rows that arrived.
LEMMA RanksStep ==
  ASSUME ClientTypes, ArrivedRows, RanksArePlaces, [PagedNext]_pagedVars
  PROVE  RanksArePlaces'
<1>1. CASE Envelope
  <2> DEFINE s == IF one THEN arrived ELSE MegaResults
  <2>1. turn = "asking" /\ results' = Enriched(s) /\ UNCHANGED <<client, start, ads>>
    BY <1>1 DEF Envelope
  <2>2. arrived \in Seq(MegaRow) /\ \A i \in DOMAIN arrived : Placed(arrived[i])
    BY <2>1 DEF ArrivedRows
  <2>3. s \in Seq(MegaRow) /\ \A k \in DOMAIN s : \E i \in DOMAIN arrived : s[k] = arrived[i]
    BY <2>2, EnvelopeRows
  <2> HIDE DEF s
  <2>4. \A k \in DOMAIN s : s[k] \in MegaRow /\ Placed(s[k])
    BY <2>2, <2>3
  <2>5. \A k \in DOMAIN s : PlaceTold(EnrichResult(s[k]))
    BY <2>4, PlacedTells
  <2>6. DOMAIN results' = DOMAIN s /\ \A k \in DOMAIN s : results'[k] = EnrichResult(s[k])
    BY <2>1 DEF Enriched
  <2>7. \A k \in DOMAIN results' : PlaceTold(results'[k])
    BY <2>5, <2>6
  <2>8. QED
    BY <2>1, <2>7 DEF RanksArePlaces, PlaceTold
<1>2. CASE InitFromContext \/ NextPage \/ NoMore
  <2>1. turn' # "answered"
    BY <1>2 DEF InitFromContext, NextPage, NoMore
  <2>2. QED
    BY <2>1 DEF RanksArePlaces
<1>3. CASE \E e \in Engines : EngineAnswers(e) \/ EngineFails(e)
  <2>1. turn' # "answered"
    BY <1>3 DEF EngineAnswers, EngineFails
  <2>2. QED
    BY <2>1 DEF RanksArePlaces
<1>4. CASE UNCHANGED pagedVars
  BY <1>4 DEF pagedVars, RanksArePlaces
<1>5. QED
  BY <1>1, <1>2, <1>3, <1>4 DEF PagedNext

-----------------------------------------------------------------------------
(* A page of a walk. *)

\* Where the pages fit together, one begins at the start, and has no more than
\* the limit.
LEMMA AlignedPage ==
  ASSUME ClientTypes, turn = "asking", one, Aligned, client.kind # "image"
  PROVE  /\ FirstRank(the) = start
         /\ client.limit >= PageSize \/ (client.kind = "web" /\ the \notin {"google", "baidu"})
         /\ the = "google" /\ client.kind = "web" =>
              client.limit = PageSize \/ (client.limit > PageSize /\ obeys)
<1>1. Asked /\ client \in Clients /\ client.limit \in Nat \ {0} /\ start \in Nat
  BY Asking DEF Asked
<1>2. the \in Engines /\ client.kind \in {"web", "raw"}
  BY <1>1, ClientFacts
<1>3. PageSize \in Nat \ {0}
  BY SerpRowsAssumption
<1>4. the = "ecosia" => client.limit % PageSize = 0 /\ client.start % PageSize = 0 /\ start % PageSize = 0
  BY DEF Aligned, ClientTypes
<1>5. FirstRank(the) = start
  <2> DEFINE f == firstPage(start) * PageSize
  <2>1. /\ f \in Nat /\ ComputePagination(start).skip \in 0 .. PageSize - 1
        /\ f + ComputePagination(start).skip = start /\ ComputePagination(start).skip = start % PageSize
    BY <1>1, StartPage
  <2>2. FirstRank(the) = IF the = "ecosia" THEN f ELSE start
    BY DEF FirstRank
  <2> HIDE DEF f
  <2>3. start % PageSize = 0 => f = start
    BY <1>1, <2>1
  <2>4. QED
    BY <1>4, <2>2, <2>3
<1>6. client.limit % PageSize = 0 => client.limit >= PageSize
  <2> SUFFICES ASSUME client.limit % PageSize = 0, ~ client.limit >= PageSize PROVE FALSE
    OBVIOUS
  <2>1. client.limit \in 1 .. PageSize - 1
    BY <1>1, <1>3
  <2>2. client.limit % PageSize = client.limit
    BY <1>3, <2>1
  <2>3. QED
    BY <1>1, <2>2
<1>7. CASE the \in {"duckduckgo", "bing", "yandex"} /\ client.kind = "web"
  BY <1>5, <1>7
<1>8. CASE the = "ecosia"
  BY <1>4, <1>5, <1>6, <1>8
<1>9. CASE the = "google" /\ client.kind = "web"
  <2>1. client.limit = PageSize \/ (client.limit > PageSize /\ obeys)
    BY <1>9 DEF Aligned
  <2>2. client.limit >= PageSize
    BY <1>1, <1>3, <2>1
  <2>3. QED
    BY <1>5, <2>1, <2>2
<1>10. CASE ~ (the \in {"duckduckgo", "bing", "yandex"} /\ client.kind = "web") /\ the # "ecosia"
            /\ ~ (the = "google" /\ client.kind = "web")
  <2>1. client.limit >= PageSize
    BY <1>10 DEF Aligned
  <2>2. QED
    BY <1>5, <1>10, <2>1
<1>11. QED
  BY <1>7, <1>8, <1>9, <1>10

\* The places of the organic results of a page that begins at the start.
LEMMA PlacesAre ==
  ASSUME Asked, one, client \in Clients, NEW s, NEW n, Fetches(the, s, n), FirstRank(the) = start,
         arrived = [i \in DOMAIN s |-> Of(the, s[i])]
  PROVE  /\ Places = [k \in 1 .. Available(the, start, n) |-> start + k]
         /\ Available(the, start, n) \in Nat /\ n \in Nat
<1> DEFINE c == Available(the, start, n)
           O == {i \in DOMAIN arrived : EnrichResult(arrived[i]).type = "organic"}
           t == Kept(arrived, O)
           u == Ranking[the]
<1>1. the \in Engines /\ start \in Nat /\ n \in Nat
  BY ClientFacts DEF Fetches, Asked
<1>2. Lists(s, u, start, c, 0) /\ \A i \in DOMAIN s : ~ s[i].ad => s[i].rank # 0
  BY DEF Fetches
<1>3. s \in Seq(Row) /\ c \in Nat
  BY <1>2 DEF Lists
<1>4. Len(s) \in Nat /\ DOMAIN s = 1 .. Len(s) /\ \A i \in DOMAIN s : s[i] \in Row
  BY <1>3
<1>5. DOMAIN arrived = DOMAIN s /\ \A i \in DOMAIN s : arrived[i] = Of(the, s[i])
  OBVIOUS
<1>6. \A i \in DOMAIN s : /\ arrived[i] \in MegaRow /\ arrived[i].url = s[i].url
                          /\ EnrichResult(arrived[i]).type = "organic" <=> ~ s[i].ad /\ s[i].rank >= 0
  <2> SUFFICES ASSUME NEW i \in DOMAIN s
               PROVE  /\ arrived[i] \in MegaRow /\ arrived[i].url = s[i].url
                      /\ EnrichResult(arrived[i]).type = "organic" <=> ~ s[i].ad /\ s[i].rank >= 0
    OBVIOUS
  <2>1. /\ Of(the, s[i]) \in MegaRow /\ Of(the, s[i]).url = s[i].url /\ Of(the, s[i]).ad = s[i].ad
        /\ Of(the, s[i]).rank = s[i].rank
    BY <1>1, <1>4, OfRow
  <2>2. EnrichResult(Of(the, s[i])).type = "organic" <=> ~ Of(the, s[i]).ad /\ Of(the, s[i]).rank >= 0
    BY <2>1, EnrichedRow
  <2>3. QED
    BY <1>5, <2>1, <2>2
<1>7. O = OrganicAt(s)
  <2>1. \A i \in DOMAIN s : s[i].rank \in Int
    BY <1>4 DEF Row
  <2>2. \A i \in DOMAIN s : EnrichResult(arrived[i]).type = "organic" <=> IsOrganic(s[i])
    BY <1>2, <1>6, <2>1 DEF IsOrganic
  <2>3. QED
    BY <1>5, <2>2 DEF OrganicAt
<1>8. Cardinality(O) = c /\ \A i \in O : Rank(O, i) = s[i].rank - start
  <2>1. /\ Cardinality(OrganicAt(s)) = c
        /\ \A i \in OrganicAt(s) : Rank(OrganicAt(s), i) = s[i].rank - start
    <3> HIDE DEF c, u
    <3>1. QED
      BY <1>2, RankIsCount, Zenon
  <2> HIDE DEF O, c
  <2>2. QED
    BY <1>7, <2>1
<1>9. Selects(arrived, O, t)
  <2>1. O \subseteq 1 .. Len(s)
    BY <1>4, <1>5
  <2> HIDE DEF O
  <2>2. QED
    BY <1>4, <2>1, KeptFacts
<1>10. DOMAIN u = 1 .. Len(u) /\ \A i, j \in 1 .. Len(u) : u[i] = u[j] => i = j
  BY <1>1, Rankings
<1>11. c # 0 => start + c <= Len(u)
  BY <1>1, Availability
<1>12. Places = [k \in DOMAIN t |-> CHOOSE j \in DOMAIN u : u[j] = t[k].url]
  BY DEF Places
<1>13. Len(u) \in Nat
  BY <1>1, Rankings
<1>14. \A i \in O : s[i].rank \in start + 1 .. start + c /\ s[i].url = u[s[i].rank]
  <2>1. \A i \in OrganicAt(s) : s[i].rank \in start + 1 .. start + c /\ s[i].url = u[s[i].rank + 0]
    BY <1>2 DEF Lists
  <2> HIDE DEF O, u, c
  <2>2. \A i \in OrganicAt(s) : s[i].rank + 0 = s[i].rank
    BY <1>1, <1>3, <2>1
  <2>3. QED
    BY <1>7, <2>1, <2>2
<1> HIDE DEF c, O, t, u
<1>15. DOMAIN t = 1 .. c
  BY <1>3, <1>8, <1>9 DEF Selects
<1>16. ASSUME NEW k \in 1 .. c PROVE (CHOOSE j \in DOMAIN u : u[j] = t[k].url) = start + k
  <2>1. PICK i \in O : Rank(O, i) = k
    BY <1>8, <1>9 DEF Selects
  <2>2. t[k] = arrived[i] /\ i \in DOMAIN s /\ k = s[i].rank - start
    <3>1. t[Rank(O, i)] = arrived[i]
      BY <1>9 DEF Selects
    <3>2. i \in DOMAIN s
      BY <1>5 DEF O
    <3>3. QED
      BY <1>8, <2>1, <3>1, <3>2
  <2>3. t[k].url = u[start + k]
    <3>1. s[i].rank = start + k /\ t[k].url = s[i].url /\ s[i].url = u[s[i].rank]
      <4>1. s[i].rank \in start + 1 .. start + c /\ s[i].url = u[s[i].rank]
        BY <1>14
      <4>2. s[i].rank = start + k
        BY <1>1, <1>3, <2>2, <4>1
      <4>3. QED
        BY <1>6, <2>2, <4>1, <4>2
    <3>2. QED
      BY <3>1
  <2>4. start + k \in DOMAIN u
    BY <1>1, <1>3, <1>10, <1>11, <1>13
  <2>5. \A j \in DOMAIN u : u[j] = t[k].url => j = start + k
    BY <1>10, <2>3, <2>4
  <2>6. QED
    BY <2>3, <2>4, <2>5
<1>17. QED
  BY <1>1, <1>3, <1>12, <1>15, <1>16 DEF c, u

\* What counts for has_more.
LEMMA CountedRows ==
  ASSUME Asked, one, client \in Clients, NEW s, NEW n, Fetches(the, s, n), FirstRank(the) = start,
         arrived = [i \in DOMAIN s |-> Of(the, s[i])]
  PROVE  LET m == countNonAdResults(Enriched(arrived))
         IN  /\ m \in Nat /\ m >= Available(the, start, n)
             /\ NoAnswers(s) => m = Available(the, start, n)
<1> DEFINE c == Available(the, start, n)
           x == Enriched(arrived)
           M == {i \in DOMAIN s : ~ s[i].ad}
<1>1. the \in Engines /\ start \in Nat /\ n \in Nat
  BY ClientFacts DEF Fetches, Asked
<1>2. Lists(s, Ranking[the], start, c, 0)
  BY DEF Fetches
<1>3. s \in Seq(Row) /\ c \in Nat
  BY <1>2 DEF Lists
<1>4. Len(s) \in Nat /\ DOMAIN s = 1 .. Len(s) /\ \A i \in DOMAIN s : s[i] \in Row
  BY <1>3
<1>5. DOMAIN x = DOMAIN s /\ \A i \in DOMAIN s : x[i] = EnrichResult(Of(the, s[i]))
  BY DEF Enriched
<1>6. \A i \in DOMAIN s : x[i].type # "ad" <=> ~ s[i].ad
  <2> SUFFICES ASSUME NEW i \in DOMAIN s PROVE x[i].type # "ad" <=> ~ s[i].ad
    OBVIOUS
  <2>1. Of(the, s[i]) \in MegaRow /\ Of(the, s[i]).ad = s[i].ad
    BY <1>1, <1>4, OfRow
  <2>2. EnrichResult(Of(the, s[i])).type = "ad" <=> Of(the, s[i]).ad
    BY <2>1, EnrichedRow
  <2>3. QED
    BY <1>5, <2>1, <2>2
<1> HIDE DEF x
<1>7. countNonAdResults(x) = Cardinality(M)
  <2>1. {i \in DOMAIN x : x[i].type # "ad"} = M
    BY <1>5, <1>6
  <2>2. QED
    BY <2>1 DEF countNonAdResults
<1>8. M = {j \in 1 .. Len(s) : ~ s[j].ad}
  BY <1>4
<1>9. CountOrganicResults(s) = Cardinality(M)
  BY <1>8 DEF CountOrganicResults, Organics
<1>10. Cardinality(OrganicAt(s)) = c
  <2> HIDE DEF c
  <2>1. QED
    BY <1>2, RankIsCount, Zenon
<1>11. OrganicAt(s) \subseteq M
  BY DEF OrganicAt, IsOrganic
<1>12. IsFiniteSet(M)
  <2>1. IsFiniteSet(1 .. Len(s)) /\ M \subseteq 1 .. Len(s)
    BY <1>4, FS_Interval
  <2>2. QED
    BY <2>1, FS_Subset
<1>13. Cardinality(M) \in Nat /\ Cardinality(OrganicAt(s)) <= Cardinality(M)
  <2> HIDE DEF M
  <2>1. QED
    BY <1>11, <1>12, FS_CardinalityType, FS_Subset
<1>14. NoAnswers(s) => CountOrganicResults(s) = c
  <2> HIDE DEF c
  <2>1. QED
    BY <1>2, CountIsRank
<1> HIDE DEF M, c
<1>15. QED
  BY <1>7, <1>9, <1>10, <1>13, <1>14 DEF c, x

-----------------------------------------------------------------------------
(* A walk goes on. *)

\* A walk of the first m places behind o.
Walked(w, o, m) == w \in Seq(Int) /\ Len(w) = m /\ w = [i \in DOMAIN w |-> o + i]

\* A page appended to what comes before it.
LEMMA WalkedOn ==
  ASSUME NEW e \in Engines, NEW o \in Nat, NEW b \in Nat, b >= o, NEW n \in Nat,
         NEW w, Walked(w, o, Available(e, o, b - o))
  PROVE  Walked(w \o [k \in 1 .. Available(e, b, n) |-> b + k], o, Available(e, o, b + n - o))
<1> DEFINE c == Available(e, b, n)
           d == b - o
           m == Available(e, o, d)
           v == [k \in 1 .. c |-> b + k]
           x == w \o v
           L == Len(Ranking[e])
<1>1. d \in Nat /\ o + d = b /\ d + n = b + n - o
  OBVIOUS
<1> HIDE DEF c, d, m, v, x, L
<1>2. c \in Nat /\ c \in 0 .. n
  <2>1. Available(e, b, n) \in 0 .. n
    BY Availability
  <2>2. QED
    BY <2>1 DEF c
<1>3. m + c = Available(e, o, d + n) /\ m \in 0 .. d
  <2>1. \A k \in Nat : Available(e, o, d) + Available(e, o + d, k) = Available(e, o, d + k)
    BY <1>1, Availability
  <2>2. Available(e, o, d) \in 0 .. d
    BY <1>1, Availability
  <2>3. Available(e, o, d) + Available(e, o + d, n) = Available(e, o, d + n)
    BY <2>1
  <2>4. QED
    BY <1>1, <2>2, <2>3 DEF m, c
<1> USE DEF c, d, m, v, x, L
<1>4. L \in Nat
  BY Rankings
<1>5. c # 0 => m = d
  <2>1. c # 0 => L > b
    BY <1>4 DEF Available
  <2>2. L > b => m = d
    BY <1>1, <1>4 DEF Available
  <2>3. QED
    BY <2>1, <2>2
<1> HIDE DEF c, m, L
<1>6. v \in Seq(Int) /\ Len(v) = c /\ DOMAIN v = 1 .. c
  <2>1. v \in [1 .. c -> Int] /\ DOMAIN v = 1 .. c
    BY <1>2
  <2>2. QED
    BY <1>2, <2>1
<1>7. w \in Seq(Int) /\ Len(w) = m /\ DOMAIN w = 1 .. m /\ \A i \in 1 .. m : w[i] = o + i
  <2>1. w \in Seq(Int) /\ Len(w) = m /\ w = [i \in DOMAIN w |-> o + i]
    BY DEF Walked, m, d
  <2>2. DOMAIN w = 1 .. m
    BY <2>1
  <2>3. \A i \in DOMAIN w : w[i] = o + i
    BY <2>1, Zenon
  <2>4. QED
    BY <2>1, <2>2, <2>3
<1>8. x \in Seq(Int) /\ Len(x) = m + c /\ DOMAIN x = 1 .. m + c
  <2>1. x \in Seq(Int) /\ Len(x) = Len(w) + Len(v)
    <3> HIDE DEF v
    <3>1. QED
      BY <1>6, <1>7, ConcatProperties
  <2> HIDE DEF x, v
  <2>2. QED
    BY <1>6, <1>7, <2>1
<1>9. \A i \in 1 .. m + c : x[i] = o + i
  <2> SUFFICES ASSUME NEW i \in 1 .. m + c PROVE x[i] = o + i
    OBVIOUS
  <2>1. x[i] = IF i <= m THEN w[i] ELSE v[i - m]
    <3>1. i \in 1 .. Len(w) + Len(v)
      BY <1>6, <1>7
    <3> HIDE DEF v
    <3>2. x[i] = IF i <= Len(w) THEN w[i] ELSE v[i - Len(w)]
      BY <1>6, <1>7, <3>1, ConcatProperties
    <3>3. QED
      BY <1>7, <3>2
  <2>2. CASE i <= m
    <3>1. i \in 1 .. m
      BY <1>3, <2>2
    <3>2. QED
      BY <1>7, <2>1, <2>2, <3>1
  <2>3. CASE ~ i <= m
    <3>1. i - m \in 1 .. c /\ m \in Int /\ c # 0
      BY <1>2, <1>3, <2>3
    <3>2. v[i - m] = b + (i - m)
      BY <3>1
    <3>3. b + (i - m) = o + i
      BY <1>1, <1>5, <3>1
    <3>4. QED
      BY <2>1, <2>3, <3>2, <3>3
  <2>4. QED
    BY <2>2, <2>3
<1>10. x = [i \in DOMAIN x |-> o + i]
  <2> HIDE DEF x
  <2>1. x \in [1 .. m + c -> Int]
    BY <1>8
  <2>2. QED
    BY <1>8, <1>9, <2>1
<1>11. Available(e, o, d + n) = Available(e, o, b + n - o)
  BY <1>1
<1> HIDE DEF x
<1>12. QED
  BY <1>3, <1>8, <1>10, <1>11 DEF Walked, x, v, c

\* What an envelope adds to the walk, and what has_more then says.
LEMMA WalkEnvelope ==
  ASSUME ClientTypes, OneOutcome, Walk, Envelope, one, Aligned, client.kind # "image"
  PROVE  LET m == countNonAdResults(results')
         IN  \E n \in 0 .. client.limit :
               /\ Walked(received', client.start, Available(the, client.start, start + n - client.start))
               /\ m \in Nat /\ m >= Available(the, start, n)
               /\ n = client.limit \/ m = Available(the, start, n)
               /\ client.limit = PageSize /\ client.start % PageSize = 0 => n = client.limit
<1>1. turn = "asking" /\ waiting = {} /\ results' = Enriched(arrived) /\ received' = received \o Places
  BY DEF Envelope
<1>2. Asked /\ client \in Clients /\ client.limit \in Nat \ {0} /\ start \in Nat
  BY <1>1, Asking DEF Asked
<1>3. the \in Engines /\ client.engines # {} /\ client.kind \in {"web", "raw"}
  BY <1>2, ClientFacts
<1>4. client.start \in Nat /\ start >= client.start
  BY <1>1 DEF ClientTypes
<1>5. PICK s : Fetched(s) /\ arrived = [i \in DOMAIN s |-> Of(the, s[i])]
  BY <1>1, <1>3 DEF OneOutcome
<1>6. PICK n \in Nat : /\ Fetches(the, s, n) /\ Within(the, n, client.kind = "web")
                       /\ the # "google" \/ client.kind = "raw" => NoAnswers(s)
  BY <1>5 DEF Fetched
<1>7. /\ FirstRank(the) = start
      /\ client.limit >= PageSize \/ (client.kind = "web" /\ the \notin {"google", "baidu"})
      /\ the = "google" /\ client.kind = "web" => client.limit = PageSize \/ (client.limit > PageSize /\ obeys)
  BY <1>1, AlignedPage
<1>8. n \in 0 .. client.limit
  <2>1. n <= client.limit
    BY <1>6, <1>7 DEF Within
  <2>2. QED
    BY <1>2, <2>1
<1>9. the = "google" /\ client.kind = "web" => n = client.limit
  BY <1>6, <1>7 DEF Within
<1>10. client.limit = PageSize /\ client.start % PageSize = 0 => n = client.limit
  <2>1. PageSize % PageSize = 0
    <3>1. PageSize \in Nat \ {0}
      BY SerpRowsAssumption
    <3>2. QED
      BY <3>1
  <2>2. client.limit = PageSize /\ client.start % PageSize = 0 => start % PageSize = 0
    BY <2>1 DEF ClientTypes
  <2>3. QED
    BY <1>6, <2>2 DEF Within
<1>11. Places = [k \in 1 .. Available(the, start, n) |-> start + k]
  BY <1>2, <1>5, <1>6, <1>7, PlacesAre
<1> DEFINE m == countNonAdResults(Enriched(arrived))
<1>12. m \in Nat /\ m >= Available(the, start, n) /\ (NoAnswers(s) => m = Available(the, start, n))
  BY <1>2, <1>5, <1>6, <1>7, CountedRows
<1>13. Walked(received, client.start, Available(the, client.start, start - client.start))
  BY <1>1 DEF Walk, Walked
<1>14. Walked(received \o [k \in 1 .. Available(the, start, n) |-> start + k], client.start,
              Available(the, client.start, start + n - client.start))
  BY <1>2, <1>3, <1>4, <1>13, WalkedOn
<1>15. Walked(received', client.start, Available(the, client.start, start + n - client.start))
  BY <1>1, <1>11, <1>14
<1>16. n = client.limit \/ m = Available(the, start, n)
  BY <1>3, <1>6, <1>9, <1>12
<1>17. m = countNonAdResults(results')
  BY <1>1
<1> HIDE DEF m
<1>18. QED
  BY <1>8, <1>10, <1>12, <1>15, <1>16, <1>17

-----------------------------------------------------------------------------
(* The inductive invariant, and the walk. *)

\* Which walks fit together never changes.
LEMMA SameWalk ==
  ASSUME UNCHANGED <<client, obeys>>
  PROVE  /\ one' = one /\ the' = the /\ Aligned' = Aligned
<1>1. one' = one /\ the' = the
  BY SameClient
<1>2. QED
  BY <1>1 DEF Aligned

\* A walk that has not begun.
LEMMA WalkInit ==
  ASSUME PagedInit
  PROVE  Walk
<1>1. received = << >> /\ turn = "sending" /\ start = client.start /\ client \in Clients
  BY DEF PagedInit
<1>2. << >> \in Seq(Int) /\ Len(<< >>) = 0 /\ << >> = [i \in DOMAIN << >> |-> client.start + i]
  OBVIOUS
<1>3. one => Available(the, client.start, start - client.start) = 0
  <2> SUFFICES ASSUME one PROVE Available(the, client.start, start - client.start) = 0
    OBVIOUS
  <2>1. the \in Engines /\ client.start \in Int
    BY <1>1, ClientFacts
  <2>2. Len(Ranking[the]) \in Nat
    BY <2>1, Rankings
  <2>3. start - client.start = 0
    BY <1>1, <2>1
  <2>4. QED
    BY <2>1, <2>2, <2>3 DEF Available
<1>4. QED
  BY <1>1, <1>2, <1>3 DEF Walk

\* How much of a ranking there is.
LEMMA AllAvailable ==
  ASSUME NEW e \in Engines, NEW o \in Nat, NEW b \in Nat, b >= o, NEW n \in Nat
  PROVE  /\ Available(e, b, n) < n => Available(e, o, b + n - o) = Max({0, Len(Ranking[e]) - o})
<1> DEFINE L == Len(Ranking[e])
<1>1. L \in Nat
  BY Rankings
<1> HIDE DEF L
<1>2. Max({0, L - o}) = IF 0 <= L - o THEN L - o ELSE 0
  <2>1. 0 \in Int /\ L - o \in Int
    BY <1>1
  <2>2. QED
    BY <2>1, OfTwo
<1>3. Available(e, b, n) < n => L <= b + n
  BY <1>1 DEF Available, L
<1>4. L <= b + n => Available(e, o, b + n - o) = IF 0 <= L - o THEN L - o ELSE 0
  BY <1>1 DEF Available, L
<1>5. QED
  BY <1>2, <1>3, <1>4 DEF L

\* The envelope appends the page that was asked for to the walk, and has_more is
\* false only on the last one.
LEMMA WalkEnvelopeStep ==
  ASSUME ClientTypes, OneOutcome, Walk, Envelope
  PROVE  Walk'
<1>1. UNCHANGED <<client, start, ads, obeys>> /\ turn = "asking" /\ turn' = "answered"
  BY DEF Envelope
<1>2. one' = one /\ the' = the /\ Aligned' = Aligned
  BY <1>1, SameWalk
<1> SUFFICES ASSUME one, Aligned PROVE Walk'
  BY <1>2 DEF Walk
<1>3. CASE client.kind = "image"
  <2>1. received' = received
    BY <1>3 DEF Envelope
  <2>2. QED
    BY <1>1, <1>2, <1>3, <2>1 DEF Walk
<1>4. CASE client.kind # "image"
  <2> DEFINE m == countNonAdResults(results')
             cs == client.start
             max == client.limit
  <2>1. PICK n \in 0 .. client.limit :
          /\ Walked(received', client.start, Available(the, client.start, start + n - client.start))
          /\ m \in Nat /\ m >= Available(the, start, n)
          /\ n = client.limit \/ m = Available(the, start, n)
          /\ client.limit = PageSize /\ client.start % PageSize = 0 => n = client.limit
    BY <1>4, WalkEnvelope
  <2>2. HasMore' <=> m >= client.limit
    BY <1>1, <1>4 DEF HasMore
  <2>3. /\ client \in Clients /\ the \in Engines /\ start \in Nat /\ cs \in Nat /\ start >= cs
        /\ max \in Nat \ {0}
    <3>1. client \in Clients /\ start \in Nat /\ cs \in Nat /\ start >= cs /\ max \in Nat \ {0}
      BY <1>1, Asking DEF ClientTypes
    <3>2. QED
      BY <3>1, ClientFacts
  <2>4. n \in Nat /\ n <= max
    BY <2>3
  <2>5. Available(the, start, n) \in 0 .. n
    BY <2>3, <2>4, Availability
  <2> HIDE DEF m, cs, max
  <2>6. HasMore' => n = max
    BY <2>1, <2>2, <2>3, <2>4, <2>5 DEF max
  <2>7. ~ HasMore' /\ n = max => Available(the, cs, start + n - cs) = Max({0, Len(Ranking[the]) - cs})
    <3>1. ~ HasMore' /\ n = max => Available(the, start, n) < n
      BY <2>1, <2>2, <2>3, <2>4, <2>5 DEF max
    <3>2. QED
      BY <2>3, <2>4, <3>1, AllAvailable
  <2>8. /\ received' \in Seq(Int) /\ received' = [i \in DOMAIN received' |-> client.start + i]
        /\ Len(received') = Available(the, cs, start + n - cs)
    BY <2>1 DEF Walked, cs
  <2>9. client.kind # "image" =>
          /\ turn' = "answered" /\ HasMore' =>
               Len(received') = Available(the, client.start, start + client.limit - client.start)
          /\ turn' = "answered" /\ ~ HasMore' /\ client.limit = PageSize /\ client.start % PageSize = 0 =>
               Len(received') = Max({0, Len(Ranking[the]) - client.start})
    BY <2>1, <2>6, <2>7, <2>8 DEF cs, max
  <2>10. QED
    BY <1>1, <1>2, <1>4, <2>8, <2>9 DEF Walk
<1>5. QED
  BY <1>3, <1>4

\* Every action keeps the walk.
LEMMA WalkStep ==
  ASSUME ClientTypes, OneOutcome, Walk, [PagedNext]_pagedVars
  PROVE  Walk'
<1>1. CASE InitFromContext
  <2>1. UNCHANGED <<client, start, obeys, received>> /\ turn = "sending" /\ turn' \in {"asking", "left"}
    BY <1>1 DEF InitFromContext
  <2>2. one' = one /\ the' = the /\ Aligned' = Aligned
    BY <2>1, SameWalk
  <2>3. QED
    BY <2>1, <2>2 DEF Walk
<1>2. CASE Envelope
  BY <1>2, WalkEnvelopeStep
<1>3. CASE NextPage
  <2>1. /\ UNCHANGED <<client, obeys, received>> /\ turn = "answered" /\ HasMore /\ turn' = "sending"
        /\ start' = start + client.limit
    BY <1>3 DEF NextPage, NextStart
  <2>2. one' = one /\ the' = the /\ Aligned' = Aligned
    BY <2>1, SameWalk
  <2> SUFFICES ASSUME one, Aligned PROVE Walk'
    BY <2>2 DEF Walk
  <2>3. /\ received \in Seq(Int) /\ received = [i \in DOMAIN received |-> client.start + i]
        /\ client.kind = "image" => received = << >>
        /\ client.kind # "image" => Len(received) = Available(the, client.start, start + client.limit - client.start)
    BY <2>1 DEF Walk
  <2>4. start' - client.start = start + client.limit - client.start
    <3>1. start \in Int /\ client \in Clients
      BY DEF ClientTypes
    <3>2. client.limit \in Int /\ client.start \in Int
      BY <3>1, ClientFacts
    <3>3. QED
      BY <2>1, <3>1, <3>2
  <2>5. turn' \notin {"asking", "answered"}
    BY <2>1
  <2>6. QED
    BY <2>1, <2>2, <2>3, <2>4, <2>5 DEF Walk
<1>4. CASE NoMore
  <2>1. UNCHANGED <<client, obeys, received>> /\ turn' = "left"
    BY <1>4 DEF NoMore
  <2>2. one' = one /\ the' = the /\ Aligned' = Aligned
    BY <2>1, SameWalk
  <2>3. QED
    BY <2>1, <2>2 DEF Walk
<1>5. CASE \E e \in Engines : EngineAnswers(e) \/ EngineFails(e)
  <2>1. UNCHANGED <<client, start, obeys, received>> /\ turn = "asking" /\ turn' \in {"asking", "left"}
    BY <1>5 DEF EngineAnswers, EngineFails
  <2>2. one' = one /\ the' = the /\ Aligned' = Aligned
    BY <2>1, SameWalk
  <2>3. QED
    BY <2>1, <2>2 DEF Walk
<1>6. CASE UNCHANGED pagedVars
  <2>1. UNCHANGED <<client, start, obeys, received, turn, results>>
    BY <1>6 DEF pagedVars
  <2>2. one' = one /\ the' = the /\ Aligned' = Aligned
    BY <2>1, SameWalk
  <2>3. HasMore' <=> HasMore
    BY <2>1 DEF HasMore
  <2>4. QED
    BY <2>1, <2>2, <2>3 DEF Walk
<1>7. QED
  BY <1>1, <1>2, <1>3, <1>4, <1>5, <1>6 DEF PagedNext

\* The walk as the runs check it.
LEMMA WalkWhole ==
  ASSUME ClientTypes, Walk
  PROVE  WalkIsWhole
<1> SUFFICES ASSUME one PROVE WalkIsWhole
  BY DEF WalkIsWhole
<1>1. Aligned => received = [i \in DOMAIN received |-> client.start + i]
  BY DEF Walk
<1>2. client.limit = PageSize /\ client.start % PageSize = 0 => Aligned
  <2>1. PageSize % PageSize = 0 /\ PageSize >= PageSize
    <3>1. PageSize \in Nat \ {0}
      BY SerpRowsAssumption
    <3>2. QED
      BY <3>1
  <2>2. QED
    BY <2>1 DEF Aligned
<1>3. QED
  BY <1>1, <1>2 DEF WalkIsWhole, Walk

\* Initial states satisfy the invariant.
LEMMA IInvInit ==
  ASSUME PagedInit
  PROVE  IInv
<1>1. ClientTypes /\ Walk
  BY ClientTypesInit, WalkInit
<1>2. turn = "sending"
  BY DEF PagedInit
<1>3. ArrivedRows /\ OneOutcome
  BY <1>2 DEF ArrivedRows, OneOutcome
<1>4. QED
  BY <1>1, <1>3 DEF IInv

\* Every step keeps the invariant.
LEMMA IInvStep ==
  ASSUME IInv, [PagedNext]_pagedVars
  PROVE  IInv'
<1>1. ClientTypes /\ ArrivedRows /\ OneOutcome /\ Walk
  BY DEF IInv
<1>2. ClientTypes' /\ ArrivedRows' /\ OneOutcome' /\ Walk'
  BY <1>1, ClientTypesStep, ArrivedRowsStep, OneOutcomeStep, WalkStep
<1>3. QED
  BY <1>2 DEF IInv

\* The inductive invariant holds: whatever a client asks for and whichever
\* engines answer or fail, every row that arrives is at the place of the ranking
\* that its rank says, and a client that follows next_start has received the
\* ranking from its first start on, without a hole or a row twice.
THEOREM PagesHold == PagedSpec => []IInv
<1>1. PagedInit => IInv
  BY IInvInit
<1>2. IInv /\ [PagedNext]_pagedVars => IInv'
  BY IInvStep
<1>3. QED
  BY <1>1, <1>2, PTL DEF PagedSpec

\* Following next_start while has_more holds is a walk over the ranking: where the
\* pages fit together, each begins where the one before ended, and with pages
\* of the engines' own size the last one ends where the ranking does. So the
\* pages an engine serves, the skipping and limiting of the drivers, and
\* BuildPagination of the envelope agree about where a page begins and ends.
THEOREM WalkIsWholeAlways == PagedSpec => []WalkIsWhole
<1>1. IInv => WalkIsWhole
  BY WalkWhole DEF IInv
<1>2. QED
  BY <1>1, PagesHold, PTL

\* A result's rank is its place in its engine's ranking, on whatever page, through
\* deduplication, limiting, offsets and merging; without ads, its position is too
\* (not for Ecosia's browser driver between two pages).
THEOREM RanksAlways == PagedSpec => []RanksArePlaces
<1>1. PagedInit => RanksArePlaces
  BY DEF PagedInit, RanksArePlaces
<1>2. IInv /\ RanksArePlaces /\ [PagedNext]_pagedVars => RanksArePlaces'
  BY RanksStep DEF IInv
<1>3. QED
  BY <1>1, <1>2, PagesHold, PTL DEF PagedSpec

-----------------------------------------------------------------------------
(* Merging does not depend on the order of arrival. *)

\* Only Google has rows without a rank of their own.
Ranks(s) == s \in Seq(MegaRow) /\ \A i \in DOMAIN s : s[i].rank <= 0 => s[i].engine = "google"

\* Rows of such a list.
RankedRow == {r \in MegaRow : r.rank <= 0 => r.engine = "google"}

\* Better is an order of such rows, and decides between engines.
LEMMA BetterOrder ==
  ASSUME NEW x \in RankedRow, NEW y \in RankedRow, NEW z \in RankedRow
  PROVE  /\ ~ betterMegaResult(x, x)
         /\ betterMegaResult(x, y) => ~ betterMegaResult(y, x)
         /\ betterMegaResult(x, z) => betterMegaResult(x, y) \/ betterMegaResult(y, z)
         /\ betterMegaResult(x, y) \/ betterMegaResult(y, x) \/ x.engine = y.engine
<1> DEFINE a == x.rank
           b == y.rank
           c == z.rank
           less(u, v) == EngineLess(u.engine, v.engine)
<1>1. a \in Int /\ b \in Int /\ c \in Int /\ x.engine \in Engines /\ y.engine \in Engines /\ z.engine \in Engines
  BY DEF MegaRow, RankedRow
<1>2. /\ a <= 0 => x.engine = "google"
      /\ b <= 0 => y.engine = "google"
      /\ c <= 0 => z.engine = "google"
  BY DEF RankedRow
<1>3. /\ ~ less(x, x) /\ ~ (less(x, y) /\ less(y, x)) /\ (less(x, z) => less(x, y) \/ less(y, z))
      /\ less(x, y) \/ less(y, x) \/ x.engine = y.engine
  BY <1>1, EngineOrder
<1>4. x.engine = "google" /\ y.engine = "google" => ~ less(x, y) /\ ~ less(y, x)
  BY <1>1, EngineOrder
<1>5. x.engine = "google" /\ z.engine = "google" => ~ less(x, z)
  BY <1>1, EngineOrder
<1>6. /\ betterMegaResult(x, x) <=> (a > 0 /\ (a <= 0 \/ a < a)) \/ (a = a /\ less(x, x))
      /\ betterMegaResult(x, y) <=> (a > 0 /\ (b <= 0 \/ a < b)) \/ (a = b /\ less(x, y))
      /\ betterMegaResult(y, x) <=> (b > 0 /\ (a <= 0 \/ b < a)) \/ (b = a /\ less(y, x))
      /\ betterMegaResult(x, z) <=> (a > 0 /\ (c <= 0 \/ a < c)) \/ (a = c /\ less(x, z))
      /\ betterMegaResult(y, z) <=> (b > 0 /\ (c <= 0 \/ b < c)) \/ (b = c /\ less(y, z))
  BY DEF betterMegaResult
<1> HIDE DEF a, b, c, less
<1>7. ~ betterMegaResult(x, x)
  BY <1>1, <1>3, <1>6
<1>8. betterMegaResult(x, y) => ~ betterMegaResult(y, x)
  BY <1>1, <1>3, <1>6
<1>9. betterMegaResult(x, z) => betterMegaResult(x, y) \/ betterMegaResult(y, z)
  BY <1>1, <1>2, <1>3, <1>5, <1>6
<1>10. betterMegaResult(x, y) \/ betterMegaResult(y, x) \/ x.engine = y.engine
  BY <1>1, <1>2, <1>3, <1>6
<1>11. QED
  BY <1>7, <1>8, <1>9, <1>10

\* What is kept of the first n rows: one of each result, a best one, and of
\* several the first.
Winners(k, s, n) ==
  /\ k \in Seq(MegaRow)
  /\ \A i, j \in DOMAIN k : SameResult(k[i], k[j]) => i = j
  /\ \A i \in 1 .. n : \E j \in DOMAIN k : SameResult(k[j], s[i]) /\ ~ betterMegaResult(s[i], k[j])
  /\ \A j \in DOMAIN k : \E i \in 1 .. n :
       k[j] = s[i] /\ \A h \in 1 .. i - 1 : SameResult(s[h], s[i]) => betterMegaResult(s[i], s[h])

\* Being the same result is an equivalence.
LEMMA SameResults ==
  /\ \A x : SameResult(x, x)
  /\ \A x, y : SameResult(x, y) => SameResult(y, x)
  /\ \A x, y, z : SameResult(x, y) /\ SameResult(y, z) => SameResult(x, z)
BY DEF SameResult

\* A result that is not there yet is appended.
LEMMA OfferedNew ==
  ASSUME NEW s, Ranks(s), NEW n \in Nat, n + 1 \in DOMAIN s, NEW k, Winners(k, s, n),
         \A j \in DOMAIN k : ~ SameResult(k[j], s[n + 1])
  PROVE  Winners(Offered(k, s[n + 1]), s, n + 1)
<1> DEFINE r == s[n + 1]
           m == Len(k)
           u == Append(k, r)
<1>1. Offered(k, s[n + 1]) = u
  BY DEF Offered
<1>2. k \in Seq(MegaRow) /\ r \in MegaRow /\ r \in RankedRow
  BY DEF Winners, Ranks, RankedRow
<1>3. m \in Nat /\ DOMAIN k = 1 .. m
  BY <1>2
<1>4. u \in Seq(MegaRow) /\ DOMAIN u = 1 .. m + 1 /\ u[m + 1] = r /\ \A j \in 1 .. m : u[j] = k[j]
  BY <1>2
<1> HIDE DEF u, r, m
<1>5. \A j \in DOMAIN u : j = m + 1 \/ j \in DOMAIN k
  BY <1>3, <1>4
<1>6. /\ \A j \in DOMAIN k : j \in DOMAIN u /\ u[j] = k[j]
      /\ m + 1 \in DOMAIN u
  BY <1>3, <1>4
<1>7. \A j \in DOMAIN k : ~ SameResult(k[j], r)
  BY DEF r
<1>8. \A i, j \in DOMAIN u : SameResult(u[i], u[j]) => i = j
  <2>1. \A i, j \in DOMAIN k : SameResult(k[i], k[j]) => i = j
    BY DEF Winners
  <2>2. QED
    BY <1>4, <1>5, <1>6, <1>7, <2>1, SameResults
<1>9. \A i \in 1 .. n + 1 : \E j \in DOMAIN u : SameResult(u[j], s[i]) /\ ~ betterMegaResult(s[i], u[j])
  <2>1. SameResult(u[m + 1], s[n + 1]) /\ ~ betterMegaResult(s[n + 1], u[m + 1])
    BY <1>2, <1>4, SameResults, BetterOrder DEF r
  <2>2. \A i \in 1 .. n : \E j \in DOMAIN k : SameResult(k[j], s[i]) /\ ~ betterMegaResult(s[i], k[j])
    BY DEF Winners
  <2>3. \A i \in 1 .. n : \E j \in DOMAIN u : SameResult(u[j], s[i]) /\ ~ betterMegaResult(s[i], u[j])
    BY <1>6, <2>2
  <2>4. \A i \in 1 .. n + 1 : i \in 1 .. n \/ i = n + 1
    OBVIOUS
  <2>5. QED
    BY <1>6, <2>1, <2>3, <2>4
<1>10. \A j \in DOMAIN u : \E i \in 1 .. n + 1 :
         u[j] = s[i] /\ \A h \in 1 .. i - 1 : SameResult(s[h], s[i]) => betterMegaResult(s[i], s[h])
  <2>1. \A h \in 1 .. n : ~ SameResult(s[h], r)
    <3>1. \A h \in 1 .. n : \E j \in DOMAIN k : SameResult(k[j], s[h])
      BY DEF Winners
    <3>2. QED
      BY <1>7, <3>1, SameResults
  <2>2. \A j \in DOMAIN k : \E i \in 1 .. n :
          k[j] = s[i] /\ \A h \in 1 .. i - 1 : SameResult(s[h], s[i]) => betterMegaResult(s[i], s[h])
    BY DEF Winners
  <2>3. 1 .. n \subseteq 1 .. n + 1 /\ n + 1 \in 1 .. n + 1 /\ (n + 1) - 1 = n
    OBVIOUS
  <2>4. u[m + 1] = s[n + 1] /\ \A h \in 1 .. (n + 1) - 1 : SameResult(s[h], s[n + 1]) => betterMegaResult(s[n + 1], s[h])
    BY <1>4, <2>1, <2>3 DEF r
  <2>5. \A j \in DOMAIN k : \E i \in 1 .. n + 1 :
          u[j] = s[i] /\ \A h \in 1 .. i - 1 : SameResult(s[h], s[i]) => betterMegaResult(s[i], s[h])
    BY <1>6, <2>2, <2>3
  <2>6. QED
    BY <1>5, <2>3, <2>4, <2>5
<1>11. QED
  BY <1>1, <1>4, <1>8, <1>9, <1>10 DEF Winners

\* A result that is there is replaced by a better one, and stays otherwise.
LEMMA OfferedAgain ==
  ASSUME NEW s, Ranks(s), NEW n \in Nat, n + 1 \in DOMAIN s, NEW k, Winners(k, s, n),
         NEW j0 \in DOMAIN k, SameResult(k[j0], s[n + 1])
  PROVE  Winners(Offered(k, s[n + 1]), s, n + 1)
<1> DEFINE r == s[n + 1]
           takes(j) == SameResult(k[j], r) /\ betterMegaResult(r, k[j])
           u == [j \in DOMAIN k |-> IF takes(j) THEN r ELSE k[j]]
<1>1. Offered(k, s[n + 1]) = u
  BY DEF Offered
<1>2. k \in Seq(MegaRow) /\ r \in RankedRow /\ r \in MegaRow /\ s \in Seq(MegaRow)
  BY DEF Winners, Ranks, RankedRow
<1>3. DOMAIN k = 1 .. Len(k) /\ Len(k) \in Nat /\ DOMAIN s = 1 .. Len(s) /\ Len(s) \in Nat
  BY <1>2
<1>4. \A i \in 1 .. n + 1 : i \in DOMAIN s /\ s[i] \in RankedRow
  <2>1. \A i \in 1 .. n + 1 : i \in DOMAIN s
    BY <1>3
  <2>2. QED
    BY <1>2, <2>1 DEF Ranks, RankedRow
<1>5. \A j \in DOMAIN k : k[j] \in RankedRow
  <2>1. \A j \in DOMAIN k : \E i \in 1 .. n : k[j] = s[i]
    BY DEF Winners
  <2>2. 1 .. n \subseteq 1 .. n + 1
    OBVIOUS
  <2>3. QED
    BY <1>4, <2>1, <2>2
<1>6. /\ DOMAIN u = DOMAIN k
      /\ \A j \in DOMAIN k : (takes(j) => u[j] = r) /\ (~ takes(j) => u[j] = k[j])
  OBVIOUS
<1>7. u \in Seq(MegaRow)
  <2>1. \A j \in DOMAIN k : u[j] \in MegaRow
    BY <1>2, <1>3, <1>6
  <2>2. u \in [1 .. Len(k) -> MegaRow]
    BY <1>3, <2>1
  <2>3. QED
    BY <1>3, <2>2
<1> HIDE DEF u
<1>8. \A i, j \in DOMAIN k : SameResult(k[i], k[j]) => i = j
  BY DEF Winners
<1>9. \A j \in DOMAIN k : SameResult(u[j], k[j]) /\ SameResult(k[j], u[j])
  BY <1>6, SameResults
<1>10. \A i, j \in DOMAIN u : SameResult(u[i], u[j]) => i = j
  <2> SUFFICES ASSUME NEW i \in DOMAIN k, NEW j \in DOMAIN k, SameResult(u[i], u[j]) PROVE i = j
    BY <1>6
  <2>1. SameResult(k[i], u[i]) /\ SameResult(u[j], k[j])
    BY <1>9
  <2>2. SameResult(k[i], k[j])
    BY <2>1, SameResults
  <2>3. QED
    BY <1>8, <2>2
<1>11. \A i \in 1 .. n : \E j \in DOMAIN k : SameResult(k[j], s[i]) /\ ~ betterMegaResult(s[i], k[j])
  BY DEF Winners
<1>12. \A i \in 1 .. n : i \in 1 .. n + 1
  OBVIOUS
<1>13. \A i \in 1 .. n + 1 : \E j \in DOMAIN u : SameResult(u[j], s[i]) /\ ~ betterMegaResult(s[i], u[j])
  <2>1. ASSUME NEW i \in 1 .. n PROVE \E j \in DOMAIN u : SameResult(u[j], s[i]) /\ ~ betterMegaResult(s[i], u[j])
    <3>1. PICK j \in DOMAIN k : SameResult(k[j], s[i]) /\ ~ betterMegaResult(s[i], k[j])
      BY <1>11
    <3>2. SameResult(u[j], s[i])
      BY <1>9, <3>1, SameResults
    <3>3. ~ betterMegaResult(s[i], u[j])
      <4>1. s[i] \in RankedRow /\ k[j] \in RankedRow
        BY <1>4, <1>5, <1>12
      <4>2. CASE takes(j)
        <5>1. u[j] = r /\ betterMegaResult(r, k[j])
          BY <1>6, <4>2
        <5>2. ~ betterMegaResult(k[j], r)
          BY <1>2, <4>1, <5>1, BetterOrder
        <5>3. betterMegaResult(s[i], r) => betterMegaResult(s[i], k[j]) \/ betterMegaResult(k[j], r)
          BY <1>2, <4>1, BetterOrder
        <5>4. QED
          BY <3>1, <5>1, <5>2, <5>3
      <4>3. CASE ~ takes(j)
        BY <1>6, <3>1, <4>3
      <4>4. QED
        BY <4>2, <4>3
    <3>4. QED
      BY <1>6, <3>2, <3>3
  <2>2. SameResult(u[j0], s[n + 1]) /\ ~ betterMegaResult(s[n + 1], u[j0])
    <3>1. SameResult(u[j0], r)
      BY <1>9, SameResults
    <3>2. ~ betterMegaResult(r, u[j0])
      <4>1. takes(j0) => u[j0] = r /\ ~ betterMegaResult(r, r)
        BY <1>2, <1>6, BetterOrder
      <4>2. ~ takes(j0) => u[j0] = k[j0] /\ ~ betterMegaResult(r, k[j0])
        BY <1>6
      <4>3. QED
        BY <4>1, <4>2
    <3>3. QED
      BY <3>1, <3>2
  <2>3. \A i \in 1 .. n + 1 : i \in 1 .. n \/ i = n + 1
    OBVIOUS
  <2>4. QED
    BY <1>6, <2>1, <2>2, <2>3
<1>14. ASSUME NEW j \in DOMAIN u
       PROVE  \E i \in 1 .. n + 1 :
                u[j] = s[i] /\ \A h \in 1 .. i - 1 : SameResult(s[h], s[i]) => betterMegaResult(s[i], s[h])
  <2>1. CASE ~ takes(j)
    <3>1. \E i \in 1 .. n :
            k[j] = s[i] /\ \A h \in 1 .. i - 1 : SameResult(s[h], s[i]) => betterMegaResult(s[i], s[h])
      BY <1>6 DEF Winners
    <3>2. u[j] = k[j]
      BY <1>6, <2>1
    <3>3. QED
      BY <1>12, <3>1, <3>2
  <2>2. CASE takes(j)
    <3>1. u[j] = r /\ SameResult(k[j], r) /\ betterMegaResult(r, k[j]) /\ j \in DOMAIN k
      BY <1>6, <2>2
    <3>2. ASSUME NEW h \in 1 .. n, SameResult(s[h], r) PROVE betterMegaResult(r, s[h])
      <4>1. PICK j1 \in DOMAIN k : SameResult(k[j1], s[h]) /\ ~ betterMegaResult(s[h], k[j1])
        BY <1>11
      <4>2. SameResult(k[j1], r)
        BY <3>2, <4>1, SameResults
      <4>3. SameResult(k[j1], k[j])
        BY <3>1, <4>2, SameResults
      <4>4. j1 = j
        BY <1>8, <3>1, <4>3
      <4>5. s[h] \in RankedRow /\ k[j] \in RankedRow
        BY <1>4, <1>5, <1>12, <3>1
      <4>6. betterMegaResult(r, k[j]) => betterMegaResult(r, s[h]) \/ betterMegaResult(s[h], k[j])
        BY <1>2, <4>5, BetterOrder
      <4>7. QED
        BY <3>1, <4>1, <4>4, <4>6
    <3>3. n + 1 \in 1 .. n + 1 /\ (n + 1) - 1 = n
      OBVIOUS
    <3>4. QED
      BY <3>1, <3>2, <3>3
  <2>3. QED
    BY <2>1, <2>2
<1>15. QED
  BY <1>1, <1>7, <1>10, <1>13, <1>14 DEF Winners

\* Offering all the rows, one by one, leaves the winners of them.
LEMMA KeepsWinners ==
  ASSUME NEW s, Ranks(s)
  PROVE  Winners(Keeps(s)[Len(s)], s, Len(s))
<1> DEFINE L == Len(s)
           T == {n \in 0 .. L : Winners(Keeps(s)[n], s, n)}
<1>1. s \in Seq(MegaRow) /\ L \in Nat /\ DOMAIN s = 1 .. L
  BY DEF Ranks
<1>2. Keeps(s)[0] = << >> /\ \A n \in 1 .. Len(s) : Keeps(s)[n] = Offered(Keeps(s)[n - 1], s[n])
  BY <1>1, KeepsSteps
<1>3. 0 \in T
  <2>1. Winners(<< >>, s, 0)
    BY DEF Winners
  <2>2. QED
    BY <1>1, <1>2, <2>1
<1>4. \A n \in 0 + 1 .. L : n - 1 \in T => n \in T
  <2> SUFFICES ASSUME NEW n \in 0 + 1 .. L, n - 1 \in T PROVE n \in T
    OBVIOUS
  <2> DEFINE p == n - 1
             k == Keeps(s)[p]
  <2>1. n \in 1 .. L /\ n \in 0 .. L /\ p \in Nat /\ p + 1 = n /\ p + 1 \in DOMAIN s
    BY <1>1
  <2>2. Winners(k, s, p) /\ Keeps(s)[n] = Offered(k, s[n])
    BY <1>2, <2>1
  <2> HIDE DEF k, p
  <2>3. Winners(Offered(k, s[p + 1]), s, p + 1)
    <3>1. CASE \A j \in DOMAIN k : ~ SameResult(k[j], s[p + 1])
      BY <2>1, <2>2, <3>1, OfferedNew
    <3>2. CASE \E j \in DOMAIN k : SameResult(k[j], s[p + 1])
      <4>1. PICK j \in DOMAIN k : SameResult(k[j], s[p + 1])
        BY <3>2
      <4>2. QED
        BY <2>1, <2>2, <4>1, OfferedAgain
    <3>3. QED
      BY <3>1, <3>2
  <2>4. QED
    BY <2>1, <2>2, <2>3
<1>5. \A n \in 0 .. L : n \in T
  <2>1. 0 \in Int /\ L \in Int
    BY <1>1
  <2> HIDE DEF T, L
  <2>2. QED
    BY <1>3, <1>4, <2>1, Interval
<1>6. QED
  BY <1>1, <1>5

-----------------------------------------------------------------------------
(* Rows in another order of arrival. *)

\* t holds the rows of s that are of the engines E, and those of one engine in
\* their order; f says where in s.
DrawsBy(f, t, s, E) ==
  /\ f \in [DOMAIN t -> DOMAIN s]
  /\ \A k \in DOMAIN t : t[k] = s[f[k]] /\ s[f[k]].engine \in E
  /\ \A i \in DOMAIN s : s[i].engine \in E => \E k \in DOMAIN t : f[k] = i
  /\ \A k, l \in DOMAIN t : k < l /\ t[k].engine = t[l].engine => f[k] < f[l]

\* t is rows of s, those of the engines E.
Draws(t, s, E) == t \in Seq(MegaRow) /\ \E f : DrawsBy(f, t, s, E)

\* Winners do not depend on the order in which the engines' rows came: better
\* decides between engines, and the rows of one engine stay in their order.
LEMMA SameWinners ==
  ASSUME NEW s, Ranks(s), NEW t, Ranks(t), NEW f, DrawsBy(f, t, s, Engines),
         NEW k, Winners(k, s, Len(s)), NEW l, Winners(l, t, Len(t))
  PROVE  \A j \in DOMAIN k : \E m \in DOMAIN l : l[m] = k[j]
<1> SUFFICES ASSUME NEW j \in DOMAIN k PROVE \E m \in DOMAIN l : l[m] = k[j]
  OBVIOUS
<1>1. /\ s \in Seq(MegaRow) /\ t \in Seq(MegaRow) /\ DOMAIN s = 1 .. Len(s) /\ DOMAIN t = 1 .. Len(t)
      /\ Len(s) \in Nat /\ Len(t) \in Nat
      /\ \A i \in DOMAIN s : s[i] \in RankedRow
      /\ \A i \in DOMAIN t : t[i] \in RankedRow
  BY DEF Ranks, RankedRow
<1>2. PICK i \in DOMAIN s : k[j] = s[i] /\ \A h \in 1 .. i - 1 : SameResult(s[h], s[i]) => betterMegaResult(s[i], s[h])
  BY <1>1 DEF Winners
<1>3. PICK p \in DOMAIN t : f[p] = i
  <2>1. s[i].engine \in Engines
    BY <1>1 DEF RankedRow, MegaRow
  <2>2. QED
    BY <2>1 DEF DrawsBy
<1>4. t[p] = s[i]
  BY <1>3 DEF DrawsBy
<1>5. PICK m \in DOMAIN l : SameResult(l[m], t[p]) /\ ~ betterMegaResult(t[p], l[m])
  BY <1>1 DEF Winners
<1>6. PICK q \in DOMAIN t : l[m] = t[q] /\ \A h \in 1 .. q - 1 : SameResult(t[h], t[q]) => betterMegaResult(t[q], t[h])
  BY <1>1 DEF Winners
<1>7. f[q] \in DOMAIN s /\ t[q] = s[f[q]]
  BY DEF DrawsBy
<1>8. PICK g \in DOMAIN k : SameResult(k[g], s[f[q]]) /\ ~ betterMegaResult(s[f[q]], k[g])
  BY <1>1, <1>7 DEF Winners
<1>9. SameResult(t[q], s[i]) /\ SameResult(s[i], t[q])
  BY <1>4, <1>5, <1>6, SameResults
<1>10. g = j
  <2>1. SameResult(k[g], k[j])
    BY <1>2, <1>7, <1>8, <1>9, SameResults
  <2>2. QED
    BY <2>1 DEF Winners
<1>11. ~ betterMegaResult(t[q], s[i]) /\ ~ betterMegaResult(s[i], t[q])
  BY <1>2, <1>4, <1>5, <1>6, <1>7, <1>8, <1>10
<1>12. s[i].engine = t[q].engine
  <2>1. s[i] \in RankedRow /\ t[q] \in RankedRow
    BY <1>1
  <2>2. QED
    BY <1>11, <2>1, BetterOrder
<1>13. ~ f[q] < i
  <2> SUFFICES ASSUME f[q] < i PROVE FALSE
    OBVIOUS
  <2>1. f[q] \in 1 .. i - 1
    BY <1>1, <1>7
  <2>2. SameResult(s[f[q]], s[i])
    BY <1>7, <1>9
  <2>3. QED
    BY <1>2, <1>7, <1>11, <2>1, <2>2
<1>14. ~ q < p
  <2>1. q < p => f[q] < f[p]
    BY <1>4, <1>12 DEF DrawsBy
  <2>2. QED
    BY <1>3, <1>13, <2>1
<1>15. ~ p < q
  <2> SUFFICES ASSUME p < q PROVE FALSE
    OBVIOUS
  <2>1. p \in 1 .. q - 1
    BY <1>1
  <2>2. SameResult(t[p], t[q])
    BY <1>4, <1>9
  <2>3. QED
    BY <1>4, <1>6, <1>11, <2>1, <2>2
<1>16. p = q
  BY <1>1, <1>14, <1>15
<1>17. QED
  BY <1>2, <1>4, <1>6, <1>16

\* Nor are there others.
LEMMA OtherWinners ==
  ASSUME NEW s, Ranks(s), NEW t, Ranks(t), NEW f, DrawsBy(f, t, s, Engines),
         NEW k, Winners(k, s, Len(s)), NEW l, Winners(l, t, Len(t))
  PROVE  \A m \in DOMAIN l : \E j \in DOMAIN k : k[j] = l[m]
<1> SUFFICES ASSUME NEW m \in DOMAIN l PROVE \E j \in DOMAIN k : k[j] = l[m]
  OBVIOUS
<1>1. DOMAIN s = 1 .. Len(s) /\ DOMAIN t = 1 .. Len(t)
  BY DEF Ranks
<1>2. PICK q \in DOMAIN t : l[m] = t[q]
  BY <1>1 DEF Winners
<1>3. f[q] \in DOMAIN s /\ t[q] = s[f[q]]
  BY DEF DrawsBy
<1>4. PICK j \in DOMAIN k : SameResult(k[j], s[f[q]])
  BY <1>1, <1>3 DEF Winners
<1>5. PICK h \in DOMAIN l : l[h] = k[j]
  BY SameWinners
<1>6. SameResult(l[h], l[m])
  BY <1>2, <1>3, <1>4, <1>5
<1>7. h = m
  BY <1>6 DEF Winners
<1>8. QED
  BY <1>5, <1>7

-----------------------------------------------------------------------------
(* Sorting them. *)

\* No result twice.
Single(k) == \A i, j \in DOMAIN k : SameResult(k[i], k[j]) => i = j

\* Rows by the order of sortMegaResults.
InOrder(x) == x \in Seq(MegaRow) /\ \A p, q \in DOMAIN x : p < q => <<x[p], x[q]>> \in MegaLess

\* Different results are in an order.
LEMMA OrderDecides ==
  ASSUME NEW r \in MegaRow, NEW s \in MegaRow, ~ SameResult(r, s)
  PROVE  <<r, s>> \in MegaLess \/ <<s, r>> \in MegaLess
<1> DEFINE a == resultSortPosition(r)
           b == resultSortPosition(s)
<1>1. /\ a \in Int /\ b \in Int /\ r.rank \in Int /\ s.rank \in Int /\ r.url[1] \in Int /\ s.url[1] \in Int
      /\ r.url[2] \in Int /\ s.url[2] \in Int /\ r.ad \in BOOLEAN /\ s.ad \in BOOLEAN
  BY DEF resultSortPosition, MegaRow
<1>2. r.url[1] # s.url[1] \/ r.ad # s.ad
  <2>1. r.url[1] = s.url[1] => normalizeURL(r.url) = normalizeURL(s.url)
    BY DEF normalizeURL
  <2>2. QED
    BY <2>1 DEF SameResult
<1>3. /\ resultLess(r, s) <=> a < b \/ (a = b /\ ((r.ad /\ ~ s.ad) \/ (r.ad = s.ad /\ (r.rank < s.rank \/ (r.rank = s.rank /\ UrlLess(r.url, s.url))))))
      /\ resultLess(s, r) <=> b < a \/ (b = a /\ ((s.ad /\ ~ r.ad) \/ (s.ad = r.ad /\ (s.rank < r.rank \/ (s.rank = r.rank /\ UrlLess(s.url, r.url))))))
  BY DEF resultLess
<1>4. /\ UrlLess(r.url, s.url) <=> r.url[1] < s.url[1] \/ (r.url[1] = s.url[1] /\ r.url[2] < s.url[2])
      /\ UrlLess(s.url, r.url) <=> s.url[1] < r.url[1] \/ (s.url[1] = r.url[1] /\ s.url[2] < r.url[2])
  BY DEF UrlLess
<1> HIDE DEF a, b
<1>5. r.url[1] < s.url[1] \/ s.url[1] < r.url[1] \/ r.url[1] = s.url[1]
  BY <1>1
<1>6. a < b \/ b < a \/ a = b
  BY <1>1
<1>7. r.rank < s.rank \/ s.rank < r.rank \/ r.rank = s.rank
  BY <1>1
<1>8. resultLess(r, s) \/ resultLess(s, r)
  <2>1. CASE r.ad = s.ad
    BY <1>2, <1>3, <1>4, <1>5, <1>6, <1>7, <2>1
  <2>2. CASE r.ad # s.ad
    <3>1. (r.ad /\ ~ s.ad) \/ (s.ad /\ ~ r.ad)
      BY <1>1, <2>2
    <3>2. QED
      BY <1>3, <1>6, <3>1
  <2>3. QED
    BY <2>1, <2>2
<1>9. QED
  BY <1>8 DEF MegaLess, megaLess

\* Sorted, they are in it.
LEMMA SortedInOrder ==
  ASSUME NEW k \in Seq(MegaRow), Single(k)
  PROVE  /\ InOrder(Sorted(k, megaLess))
         /\ \A j \in DOMAIN k : \E p \in DOMAIN Sorted(k, megaLess) : Sorted(k, megaLess)[p] = k[j]
         /\ \A p \in DOMAIN Sorted(k, megaLess) : \E j \in DOMAIN k : Sorted(k, megaLess)[p] = k[j]
<1> DEFINE x == Sorted(k, megaLess)
<1>1. x \in Seq(MegaRow)
  BY MegaSorted
<1>2. PICK g : Moves(g, k, x) /\ \A i, j \in DOMAIN k : j \in Upto(k, MegaLess, i) <=> g[j] <= g[i]
  BY MegaSorted
<1> HIDE DEF x
<1>3. /\ g \in [DOMAIN k -> DOMAIN k] /\ Len(x) = Len(k)
      /\ \A p \in DOMAIN k : \E i \in DOMAIN k : g[i] = p
      /\ \A i \in DOMAIN k : x[g[i]] = k[i]
  BY <1>2 DEF Moves
<1>4. DOMAIN x = DOMAIN k /\ DOMAIN k \subseteq Nat
  BY <1>1, <1>3
<1>5. ASSUME NEW p \in DOMAIN x, NEW q \in DOMAIN x, p < q PROVE <<x[p], x[q]>> \in MegaLess
  <2>1. PICK i \in DOMAIN k : g[i] = p
    BY <1>3, <1>4
  <2>2. PICK j \in DOMAIN k : g[j] = q
    BY <1>3, <1>4
  <2>3. p \in Nat /\ q \in Nat
    BY <1>4
  <2>4. i # j /\ g[i] <= g[j] /\ ~ g[j] <= g[i]
    BY <1>5, <2>1, <2>2, <2>3
  <2>5. i \in Upto(k, MegaLess, j) /\ j \notin Upto(k, MegaLess, i)
    BY <1>2, <2>4
  <2>6. <<k[j], k[i]>> \notin MegaLess
    BY <2>5 DEF Upto
  <2>7. k[i] \in MegaRow /\ k[j] \in MegaRow /\ ~ SameResult(k[i], k[j])
    BY <2>4 DEF Single
  <2>8. <<k[i], k[j]>> \in MegaLess
    BY <2>6, <2>7, OrderDecides
  <2>9. x[p] = k[i] /\ x[q] = k[j]
    BY <1>3, <2>1, <2>2
  <2>10. QED
    BY <2>8, <2>9
<1>6. QED
  BY <1>1, <1>3, <1>4, <1>5 DEF InOrder, x

\* There is one way to put rows in order.
LEMMA OneOrder ==
  ASSUME NEW x, InOrder(x), NEW y, InOrder(y),
         \A p \in DOMAIN x : \E q \in DOMAIN y : y[q] = x[p],
         \A p \in DOMAIN y : \E q \in DOMAIN x : x[q] = y[p]
  PROVE  x = y
<1>1. /\ x \in Seq(MegaRow) /\ y \in Seq(MegaRow) /\ DOMAIN x = 1 .. Len(x) /\ DOMAIN y = 1 .. Len(y)
      /\ Len(x) \in Nat /\ Len(y) \in Nat
      /\ \A p \in DOMAIN x : x[p] \in MegaRow
      /\ \A p \in DOMAIN y : y[p] \in MegaRow
  BY DEF InOrder
<1>2. /\ \A r \in MegaRow : <<r, r>> \notin MegaLess
      /\ \A r, s \in MegaRow : ~ (<<r, s>> \in MegaLess /\ <<s, r>> \in MegaLess)
  BY MegaOrder DEF Ordering
<1>3. /\ \A p, q \in DOMAIN x : x[p] = x[q] => p = q
      /\ \A p, q \in DOMAIN y : y[p] = y[q] => p = q
  <2>1. \A p, q \in DOMAIN x : p < q => x[p] # x[q]
    BY <1>1, <1>2 DEF InOrder
  <2>2. \A p, q \in DOMAIN y : p < q => y[p] # y[q]
    BY <1>1, <1>2 DEF InOrder
  <2>3. \A p, q \in Nat : p < q \/ q < p \/ p = q
    OBVIOUS
  <2>4. DOMAIN x \subseteq Nat /\ DOMAIN y \subseteq Nat
    BY <1>1
  <2>5. ASSUME NEW p \in DOMAIN x, NEW q \in DOMAIN x, x[p] = x[q] PROVE p = q
    BY <2>1, <2>3, <2>4, <2>5
  <2>6. ASSUME NEW p \in DOMAIN y, NEW q \in DOMAIN y, y[p] = y[q] PROVE p = q
    BY <2>2, <2>3, <2>4, <2>6
  <2>7. QED
    BY <2>5, <2>6
<1> DEFINE Differ == {p \in Nat : (p \in DOMAIN x \/ p \in DOMAIN y) /\ ~ (p \in DOMAIN x /\ p \in DOMAIN y /\ x[p] = y[p])}
<1>4. Differ = {}
  <2> SUFFICES ASSUME Differ # {} PROVE FALSE
    OBVIOUS
  <2>1. PICK p \in Differ : \A q \in Differ : p <= q
    <3>1. Differ \subseteq Nat
      OBVIOUS
    <3> HIDE DEF Differ
    <3>2. QED
      BY <3>1, LeastNatural
  <2>2. \A q \in Nat : q < p /\ (q \in DOMAIN x \/ q \in DOMAIN y) => q \in DOMAIN x /\ q \in DOMAIN y /\ x[q] = y[q]
    <3>1. \A q \in Nat : q < p => q \notin Differ
      <4>1. p \in Nat
        OBVIOUS
      <4>2. \A q \in Nat : q < p => ~ p <= q
        BY <4>1
      <4> HIDE DEF Differ
      <4>3. QED
        BY <2>1, <4>2
    <3>2. QED
      BY <3>1
  <2>3. ASSUME NEW q \in DOMAIN y, p \in DOMAIN x, y[q] = x[p] PROVE p \in DOMAIN y /\ <<y[p], x[p]>> \in MegaLess
    <3>1. ~ q < p
      <4> SUFFICES ASSUME q < p PROVE FALSE
        OBVIOUS
      <4>1. q \in DOMAIN x /\ x[q] = y[q] /\ q \in Nat
        BY <1>1, <2>2
      <4>2. q = p
        BY <1>3, <2>3, <4>1
      <4>3. QED
        BY <4>1, <4>2
    <3>2. q # p
      BY <2>3
    <3>3. p < q /\ p \in DOMAIN y
      BY <1>1, <3>1, <3>2
    <3>4. QED
      BY <2>3, <3>3 DEF InOrder
  <2>4. ASSUME NEW q \in DOMAIN x, p \in DOMAIN y, x[q] = y[p] PROVE p \in DOMAIN x /\ <<x[p], y[p]>> \in MegaLess
    <3>1. ~ q < p
      <4> SUFFICES ASSUME q < p PROVE FALSE
        OBVIOUS
      <4>1. q \in DOMAIN y /\ x[q] = y[q] /\ q \in Nat
        BY <1>1, <2>2
      <4>2. q = p
        BY <1>3, <2>4, <4>1
      <4>3. QED
        BY <4>1, <4>2
    <3>2. q # p
      BY <2>4
    <3>3. p < q /\ p \in DOMAIN x
      BY <1>1, <3>1, <3>2
    <3>4. QED
      BY <2>4, <3>3 DEF InOrder
  <2>5. p \in DOMAIN x \/ p \in DOMAIN y
    OBVIOUS
  <2> HIDE DEF Differ
  <2>6. p \in DOMAIN x => p \in DOMAIN y /\ <<y[p], x[p]>> \in MegaLess
    BY <2>3
  <2>7. p \in DOMAIN y => p \in DOMAIN x /\ <<x[p], y[p]>> \in MegaLess
    BY <2>4
  <2>8. QED
    BY <1>1, <1>2, <2>5, <2>6, <2>7
<1>5. \A p \in Nat : (p \in DOMAIN x <=> p \in DOMAIN y) /\ (p \in DOMAIN x => x[p] = y[p])
  BY <1>4
<1>6. DOMAIN x = DOMAIN y
  <2>1. DOMAIN x \subseteq Nat /\ DOMAIN y \subseteq Nat
    BY <1>1
  <2>2. QED
    BY <1>5, <2>1
<1>7. \A p \in DOMAIN x : x[p] = y[p]
  <2>1. DOMAIN x \subseteq Nat
    BY <1>1
  <2>2. QED
    BY <1>5, <2>1
<1>8. x \in [DOMAIN x -> MegaRow] /\ y \in [DOMAIN y -> MegaRow]
  BY <1>1
<1>9. QED
  BY <1>6, <1>7, <1>8

\* The merged rows are those of any order in which the engines' rows come.
LEMMA MergedAlike ==
  ASSUME NEW s, Ranks(s), NEW t, Draws(t, s, Engines)
  PROVE  deduplicateMegaResults(s) = deduplicateMegaResults(t)
<1>1. PICK f : DrawsBy(f, t, s, Engines)
  BY DEF Draws
<1>2. Ranks(t)
  <2>1. t \in Seq(MegaRow) /\ \A k \in DOMAIN t : f[k] \in DOMAIN s /\ t[k] = s[f[k]]
    BY <1>1 DEF Draws, DrawsBy
  <2>2. QED
    BY <2>1 DEF Ranks
<1> DEFINE k == Keeps(s)[Len(s)]
           l == Keeps(t)[Len(t)]
<1>3. Winners(k, s, Len(s)) /\ Winners(l, t, Len(t))
  BY <1>2, KeepsWinners
<1>4. s \in Seq(MegaRow) /\ t \in Seq(MegaRow)
  BY <1>2 DEF Ranks
<1>5. deduplicateMegaResults(s) = Sorted(k, megaLess) /\ deduplicateMegaResults(t) = Sorted(l, megaLess)
  BY <1>4, MergedRows
<1> HIDE DEF k, l
<1>6. k \in Seq(MegaRow) /\ l \in Seq(MegaRow) /\ Single(k) /\ Single(l)
  BY <1>3 DEF Winners, Single
<1>7. \A j \in DOMAIN k : \E m \in DOMAIN l : l[m] = k[j]
  BY <1>1, <1>2, <1>3, SameWinners
<1>8. \A m \in DOMAIN l : \E j \in DOMAIN k : k[j] = l[m]
  BY <1>1, <1>2, <1>3, OtherWinners
<1> DEFINE x == Sorted(k, megaLess)
           y == Sorted(l, megaLess)
<1>9. /\ InOrder(x)
      /\ \A j \in DOMAIN k : \E p \in DOMAIN x : x[p] = k[j]
      /\ \A p \in DOMAIN x : \E j \in DOMAIN k : x[p] = k[j]
  BY <1>6, SortedInOrder
<1>10. /\ InOrder(y)
       /\ \A j \in DOMAIN l : \E p \in DOMAIN y : y[p] = l[j]
       /\ \A p \in DOMAIN y : \E j \in DOMAIN l : y[p] = l[j]
  BY <1>6, SortedInOrder
<1>11. x = y
  <2> HIDE DEF x, y
  <2>1. \A p \in DOMAIN x : \E q \in DOMAIN y : y[q] = x[p]
    BY <1>7, <1>9, <1>10
  <2>2. \A p \in DOMAIN y : \E q \in DOMAIN x : x[q] = y[p]
    BY <1>8, <1>9, <1>10
  <2>3. QED
    BY <1>9, <1>10, <2>1, <2>2, OneOrder
<1>12. QED
  BY <1>5, <1>11

-----------------------------------------------------------------------------
(* The engines' rows, engine by engine. *)

\* The rows of one engine.
LEMMA DrawsOne ==
  ASSUME NEW s \in Seq(MegaRow), NEW e
  PROVE  Draws(Kept(s, {i \in DOMAIN s : s[i].engine = e}), s, {e})
<1> DEFINE at == {i \in DOMAIN s : s[i].engine = e}
           t == Kept(s, at)
           f == [k \in DOMAIN t |-> CHOOSE i \in at : Rank(at, i) = k]
<1>1. Len(s) \in Nat /\ DOMAIN s = 1 .. Len(s) /\ at \subseteq DOMAIN s /\ at \subseteq 1 .. Len(s)
  OBVIOUS
<1>2. \A i \in at : s[i] \in MegaRow /\ s[i].engine = e /\ i \in Nat
  BY <1>1
<1>3. \A i \in DOMAIN s : s[i].engine = e => i \in at
  OBVIOUS
<1> HIDE DEF at
<1>4. Selects(s, at, t)
  BY <1>1, KeptFacts
<1> HIDE DEF t
<1>5. /\ t \in Seq({s[i] : i \in at}) /\ DOMAIN t = 1 .. Cardinality(at)
      /\ \A i \in at : Rank(at, i) \in DOMAIN t /\ t[Rank(at, i)] = s[i]
      /\ \A k \in DOMAIN t : \E i \in at : Rank(at, i) = k
      /\ \A i, j \in at : i < j => Rank(at, i) < Rank(at, j)
  <2>1. /\ t \in Seq({s[i] : i \in at}) /\ Len(t) = Cardinality(at)
        /\ \A i \in at : Rank(at, i) \in 1 .. Cardinality(at) /\ t[Rank(at, i)] = s[i]
        /\ \A k \in 1 .. Cardinality(at) : \E i \in at : Rank(at, i) = k
        /\ \A i, j \in at : i < j => Rank(at, i) < Rank(at, j)
    BY <1>4 DEF Selects
  <2>2. DOMAIN t = 1 .. Cardinality(at)
    BY <2>1
  <2>3. QED
    BY <2>1, <2>2
<1>6. t \in Seq(MegaRow)
  <2>1. {s[i] : i \in at} \subseteq MegaRow
    BY <1>2
  <2>2. QED
    BY <1>5, <2>1
<1>7. \A k \in DOMAIN t : f[k] \in at /\ Rank(at, f[k]) = k /\ t[k] = s[f[k]]
  <2> SUFFICES ASSUME NEW k \in DOMAIN t PROVE f[k] \in at /\ Rank(at, f[k]) = k /\ t[k] = s[f[k]]
    OBVIOUS
  <2>1. f[k] \in at /\ Rank(at, f[k]) = k
    BY <1>5
  <2>2. QED
    BY <1>5, <2>1
<1>8. \A i, j \in at : Rank(at, i) = Rank(at, j) => i = j
  <2> SUFFICES ASSUME NEW i \in at, NEW j \in at, Rank(at, i) = Rank(at, j), i # j PROVE FALSE
    OBVIOUS
  <2>1. i < j \/ j < i
    BY <1>2
  <2>2. Rank(at, i) < Rank(at, i)
    BY <1>5, <2>1
  <2>3. Rank(at, i) \in Int
    BY <1>4, <1>5, <1>6
  <2>4. QED
    BY <2>2, <2>3
<1>9. f \in [DOMAIN t -> DOMAIN s]
  BY <1>1, <1>7
<1> HIDE DEF f
<1>10. \A k \in DOMAIN t : t[k] = s[f[k]] /\ s[f[k]].engine \in {e}
  BY <1>2, <1>7
<1>11. \A i \in DOMAIN s : s[i].engine \in {e} => \E k \in DOMAIN t : f[k] = i
  <2> SUFFICES ASSUME NEW i \in DOMAIN s, s[i].engine = e PROVE \E k \in DOMAIN t : f[k] = i
    OBVIOUS
  <2>1. i \in at /\ Rank(at, i) \in DOMAIN t
    BY <1>3, <1>5
  <2>2. f[Rank(at, i)] \in at /\ Rank(at, f[Rank(at, i)]) = Rank(at, i)
    BY <1>7, <2>1
  <2>3. QED
    BY <1>8, <2>1, <2>2
<1>12. \A k, l \in DOMAIN t : k < l => f[k] < f[l]
  <2> SUFFICES ASSUME NEW k \in DOMAIN t, NEW l \in DOMAIN t, k < l, ~ f[k] < f[l] PROVE FALSE
    OBVIOUS
  <2>1. f[k] \in at /\ f[l] \in at /\ Rank(at, f[k]) = k /\ Rank(at, f[l]) = l
    BY <1>7
  <2>2. k \in Nat /\ l \in Nat
    BY <1>6
  <2>3. f[k] = f[l] \/ f[l] < f[k]
    BY <1>2, <2>1
  <2>4. k = l \/ l < k
    BY <1>5, <2>1, <2>3
  <2>5. QED
    BY <2>2, <2>4
<1>13. DrawsBy(f, t, s, {e})
  BY <1>9, <1>10, <1>11, <1>12 DEF DrawsBy
<1>14. QED
  BY <1>6, <1>13 DEF Draws, t, at

\* The rows of some engines, and then those of others.
LEMMA DrawsMore ==
  ASSUME NEW s \in Seq(MegaRow), NEW D, NEW E, D \cap E = {}, NEW t, Draws(t, s, D), NEW u, Draws(u, s, E)
  PROVE  Draws(t \o u, s, D \cup E)
<1>1. t \in Seq(MegaRow) /\ u \in Seq(MegaRow)
  BY DEF Draws
<1>2. PICK f : DrawsBy(f, t, s, D)
  BY DEF Draws
<1>3. PICK g : DrawsBy(g, u, s, E)
  BY DEF Draws
<1> DEFINE m == Len(t)
           n == Len(u)
           x == t \o u
           h == [k \in DOMAIN x |-> IF k <= m THEN f[k] ELSE g[k - m]]
<1>4. /\ m \in Nat /\ n \in Nat /\ DOMAIN t = 1 .. m /\ DOMAIN u = 1 .. n /\ x \in Seq(MegaRow)
      /\ DOMAIN x = 1 .. m + n
      /\ \A k \in 1 .. m + n : x[k] = IF k <= m THEN t[k] ELSE u[k - m]
  <2>1. m \in Nat /\ n \in Nat /\ DOMAIN t = 1 .. m /\ DOMAIN u = 1 .. n
    BY <1>1
  <2>2. x \in Seq(MegaRow) /\ Len(x) = m + n /\ \A k \in 1 .. m + n : x[k] = IF k <= m THEN t[k] ELSE u[k - m]
    BY <1>1, ConcatProperties
  <2> HIDE DEF x
  <2>3. QED
    BY <2>1, <2>2
<1> HIDE DEF x, m, n
<1>5. \A k \in DOMAIN x : (k <= m => k \in DOMAIN t) /\ (~ k <= m => k - m \in DOMAIN u) /\ k \in Int
  BY <1>4
<1>6. \A k \in DOMAIN x : /\ k <= m => h[k] = f[k] /\ x[k] = t[k]
                          /\ ~ k <= m => h[k] = g[k - m] /\ x[k] = u[k - m]
  BY <1>4
<1>7. /\ f \in [DOMAIN t -> DOMAIN s] /\ g \in [DOMAIN u -> DOMAIN s]
      /\ \A k \in DOMAIN t : t[k] = s[f[k]] /\ s[f[k]].engine \in D
      /\ \A k \in DOMAIN u : u[k] = s[g[k]] /\ s[g[k]].engine \in E
  BY <1>2, <1>3 DEF DrawsBy
<1>8. h \in [DOMAIN x -> DOMAIN s]
  <2>1. \A k \in DOMAIN x : h[k] \in DOMAIN s
    BY <1>5, <1>6, <1>7
  <2>2. QED
    BY <2>1
<1> HIDE DEF h
<1>9. \A k \in DOMAIN x : x[k] = s[h[k]] /\ s[h[k]].engine \in D \cup E
  BY <1>5, <1>6, <1>7
<1>10. \A i \in DOMAIN s : s[i].engine \in D \cup E => \E k \in DOMAIN x : h[k] = i
  <2>1. ASSUME NEW i \in DOMAIN s, s[i].engine \in D PROVE \E k \in DOMAIN x : h[k] = i
    <3>1. PICK k \in DOMAIN t : f[k] = i
      BY <1>2, <2>1 DEF DrawsBy
    <3>2. k \in DOMAIN x /\ k <= m
      BY <1>4
    <3>3. QED
      BY <1>6, <3>1, <3>2
  <2>2. ASSUME NEW i \in DOMAIN s, s[i].engine \in E PROVE \E k \in DOMAIN x : h[k] = i
    <3>1. PICK k \in DOMAIN u : g[k] = i
      BY <1>3, <2>2 DEF DrawsBy
    <3>2. k + m \in DOMAIN x /\ ~ k + m <= m /\ (k + m) - m = k
      BY <1>4
    <3>3. QED
      BY <1>6, <3>1, <3>2
  <2>3. QED
    BY <2>1, <2>2
<1>11. ASSUME NEW k \in DOMAIN x, NEW l \in DOMAIN x, k < l, x[k].engine = x[l].engine PROVE h[k] < h[l]
  <2>1. CASE l <= m
    <3>1. k <= m
      BY <1>4, <1>5, <1>11, <2>1
    <3>2. k \in DOMAIN t /\ l \in DOMAIN t
      BY <1>5, <2>1, <3>1
    <3>3. h[k] = f[k] /\ h[l] = f[l] /\ t[k].engine = t[l].engine
      BY <1>6, <1>11, <2>1, <3>1
    <3>4. QED
      BY <1>2, <1>11, <3>2, <3>3 DEF DrawsBy
  <2>2. CASE ~ k <= m
    <3>1. ~ l <= m
      BY <1>4, <1>5, <1>11, <2>2
    <3>2. k - m \in DOMAIN u /\ l - m \in DOMAIN u /\ k - m < l - m
      BY <1>4, <1>5, <1>11, <2>2, <3>1
    <3>3. h[k] = g[k - m] /\ h[l] = g[l - m] /\ u[k - m].engine = u[l - m].engine
      BY <1>6, <1>11, <2>2, <3>1
    <3>4. QED
      BY <1>3, <3>2, <3>3 DEF DrawsBy
  <2>3. CASE k <= m /\ ~ l <= m
    <3>1. t[k].engine \in D /\ u[l - m].engine \in E
      BY <1>5, <1>7, <2>3
    <3>2. x[k].engine \in D /\ x[l].engine \in E
      BY <1>6, <2>3, <3>1
    <3>3. QED
      BY <1>11, <3>2
  <2>4. QED
    BY <2>1, <2>2, <2>3
<1>12. DrawsBy(h, x, s, D \cup E)
  BY <1>8, <1>9, <1>10, <1>11 DEF DrawsBy
<1>13. QED
  BY <1>4, <1>12 DEF Draws, x

\* The engines' rows, engine by engine.
RowsOf(s, e) == Kept(s, {i \in DOMAIN s : s[i].engine = e})
InTurn(s) ==
  RowsOf(s, "baidu") \o RowsOf(s, "bing") \o RowsOf(s, "duckduckgo") \o RowsOf(s, "ecosia")
    \o RowsOf(s, "google") \o RowsOf(s, "yandex")

\* The rows engine by engine are all the rows, each engine's in their order.
LEMMA DrawsAll ==
  ASSUME NEW s \in Seq(MegaRow)
  PROVE  Draws(InTurn(s), s, Engines)
<1> DEFINE b == RowsOf(s, "baidu")
           i == RowsOf(s, "bing")
           d == RowsOf(s, "duckduckgo")
           e == RowsOf(s, "ecosia")
           g == RowsOf(s, "google")
           y == RowsOf(s, "yandex")
<1>1. /\ Draws(b, s, {"baidu"}) /\ Draws(i, s, {"bing"}) /\ Draws(d, s, {"duckduckgo"})
      /\ Draws(e, s, {"ecosia"}) /\ Draws(g, s, {"google"}) /\ Draws(y, s, {"yandex"})
  BY DrawsOne DEF RowsOf
<1> HIDE DEF b, i, d, e, g, y
<1>2. Draws(b \o i, s, {"baidu"} \cup {"bing"})
  <2>1. {"baidu"} \cap {"bing"} = {}
    OBVIOUS
  <2>2. QED
    BY <1>1, <2>1, DrawsMore
<1>3. Draws(b \o i \o d, s, {"baidu"} \cup {"bing"} \cup {"duckduckgo"})
  <2>1. ({"baidu"} \cup {"bing"}) \cap {"duckduckgo"} = {}
    OBVIOUS
  <2>2. QED
    BY <1>1, <1>2, <2>1, DrawsMore
<1>4. Draws(b \o i \o d \o e, s, {"baidu"} \cup {"bing"} \cup {"duckduckgo"} \cup {"ecosia"})
  <2>1. ({"baidu"} \cup {"bing"} \cup {"duckduckgo"}) \cap {"ecosia"} = {}
    OBVIOUS
  <2>2. QED
    BY <1>1, <1>3, <2>1, DrawsMore
<1>5. Draws(b \o i \o d \o e \o g, s, {"baidu"} \cup {"bing"} \cup {"duckduckgo"} \cup {"ecosia"} \cup {"google"})
  <2>1. ({"baidu"} \cup {"bing"} \cup {"duckduckgo"} \cup {"ecosia"}) \cap {"google"} = {}
    OBVIOUS
  <2>2. QED
    BY <1>1, <1>4, <2>1, DrawsMore
<1>6. Draws(b \o i \o d \o e \o g \o y, s,
            {"baidu"} \cup {"bing"} \cup {"duckduckgo"} \cup {"ecosia"} \cup {"google"} \cup {"yandex"})
  <2>1. ({"baidu"} \cup {"bing"} \cup {"duckduckgo"} \cup {"ecosia"} \cup {"google"}) \cap {"yandex"} = {}
    OBVIOUS
  <2>2. QED
    BY <1>1, <1>5, <2>1, DrawsMore
<1>7. Engines = {"baidu"} \cup {"bing"} \cup {"duckduckgo"} \cup {"ecosia"} \cup {"google"} \cup {"yandex"}
  BY DEF Engines
<1>8. QED
  BY <1>6, <1>7 DEF InTurn, b, i, d, e, g, y

\* Of the rows that are one result, the merged one is as good as each.
LEMMA MergedBest ==
  ASSUME NEW s, Ranks(s), NEW i \in DOMAIN s
  PROVE  \E j \in DOMAIN deduplicateMegaResults(s) :
           LET r == deduplicateMegaResults(s)[j]
           IN  /\ r \in MegaRow /\ SameResult(r, s[i])
               /\ s[i].rank > 0 => r.rank > 0 /\ r.rank <= s[i].rank
<1> DEFINE k == Keeps(s)[Len(s)]
           x == deduplicateMegaResults(s)
<1>1. s \in Seq(MegaRow) /\ i \in 1 .. Len(s)
  BY DEF Ranks
<1>2. Winners(k, s, Len(s))
  BY KeepsWinners
<1>3. x = Sorted(k, megaLess)
  BY <1>1, MergedRows
<1> HIDE DEF k, x
<1>4. PICK j \in DOMAIN k : SameResult(k[j], s[i]) /\ ~ betterMegaResult(s[i], k[j])
  BY <1>1, <1>2 DEF Winners
<1>5. k \in Seq(MegaRow) /\ Single(k)
  BY <1>2 DEF Winners, Single
<1>6. PICK p \in DOMAIN x : x[p] = k[j]
  BY <1>3, <1>5, SortedInOrder
<1>7. k[j] \in MegaRow /\ k[j].rank \in Int /\ s[i].rank \in Int
  <2>1. k[j] \in MegaRow /\ s[i] \in MegaRow
    BY <1>1, <1>5
  <2>2. QED
    BY <2>1 DEF MegaRow
<1>8. s[i].rank > 0 => k[j].rank > 0 /\ k[j].rank <= s[i].rank
  BY <1>4, <1>7 DEF betterMegaResult
<1>9. QED
  BY <1>4, <1>6, <1>7, <1>8 DEF x

\* Every action keeps MergeIsFair: the envelope is of the merged rows that
\* arrived.
LEMMA MergeStep ==
  ASSUME ClientTypes, ArrivedRows, MergeIsFair, [PagedNext]_pagedVars
  PROVE  MergeIsFair'
<1>1. CASE Envelope
  <2>1. turn = "asking" /\ UNCHANGED <<client, start, arrived>> /\ results' = Enriched(IF one THEN arrived ELSE MegaResults)
    BY <1>1 DEF Envelope
  <2>2. one' = one
    BY <2>1, SameClient
  <2> SUFFICES ASSUME ~ one, client.dedupe PROVE MergeIsFair'
    BY <2>1, <2>2 DEF MergeIsFair
  <2>3. arrived \in Seq(MegaRow) /\ \A i \in DOMAIN arrived : Placed(arrived[i])
    BY <2>1 DEF ArrivedRows
  <2>4. client.kind = "web"
    <3>1. client \in Clients
      BY DEF ClientTypes
    <3>2. QED
      BY <3>1, ClientFacts
  <2>5. Ranks(arrived)
    BY <2>3, <2>4 DEF Ranks, Placed
  <2> DEFINE x == deduplicateMegaResults(arrived)
  <2>6. results' = Enriched(x)
    BY <2>1 DEF MegaResults
  <2>7. x = deduplicateMegaResults(InTurn(arrived))
    <3>1. Draws(InTurn(arrived), arrived, Engines)
      BY <2>3, DrawsAll
    <3>2. QED
      BY <2>5, <3>1, MergedAlike
  <2>8. ASSUME NEW i \in DOMAIN arrived
        PROVE  \E j \in DOMAIN results' :
                 /\ results'[j].url = normalizeURL(arrived[i].url) /\ (results'[j].type = "ad") = arrived[i].ad
                 /\ arrived[i].rank > 0 => results'[j].rank \in 1 .. arrived[i].rank
    <3>1. PICK j \in DOMAIN x :
            LET r == x[j]
            IN  /\ r \in MegaRow /\ SameResult(r, arrived[i])
                /\ arrived[i].rank > 0 => r.rank > 0 /\ r.rank <= arrived[i].rank
      BY <2>5, MergedBest
    <3> DEFINE r == x[j]
               y == results'[j]
    <3>2. j \in DOMAIN results' /\ y = EnrichResult(r)
      BY <2>6 DEF Enriched
    <3>3. r \in MegaRow /\ arrived[i] \in MegaRow /\ normalizeURL(r.url) = normalizeURL(arrived[i].url) /\ r.ad = arrived[i].ad
          /\ (arrived[i].rank > 0 => r.rank > 0 /\ r.rank <= arrived[i].rank)
      BY <2>3, <3>1 DEF SameResult
    <3> HIDE DEF x, r, y
    <3>4. y.url = normalizeURL(r.url) /\ (y.type = "ad" <=> r.ad) /\ (r.rank >= 0 => y.rank = r.rank)
      BY <3>2, <3>3, EnrichedRow
    <3>5. r.rank \in Int /\ arrived[i].rank \in Int /\ r.ad \in BOOLEAN
      BY <3>3 DEF MegaRow
    <3>6. arrived[i].rank > 0 => y.rank \in 1 .. arrived[i].rank
      BY <3>3, <3>4, <3>5
    <3>7. (y.type = "ad") = arrived[i].ad
      BY <3>3, <3>4, <3>5
    <3>8. QED
      BY <3>2, <3>3, <3>4, <3>6, <3>7 DEF y
  <2> HIDE DEF x
  <2>9. results' = Enriched(deduplicateMegaResults(InTurn(arrived)))
    BY <2>6, <2>7
  <2>10. results' = Enriched(deduplicateMegaResults(InTurn(arrived)))'
    <3> DEFINE z == deduplicateMegaResults(InTurn(arrived))
    <3>1. z' = z
      BY <2>1
    <3>2. Enriched(z)' = Enriched(z)
      <4>1. \A r : EnrichResult(r)' = EnrichResult(r)
        BY <2>1 DEF EnrichResult, computeResultPosition
      <4>2. QED
        BY <2>1, <4>1 DEF Enriched
    <3>3. QED
      BY <2>9, <3>2
  <2>11. QED
    BY <2>1, <2>8, <2>10 DEF MergeIsFair, InTurn, RowsOf
<1>2. CASE InitFromContext \/ NextPage \/ NoMore
  <2>1. turn' # "answered"
    BY <1>2 DEF InitFromContext, NextPage, NoMore
  <2>2. QED
    BY <2>1 DEF MergeIsFair
<1>3. CASE \E e \in Engines : EngineAnswers(e) \/ EngineFails(e)
  <2>1. turn' # "answered"
    BY <1>3 DEF EngineAnswers, EngineFails
  <2>2. QED
    BY <2>1 DEF MergeIsFair
<1>4. CASE UNCHANGED pagedVars
  <2>1. UNCHANGED <<client, start, turn, arrived, results>>
    BY <1>4 DEF pagedVars
  <2>2. one' = one
    BY <2>1, SameClient
  <2> SUFFICES ASSUME turn = "answered", ~ one, client.dedupe PROVE MergeIsFair'
    BY <2>1, <2>2 DEF MergeIsFair
  <2> DEFINE z == deduplicateMegaResults(InTurn(arrived))
  <2>3. results = Enriched(z)
    BY DEF MergeIsFair, InTurn, RowsOf
  <2>4. \A i \in DOMAIN arrived : \E j \in DOMAIN results :
          /\ results[j].url = normalizeURL(arrived[i].url) /\ (results[j].type = "ad") = arrived[i].ad
          /\ arrived[i].rank > 0 => results[j].rank \in 1 .. arrived[i].rank
    BY DEF MergeIsFair
  <2>5. z' = z
    BY <2>1
  <2>6. Enriched(z)' = Enriched(z)
    <3>1. \A r : EnrichResult(r)' = EnrichResult(r)
      BY <2>1 DEF EnrichResult, computeResultPosition
    <3>2. QED
      BY <2>5, <3>1 DEF Enriched
  <2>7. results' = Enriched(z)'
    BY <2>1, <2>3, <2>6
  <2>8. QED
    BY <2>1, <2>4, <2>7 DEF MergeIsFair, InTurn, RowsOf
<1>5. QED
  BY <1>1, <1>2, <1>3, <1>4 DEF PagedNext

\* deduplicateMegaResults and sortMegaResults give the same envelope whichever
\* engine's goroutine was first, and lose no result: each is there, once, with
\* the best of the ranks it arrived with.
THEOREM MergeAlways == PagedSpec => []MergeIsFair
<1>1. PagedInit => MergeIsFair
  BY DEF PagedInit, MergeIsFair
<1>2. IInv /\ MergeIsFair /\ [PagedNext]_pagedVars => MergeIsFair'
  BY MergeStep DEF IInv
<1>3. QED
  BY <1>1, <1>2, PagesHold, PTL DEF PagedSpec

-----------------------------------------------------------------------------
(* Clusters: one of them. *)

\* The scores and the best ranks of the first results of a cluster, one by one.
Sums(of) ==
  CHOOSE sum : sum = [n \in 0 .. Len(of) |->
    IF n = 0 THEN 0 ELSE sum[n - 1] + ScoreScale \div (IF of[n].rank <= 0 THEN 1 ELSE of[n].rank)]
Bests(of) ==
  CHOOSE best : best = [n \in 0 .. Len(of) |-> IF n = 0 THEN of[1].rank ELSE BestRank(best[n - 1], of[n].rank)]

\* Results have a rank, or have rank zero.
Told(S) == \A x \in S : x.rank \in Nat

\* Scores add up to a number.
LEMMA SumSteps ==
  ASSUME NEW S, Told(S), NEW of \in Seq(S)
  PROVE  Sums(of)[Len(of)] \in Nat
<1> DEFINE L == Len(of)
           share(n) == ScoreScale \div (IF of[n].rank <= 0 THEN 1 ELSE of[n].rank)
           G == [x \in Nat \X (0 .. L) |-> IF x[2] = 0 THEN x[1] ELSE x[1] + share(x[2])]
           F(k) == [n \in 0 .. L |-> IF n = 0 THEN 0 ELSE k[n - 1] + share(n)]
<1>1. L \in Nat /\ DOMAIN of = 1 .. L /\ \A n \in 1 .. L : of[n].rank \in Nat
  BY DEF Told
<1>2. \A n \in 1 .. L : share(n) \in Nat
  <2> SUFFICES ASSUME NEW n \in 1 .. L PROVE share(n) \in Nat
    OBVIOUS
  <2> DEFINE d == IF of[n].rank <= 0 THEN 1 ELSE of[n].rank
  <2>1. d \in Nat /\ d > 0
    BY <1>1
  <2> HIDE DEF d
  <2>2. ScoreScale \div d \in Nat
    <3>1. ScoreScale \in Nat
      BY PagedAssumption
    <3>2. QED
      BY <2>1, <3>1
  <2>3. QED
    BY <2>2 DEF d
<1> HIDE DEF share, L
<1>3. G \in [Nat \X (0 .. L) -> Nat]
  <2> SUFFICES ASSUME NEW x \in Nat \X (0 .. L) PROVE (IF x[2] = 0 THEN x[1] ELSE x[1] + share(x[2])) \in Nat
    OBVIOUS
  <2>1. x[1] \in Nat /\ (x[2] # 0 => x[2] \in 1 .. L)
    BY <1>1
  <2>2. x[2] # 0 => share(x[2]) \in Nat
    BY <1>2, <2>1
  <2>3. QED
    BY <2>1, <2>2
<1> HIDE DEF G
<1>4. PICK f : Stepping(f, 0, L, Nat, 0, G)
  <2>1. 0 \in Int /\ L \in Int /\ 0 <= L /\ 0 \in Nat
    BY <1>1
  <2>2. QED
    BY <1>3, <2>1, StepsExist
<1>5. f \in [0 .. L -> Nat] /\ f[0] = 0 /\ \A p \in 0 + 1 .. L : f[p] = G[<<f[p - 1], p>>]
  BY <1>4 DEF Stepping
<1>6. \A n \in 1 .. L : f[n] = f[n - 1] + share(n)
  <2> SUFFICES ASSUME NEW n \in 1 .. L PROVE f[n] = f[n - 1] + share(n)
    OBVIOUS
  <2>1. n \in 0 + 1 .. L /\ n - 1 \in 0 .. L /\ n \in 0 .. L /\ n # 0
    BY <1>1
  <2>2. <<f[n - 1], n>> \in Nat \X (0 .. L) /\ f[n] = G[<<f[n - 1], n>>]
    BY <1>5, <2>1
  <2>3. QED
    BY <2>1, <2>2 DEF G
<1>7. f = F(f)
  <2>1. \A n \in 0 .. L : n # 0 => n \in 1 .. L
    BY <1>1
  <2>2. \A n \in 0 .. L : f[n] = IF n = 0 THEN 0 ELSE f[n - 1] + share(n)
    BY <1>5, <1>6, <2>1
  <2>3. QED
    BY <1>5, <2>2
<1>8. Sums(of) = CHOOSE k : k = F(k)
  BY DEF Sums, L, share
<1>9. Sums(of) = F(Sums(of))
  BY <1>7, <1>8
<1>10. Sums(of)[0] = 0 /\ \A n \in 1 .. L : Sums(of)[n] = Sums(of)[n - 1] + share(n)
  <2>1. \A n \in 0 .. L : Sums(of)[n] = F(Sums(of))[n]
    BY <1>9
  <2>2. 0 \in 0 .. L /\ \A n \in 1 .. L : n \in 0 .. L /\ n # 0
    BY <1>1
  <2>3. QED
    BY <2>1, <2>2
<1> DEFINE T == {n \in 0 .. L : Sums(of)[n] \in Nat}
<1>11. 0 \in T
  BY <1>1, <1>10
<1>12. \A n \in 0 + 1 .. L : n - 1 \in T => n \in T
  <2> SUFFICES ASSUME NEW n \in 0 + 1 .. L, n - 1 \in T PROVE n \in T
    OBVIOUS
  <2>1. n \in 1 .. L /\ n \in 0 .. L
    BY <1>1
  <2>2. QED
    BY <1>2, <1>10, <2>1
<1> HIDE DEF T
<1>13. \A n \in 0 .. L : n \in T
  <2>1. 0 \in Int /\ L \in Int
    BY <1>1
  <2>2. QED
    BY <1>11, <1>12, <2>1, Interval
<1>14. L \in 0 .. L
  BY <1>1
<1>15. QED
  BY <1>13, <1>14 DEF T, L

\* Of the results of a cluster the best rank is a rank, or zero if none has one.
LEMMA BestSteps ==
  ASSUME NEW S, Told(S), NEW of \in Seq(S), Len(of) > 0
  PROVE  /\ Bests(of)[Len(of)] \in Nat
         /\ \A k \in 1 .. Len(of) : of[k].rank > 0 => Bests(of)[Len(of)] > 0 /\ Bests(of)[Len(of)] <= of[k].rank
         /\ \E k \in 1 .. Len(of) : Bests(of)[Len(of)] = of[k].rank
<1> DEFINE L == Len(of)
           rank(n) == of[n].rank
           G == [x \in Nat \X (0 .. L) |-> IF x[2] = 0 THEN x[1] ELSE BestRank(x[1], rank(x[2]))]
           F(k) == [n \in 0 .. L |-> IF n = 0 THEN rank(1) ELSE BestRank(k[n - 1], rank(n))]
<1>1. L \in Nat /\ L > 0 /\ DOMAIN of = 1 .. L /\ \A n \in 1 .. L : rank(n) \in Nat
  BY DEF Told
<1>2. \A b, r \in Nat : BestRank(b, r) \in Nat
  BY DEF BestRank
<1> HIDE DEF rank, L
<1>3. G \in [Nat \X (0 .. L) -> Nat]
  <2> SUFFICES ASSUME NEW x \in Nat \X (0 .. L)
               PROVE  (IF x[2] = 0 THEN x[1] ELSE BestRank(x[1], rank(x[2]))) \in Nat
    OBVIOUS
  <2>1. x[1] \in Nat /\ (x[2] # 0 => x[2] \in 1 .. L)
    BY <1>1
  <2>2. x[2] # 0 => rank(x[2]) \in Nat
    BY <1>1, <2>1
  <2>3. QED
    BY <1>2, <2>1, <2>2
<1> HIDE DEF G
<1>4. 1 \in 1 .. L /\ rank(1) \in Nat /\ 0 \in Int /\ L \in Int /\ 0 <= L
  BY <1>1
<1>5. PICK f : Stepping(f, 0, L, Nat, rank(1), G)
  BY <1>3, <1>4, StepsExist
<1>6. f \in [0 .. L -> Nat] /\ f[0] = rank(1) /\ \A p \in 0 + 1 .. L : f[p] = G[<<f[p - 1], p>>]
  BY <1>5 DEF Stepping
<1>7. \A n \in 1 .. L : f[n] = BestRank(f[n - 1], rank(n))
  <2> SUFFICES ASSUME NEW n \in 1 .. L PROVE f[n] = BestRank(f[n - 1], rank(n))
    OBVIOUS
  <2>1. n \in 0 + 1 .. L /\ n - 1 \in 0 .. L /\ n \in 0 .. L /\ n # 0
    BY <1>1
  <2>2. <<f[n - 1], n>> \in Nat \X (0 .. L) /\ f[n] = G[<<f[n - 1], n>>]
    BY <1>6, <2>1
  <2>3. QED
    BY <2>1, <2>2 DEF G
<1>8. f = F(f)
  <2>1. \A n \in 0 .. L : n # 0 => n \in 1 .. L
    BY <1>1
  <2>2. \A n \in 0 .. L : f[n] = IF n = 0 THEN rank(1) ELSE BestRank(f[n - 1], rank(n))
    BY <1>6, <1>7, <2>1
  <2>3. QED
    BY <1>6, <2>2
<1>9. Bests(of) = CHOOSE k : k = F(k)
  BY DEF Bests, L, rank
<1> DEFINE b == Bests(of)
<1>10. b = F(b)
  BY <1>8, <1>9
<1>11. b[0] = rank(1) /\ \A n \in 1 .. L : b[n] = BestRank(b[n - 1], rank(n))
  <2>1. \A n \in 0 .. L : b[n] = F(b)[n]
    BY <1>10
  <2>2. 0 \in 0 .. L /\ \A n \in 1 .. L : n \in 0 .. L /\ n # 0
    BY <1>1
  <2>3. QED
    BY <2>1, <2>2
<1> HIDE DEF b
<1> DEFINE T == {n \in 0 .. L : /\ b[n] \in Nat /\ \E k \in 1 .. L : b[n] = rank(k)
                                /\ \A k \in 1 .. n : rank(k) > 0 => b[n] > 0 /\ b[n] <= rank(k)}
<1>12. 0 \in T
  <2>1. 0 \in 0 .. L /\ b[0] \in Nat /\ b[0] = rank(1) /\ 1 .. 0 = {}
    BY <1>4, <1>11
  <2>2. QED
    BY <1>4, <2>1
<1>13. \A n \in 0 + 1 .. L : n - 1 \in T => n \in T
  <2> SUFFICES ASSUME NEW n \in 0 + 1 .. L, n - 1 \in T PROVE n \in T
    OBVIOUS
  <2>1. n \in 1 .. L /\ n \in 0 .. L /\ rank(n) \in Nat /\ \A k \in 1 .. n : k \in 1 .. L /\ (k = n \/ k \in 1 .. n - 1)
    BY <1>1
  <2>2. /\ b[n - 1] \in Nat /\ \E k \in 1 .. L : b[n - 1] = rank(k)
        /\ \A k \in 1 .. n - 1 : rank(k) > 0 => b[n - 1] > 0 /\ b[n - 1] <= rank(k)
    OBVIOUS
  <2>3. b[n] = IF rank(n) > 0 /\ (b[n - 1] <= 0 \/ rank(n) < b[n - 1]) THEN rank(n) ELSE b[n - 1]
    BY <1>11, <2>1 DEF BestRank
  <2>4. b[n] \in Nat /\ \E k \in 1 .. L : b[n] = rank(k)
    BY <2>1, <2>2, <2>3
  <2>5. ASSUME NEW k \in 1 .. n, rank(k) > 0 PROVE b[n] > 0 /\ b[n] <= rank(k)
    <3>1. rank(k) \in Nat /\ (k = n \/ k \in 1 .. n - 1)
      BY <1>1, <2>1
    <3>2. CASE k = n
      BY <2>1, <2>2, <2>3, <2>5, <3>2
    <3>3. CASE k \in 1 .. n - 1
      <4>1. b[n - 1] > 0 /\ b[n - 1] <= rank(k)
        BY <2>2, <2>5, <3>3
      <4>2. QED
        BY <2>1, <2>2, <2>3, <3>1, <4>1
    <3>4. QED
      BY <3>1, <3>2, <3>3
  <2>6. QED
    BY <2>1, <2>4, <2>5
<1> HIDE DEF T
<1>14. \A n \in 0 .. L : n \in T
  BY <1>4, <1>12, <1>13, Interval
<1>15. L \in 0 .. L
  BY <1>1
<1>16. L \in T
  BY <1>14, <1>15
<1>17. QED
  BY <1>16 DEF T, L, b, rank

-----------------------------------------------------------------------------
(* Clusters: all of them. *)

\* The positions of the results of a URL, and the first positions of all URLs.
UrlAt(s, u) == {i \in DOMAIN s : s[i].url = u}
FirstUrls(s) == {i \in DOMAIN s : \A j \in 1 .. i - 1 : s[j].url # s[i].url}

\* What a cluster has of the results of its URL.
LEMMA ClusterFacts ==
  ASSUME client \in Clients, NEW S, Told(S), NEW s \in Seq(S), NEW u
  PROVE  /\ Cluster(u, s).url = u
         /\ Cluster(u, s).occurrences = Kept(s, UrlAt(s, u))
         /\ Cluster(u, s).best = Bests(Kept(s, UrlAt(s, u)))[Len(Kept(s, UrlAt(s, u)))]
         /\ Selects(s, UrlAt(s, u), Kept(s, UrlAt(s, u)))
         /\ Kept(s, UrlAt(s, u)) \in Seq(S)
         /\ Cluster(u, s).score \in Int
<1> DEFINE at == UrlAt(s, u)
           of == Kept(s, at)
           queried == Cardinality(client.engines)
           total == (200 * Sums(of)[Len(of)] + ScoreScale * queried) \div (2 * ScoreScale * queried)
<1>1. /\ Cluster(u, s).url = u /\ Cluster(u, s).occurrences = of
      /\ Cluster(u, s).best = Bests(of)[Len(of)] /\ Cluster(u, s).score = Min({100, total})
  <2>1. at = {i \in DOMAIN s : s[i].url = u}
    BY DEF UrlAt
  <2> HIDE DEF at
  <2>2. QED
    BY <2>1 DEF Cluster, Sums, Bests
<1>2. Len(s) \in Nat /\ at \subseteq 1 .. Len(s) /\ \A i \in at : s[i] \in S
  BY DEF UrlAt
<1> HIDE DEF at
<1>3. Selects(s, at, of)
  BY <1>2, KeptFacts
<1>4. of \in Seq(S)
  <2>1. of \in Seq({s[i] : i \in at})
    BY <1>3 DEF Selects
  <2>2. {s[i] : i \in at} \subseteq S
    BY <1>2
  <2> HIDE DEF of
  <2>3. QED
    BY <2>1, <2>2
<1>5. Sums(of)[Len(of)] \in Nat
  <2> HIDE DEF of
  <2>1. QED
    BY <1>4, SumSteps
<1>6. queried \in Nat \ {0}
  <2>1. client.engines \subseteq Engines /\ client.engines # {}
    <3>1. ClientOK(client)
      BY PagedAssumption
    <3>2. QED
      BY <3>1 DEF ClientOK
  <2>2. IsFiniteSet(client.engines)
    BY <2>1, FiniteEngines, FS_Subset
  <2>3. Cardinality(client.engines) \in Nat /\ Cardinality(client.engines) # 0
    BY <2>1, <2>2, FS_CardinalityType, FS_EmptySet
  <2>4. QED
    BY <2>3
<1>7. ScoreScale \in Nat \ {0}
  BY PagedAssumption
<1> HIDE DEF of, queried
<1>8. total \in Int
  <2> DEFINE a == 200 * Sums(of)[Len(of)] + ScoreScale * queried
             c == 2 * ScoreScale * queried
  <2>1. ScoreScale * queried \in Nat \ {0}
    BY <1>6, <1>7
  <2>2. c = 2 * (ScoreScale * queried)
    BY <1>6, <1>7
  <2>3. a \in Int /\ c \in Nat /\ c > 0
    BY <1>5, <2>1, <2>2
  <2> HIDE DEF a, c
  <2>4. a \div c \in Int
    BY <2>3
  <2>5. QED
    BY <2>4 DEF a, c
<1> HIDE DEF total
<1>9. Min({100, total}) \in Int
  <2>1. \E m \in {100, total} : \A y \in {100, total} : m <= y
    BY <1>8
  <2>2. Min({100, total}) \in {100, total}
    BY <2>1 DEF Min
  <2>3. QED
    BY <1>8, <2>2
<1>10. QED
  BY <1>1, <1>3, <1>4, <1>9 DEF at, of

\* ClusterLess on the clusters C.
ClustersInOrder(C) == {p \in C \X C : ClusterLess(p[1], p[2])}
\* Clusters with a score and a best rank.
Scored(C) == \A c \in C : c.score \in Int /\ c.best \in Int

\* sortClusters compares by an order.
LEMMA ClusterOrder ==
  ASSUME NEW C, Scored(C)
  PROVE  Ordering(ClustersInOrder(C), C)
<1>1. \A c, d \in C : <<c, d>> \in ClustersInOrder(C) <=> ClusterLess(c, d)
  BY DEF ClustersInOrder
<1>2. \A c \in C : ~ ClusterLess(c, c)
  BY DEF ClusterLess, Scored
<1>3. \A c, d, e \in C : ClusterLess(c, d) /\ ClusterLess(d, e) => ClusterLess(c, e)
  BY DEF ClusterLess, Scored
<1>4. \A c, d, e \in C : ClusterLess(c, e) => ClusterLess(c, d) \/ ClusterLess(d, e)
  BY DEF ClusterLess, Scored
<1>5. QED
  BY <1>1, <1>2, <1>3, <1>4 DEF Ordering

\* Sorted clusters are a permutation of them, by that order.
LEMMA ClustersSorted ==
  ASSUME NEW C, Scored(C), NEW s \in Seq(C)
  PROVE  /\ Sorted(s, ClusterLess) \in Seq(C)
         /\ \E q : /\ Moves(q, s, Sorted(s, ClusterLess))
                   /\ \A i, j \in DOMAIN s : j \in Upto(s, ClustersInOrder(C), i) <=> q[j] <= q[i]
<1> DEFINE R == ClustersInOrder(C)
           at(k) == CHOOSE i \in DOMAIN s : Place(s, i, ClusterLess) = k
           sorted == [k \in DOMAIN s |-> s[at(k)]]
<1>1. Sorted(s, ClusterLess) = SubSeq(sorted, 1, Len(s))
  <2>1. [t \in {s} |-> [k \in DOMAIN t |-> t[CHOOSE i \in DOMAIN t : Place(t, i, ClusterLess) = k]]][s] = sorted
    OBVIOUS
  <2>2. QED
    BY <2>1 DEF Sorted
<1>2. \A i, j \in DOMAIN s : ClusterLess(s[i], s[j]) <=> <<s[i], s[j]>> \in R
  BY DEF ClustersInOrder
<1> HIDE DEF R
<1>3. \A i \in DOMAIN s : Place(s, i, ClusterLess) = Cardinality(Upto(s, R, i))
  <2> SUFFICES ASSUME NEW i \in DOMAIN s
               PROVE  Place(s, i, ClusterLess) = Cardinality(Upto(s, R, i))
    OBVIOUS
  <2>1. Upto(s, R, i) = {j \in DOMAIN s : ClusterLess(s[j], s[i]) \/ (~ ClusterLess(s[i], s[j]) /\ j <= i)}
    BY <1>2 DEF Upto
  <2>2. QED
    BY <2>1 DEF Place
<1>4. Ordering(R, C)
  BY ClusterOrder DEF R
<1> DEFINE by(k) == CHOOSE i \in DOMAIN s : Cardinality(Upto(s, R, i)) = k
<1>5. \A k \in DOMAIN s : at(k) = by(k)
  <2> SUFFICES ASSUME NEW k \in DOMAIN s PROVE at(k) = by(k)
    OBVIOUS
  <2>1. LET q == [i \in DOMAIN s |-> Cardinality(Upto(s, R, i))]
        IN  /\ \A i, j \in DOMAIN s : q[i] = q[j] => i = j
            /\ \E i \in DOMAIN s : q[i] = k
    BY <1>4, PlacesOfMembers
  <2>2. PICK i \in DOMAIN s : Cardinality(Upto(s, R, i)) = k
    BY <2>1
  <2>3. \A j \in DOMAIN s : Cardinality(Upto(s, R, j)) = k => j = i
    BY <2>1, <2>2
  <2>4. QED
    BY <1>3, <2>2, <2>3
<1>6. sorted = [k \in DOMAIN s |-> s[by(k)]]
  <2> HIDE DEF at, by
  <2> QED
    BY <1>5
<1> HIDE DEF sorted
<1>7. /\ Sorted(s, ClusterLess) \in Seq(C)
      /\ \E q : Moves(q, s, Sorted(s, ClusterLess)) /\ \A i, j \in DOMAIN s : j \in Upto(s, R, i) <=> q[j] <= q[i]
  BY <1>1, <1>4, <1>6, SortedMembers
<1>8. QED
  BY <1>7 DEF R

\* Each URL has a first position, and no two first positions have one URL.
LEMMA FirstsOfUrls ==
  ASSUME NEW S, NEW s \in Seq(S)
  PROVE  /\ FirstUrls(s) \subseteq 1 .. Len(s)
         /\ \A i \in DOMAIN s : \E f \in FirstUrls(s) : s[f].url = s[i].url
         /\ \A f, g \in FirstUrls(s) : s[f].url = s[g].url => f = g
<1>1. Len(s) \in Nat /\ DOMAIN s = 1 .. Len(s)
  OBVIOUS
<1>2. ASSUME NEW i \in DOMAIN s PROVE \E f \in FirstUrls(s) : s[f].url = s[i].url
  <2> DEFINE at == {f \in DOMAIN s : s[f].url = s[i].url}
  <2>1. at \subseteq Nat /\ at # {}
    BY <1>1
  <2> HIDE DEF at
  <2>2. PICK f \in at : \A g \in at : f <= g
    BY <2>1, LeastNatural
  <2>3. f \in DOMAIN s /\ s[f].url = s[i].url
    BY DEF at
  <2>4. ASSUME NEW j \in 1 .. f - 1 PROVE s[j].url # s[f].url
    <3>1. j \in DOMAIN s /\ ~ f <= j
      BY <1>1, <2>3
    <3>2. QED
      BY <2>2, <2>3, <3>1 DEF at
  <2>5. QED
    BY <2>3, <2>4 DEF FirstUrls
<1>3. ASSUME NEW f \in FirstUrls(s), NEW g \in FirstUrls(s), s[f].url = s[g].url PROVE f = g
  <2>1. f \in 1 .. Len(s) /\ g \in 1 .. Len(s)
    BY <1>1 DEF FirstUrls
  <2>2. ~ f \in 1 .. g - 1 /\ ~ g \in 1 .. f - 1
    BY <1>3 DEF FirstUrls
  <2>3. QED
    BY <1>1, <2>1, <2>2
<1>4. QED
  BY <1>1, <1>2, <1>3 DEF FirstUrls

-----------------------------------------------------------------------------
(* Clusters: how they are built. *)

\* b are the clusters of s: one of each URL, in the order of scores.
Clustered(s, b) ==
  /\ Len(b) \in Nat /\ DOMAIN b = 1 .. Len(b)
  /\ \A c \in DOMAIN b : \E i \in DOMAIN s : b[c] = Cluster(s[i].url, s)
  /\ \A i \in DOMAIN s : \E c \in DOMAIN b : b[c] = Cluster(s[i].url, s)
  /\ \A c, d \in DOMAIN b : b[c].url = b[d].url => c = d
  /\ \A c \in DOMAIN b : c > 1 => b[c - 1].score >= b[c].score

\* BuildClusters makes one cluster of each URL, in the order of their scores.
LEMMA ClustersBuilt ==
  ASSUME client \in Clients, NEW S, Told(S), NEW s \in Seq(S)
  PROVE  Clustered(s, BuildClusters(s))
<1> DEFINE F == FirstUrls(s)
           m == Cardinality(F)
           firsts == Kept(s, F)
           C == {Cluster(s[i].url, s) : i \in DOMAIN s}
           cs == [i \in DOMAIN firsts |-> Cluster(firsts[i].url, s)]
           b == Sorted(cs, ClusterLess)
           R == ClustersInOrder(C)
<1>1. Len(s) \in Nat /\ DOMAIN s = 1 .. Len(s)
  OBVIOUS
<1>2. /\ F \subseteq 1 .. Len(s)
      /\ \A i \in DOMAIN s : \E f \in F : s[f].url = s[i].url
      /\ \A f, g \in F : s[f].url = s[g].url => f = g
  BY FirstsOfUrls
<1> HIDE DEF F
<1>3. Selects(s, F, firsts) /\ m \in Nat
  BY <1>1, <1>2, KeptFacts, RankType
<1> HIDE DEF firsts
<1>4. /\ firsts \in Seq({s[i] : i \in F}) /\ Len(firsts) = m
      /\ \A i \in F : Rank(F, i) \in 1 .. m /\ firsts[Rank(F, i)] = s[i]
      /\ \A k \in 1 .. m : \E i \in F : Rank(F, i) = k
  BY <1>3 DEF Selects
<1> HIDE DEF m
<1>5. DOMAIN firsts = 1 .. m
  BY <1>4
<1>6. Scored(C)
  <2> SUFFICES ASSUME NEW i \in DOMAIN s
               PROVE  Cluster(s[i].url, s).score \in Int /\ Cluster(s[i].url, s).best \in Int
    BY DEF Scored
  <2> DEFINE u == s[i].url
             of == Kept(s, UrlAt(s, u))
  <2>1. i \in UrlAt(s, u)
    BY DEF UrlAt
  <2> HIDE DEF u
  <2>2. /\ Cluster(u, s).best = Bests(of)[Len(of)] /\ Selects(s, UrlAt(s, u), of)
        /\ of \in Seq(S) /\ Cluster(u, s).score \in Int
    BY ClusterFacts
  <2> HIDE DEF of
  <2>3. Len(of) > 0
    <3>1. Rank(UrlAt(s, u), i) \in 1 .. Len(of)
      BY <2>1, <2>2 DEF Selects
    <3>2. Len(of) \in Nat
      BY <2>2
    <3>3. QED
      BY <3>1, <3>2
  <2>4. Bests(of)[Len(of)] \in Nat
    BY <2>2, <2>3, BestSteps
  <2>5. QED
    BY <2>2, <2>4 DEF u
<1>7. \A k \in 1 .. m : \E i \in F : Rank(F, i) = k /\ cs[k] = Cluster(s[i].url, s)
  <2> SUFFICES ASSUME NEW k \in 1 .. m PROVE \E i \in F : Rank(F, i) = k /\ cs[k] = Cluster(s[i].url, s)
    OBVIOUS
  <2>1. PICK i \in F : Rank(F, i) = k
    BY <1>4
  <2>2. firsts[k] = s[i] /\ k \in DOMAIN firsts
    BY <1>4, <1>5, <2>1
  <2>3. QED
    BY <2>1, <2>2
<1>8. \A i \in F : Rank(F, i) \in 1 .. m /\ cs[Rank(F, i)] = Cluster(s[i].url, s)
  BY <1>4, <1>5
<1>9. cs \in Seq(C) /\ Len(cs) = m /\ DOMAIN cs = 1 .. m
  <2>1. \A k \in 1 .. m : cs[k] \in C
    BY <1>1, <1>2, <1>7
  <2>2. DOMAIN cs = 1 .. m /\ m \in Nat
    BY <1>3, <1>5
  <2>3. cs = [k \in 1 .. m |-> cs[k]]
    BY <1>5
  <2> HIDE DEF cs, C
  <2>4. cs \in [1 .. m -> C]
    BY <2>1, <2>3
  <2>5. QED
    BY <2>2, <2>4
<1>10. \A i \in DOMAIN s : Cluster(s[i].url, s).url = s[i].url
  <2> SUFFICES ASSUME NEW i \in DOMAIN s PROVE Cluster(s[i].url, s).url = s[i].url
    OBVIOUS
  <2> DEFINE u == s[i].url
  <2> HIDE DEF u
  <2>1. Cluster(u, s).url = u
    BY ClusterFacts
  <2>2. QED
    BY <2>1 DEF u
<1> HIDE DEF cs, C
<1>11. b \in Seq(C) /\ \E q : Moves(q, cs, b) /\ \A i, j \in DOMAIN cs : j \in Upto(cs, R, i) <=> q[j] <= q[i]
  BY <1>6, <1>9, ClustersSorted
<1>12. PICK q : Moves(q, cs, b) /\ \A i, j \in DOMAIN cs : j \in Upto(cs, R, i) <=> q[j] <= q[i]
  BY <1>11
<1> HIDE DEF b, R
<1>13. /\ q \in [1 .. m -> 1 .. m] /\ Len(b) = m
       /\ \A k \in 1 .. m : \E i \in 1 .. m : q[i] = k
       /\ \A i \in 1 .. m : b[q[i]] = cs[i]
  BY <1>9, <1>12 DEF Moves
<1>14. DOMAIN b = 1 .. m /\ Len(b) \in Nat
  BY <1>3, <1>11, <1>13
<1>15. \A k \in 1 .. m : \E i \in F : q[Rank(F, i)] = k /\ b[k] = Cluster(s[i].url, s)
  <2> SUFFICES ASSUME NEW k \in 1 .. m PROVE \E i \in F : q[Rank(F, i)] = k /\ b[k] = Cluster(s[i].url, s)
    OBVIOUS
  <2>1. PICK h \in 1 .. m : q[h] = k
    BY <1>13
  <2>2. PICK i \in F : Rank(F, i) = h /\ cs[h] = Cluster(s[i].url, s)
    BY <1>7
  <2>3. QED
    BY <1>13, <2>1, <2>2
<1>16. ASSUME NEW i \in DOMAIN s PROVE \E c \in 1 .. m : b[c] = Cluster(s[i].url, s)
  <2>1. PICK f \in F : s[f].url = s[i].url
    BY <1>2
  <2>2. Rank(F, f) \in 1 .. m /\ cs[Rank(F, f)] = Cluster(s[f].url, s)
    BY <1>8
  <2> DEFINE c == q[Rank(F, f)]
  <2>3. c \in 1 .. m /\ b[c] = Cluster(s[f].url, s)
    BY <1>13, <2>2
  <2>4. Cluster(s[f].url, s) = Cluster(s[i].url, s)
    BY <2>1
  <2> HIDE DEF c
  <2>5. QED
    BY <2>3, <2>4
<1>17. ASSUME NEW c \in 1 .. m, NEW d \in 1 .. m, b[c].url = b[d].url PROVE c = d
  <2>1. PICK i \in F : q[Rank(F, i)] = c /\ b[c] = Cluster(s[i].url, s)
    BY <1>15
  <2>2. PICK j \in F : q[Rank(F, j)] = d /\ b[d] = Cluster(s[j].url, s)
    BY <1>15
  <2>3. s[i].url = s[j].url
    BY <1>1, <1>2, <1>10, <1>17, <2>1, <2>2
  <2>4. i = j
    BY <1>2, <2>3
  <2>5. QED
    BY <2>1, <2>2, <2>4
<1>18. ASSUME NEW c \in 1 .. m, c > 1 PROVE b[c - 1].score >= b[c].score
  <2>1. c - 1 \in 1 .. m /\ c \in Int
    BY <1>3, <1>18
  <2>2. PICK i \in 1 .. m : q[i] = c - 1
    BY <1>13, <2>1
  <2>3. PICK j \in 1 .. m : q[j] = c
    BY <1>13
  <2>4. j \notin Upto(cs, R, i)
    BY <1>9, <1>12, <2>1, <2>2, <2>3
  <2>5. <<cs[j], cs[i]>> \notin R
    BY <1>9, <2>4 DEF Upto
  <2>6. cs[i] \in C /\ cs[j] \in C
    BY <1>9
  <2>7. ~ ClusterLess(cs[j], cs[i])
    BY <2>5, <2>6 DEF R, ClustersInOrder
  <2>8. cs[i].score \in Int /\ cs[j].score \in Int
    BY <1>6, <2>6 DEF Scored
  <2>9. cs[i].score >= cs[j].score
    BY <2>7, <2>8 DEF ClusterLess
  <2>10. QED
    BY <1>13, <2>2, <2>3, <2>9
<1>19. Clustered(s, b)
  <2>1. Len(b) \in Nat /\ DOMAIN b = 1 .. Len(b)
    BY <1>13, <1>14
  <2>2. \A c \in DOMAIN b : \E i \in DOMAIN s : b[c] = Cluster(s[i].url, s)
    BY <1>1, <1>2, <1>14, <1>15
  <2>3. \A i \in DOMAIN s : \E c \in DOMAIN b : b[c] = Cluster(s[i].url, s)
    BY <1>14, <1>16
  <2>4. \A c, d \in DOMAIN b : b[c].url = b[d].url => c = d
    BY <1>14, <1>17
  <2>5. \A c \in DOMAIN b : c > 1 => b[c - 1].score >= b[c].score
    BY <1>14, <1>18
  <2>6. QED
    BY <2>1, <2>2, <2>3, <2>4, <2>5 DEF Clustered
<1>20. BuildClusters(s) = b
  <2>1. BuildClusters(s) = Sorted([i \in DOMAIN firsts |-> Cluster(firsts[i].url, s)], ClusterLess)
    BY DEF BuildClusters, firsts, F, FirstUrls
  <2>2. QED
    BY <2>1 DEF b, cs
<1>21. QED
  BY <1>19, <1>20

-----------------------------------------------------------------------------
(* Clusters: each result is in one, once. *)

\* What ClustersAgree says of the clusters b of the results s.
Agreeing(s, b) ==
  /\ \A i \in DOMAIN s : Cardinality({c \in DOMAIN b : s[i] \in Range(b[c].occurrences)}) = 1
  /\ Cardinality({p \in (DOMAIN b) \X (DOMAIN s) : p[2] \in DOMAIN b[p[1]].occurrences}) = Len(s)
  /\ \A c \in DOMAIN b :
       LET ranks == {r.rank : r \in Range(b[c].occurrences)} \ {0}
       IN  /\ b[c].best = IF ranks = {} THEN 0 ELSE Min(ranks)
           /\ c > 1 => b[c - 1].score >= b[c].score

\* The results of a URL.
ResultsOf(s, u) == {s[i] : i \in UrlAt(s, u)}

\* A cluster has the results of its URL, and each once.
LEMMA ClusterHas ==
  ASSUME client \in Clients, NEW S, Told(S), NEW s \in Seq(S), NEW j \in DOMAIN s, NEW c,
         c = Cluster(s[j].url, s)
  PROVE  /\ c.url = s[j].url /\ Selects(s, UrlAt(s, s[j].url), c.occurrences)
         /\ c.occurrences \in Seq(S) /\ Len(c.occurrences) > 0
         /\ DOMAIN c.occurrences = 1 .. Cardinality(UrlAt(s, s[j].url))
         /\ Range(c.occurrences) = ResultsOf(s, s[j].url)
         /\ c.best = Bests(c.occurrences)[Len(c.occurrences)]
<1> DEFINE u == s[j].url
           at == UrlAt(s, u)
           of == c.occurrences
<1>1. j \in at
  BY DEF UrlAt
<1> HIDE DEF u
<1>2. c = Cluster(u, s)
  BY DEF u
<1>3. /\ c.url = u /\ of = Kept(s, at) /\ c.best = Bests(of)[Len(of)] /\ Selects(s, at, of) /\ of \in Seq(S)
  BY <1>2, ClusterFacts
<1> HIDE DEF at, of
<1>4. /\ Len(of) = Cardinality(at) /\ \A i \in at : Rank(at, i) \in 1 .. Cardinality(at) /\ of[Rank(at, i)] = s[i]
      /\ \A k \in 1 .. Cardinality(at) : \E i \in at : Rank(at, i) = k
  BY <1>3 DEF Selects
<1>5. DOMAIN of = 1 .. Cardinality(at) /\ Len(of) \in Nat
  BY <1>3, <1>4
<1>6. Len(of) > 0
  BY <1>1, <1>4, <1>5
<1>7. Range(of) = {s[i] : i \in at}
  <2>1. \A k \in DOMAIN of : of[k] \in {s[i] : i \in at}
    <3> SUFFICES ASSUME NEW k \in DOMAIN of PROVE of[k] \in {s[i] : i \in at}
      OBVIOUS
    <3>1. PICK i \in at : Rank(at, i) = k
      BY <1>4, <1>5
    <3>2. QED
      BY <1>4, <3>1
  <2>2. \A i \in at : \E k \in DOMAIN of : of[k] = s[i]
    BY <1>4, <1>5
  <2>3. QED
    BY <2>1, <2>2 DEF Range
<1>8. QED
  BY <1>3, <1>5, <1>6, <1>7 DEF at, of, u, ResultsOf

\* Every result is in the cluster of its URL, and in no other.
LEMMA InOneCluster ==
  ASSUME client \in Clients, NEW S, Told(S), NEW s \in Seq(S), NEW b, Clustered(s, b), NEW i \in DOMAIN s
  PROVE  Cardinality({c \in DOMAIN b : s[i] \in Range(b[c].occurrences)}) = 1
<1>1. PICK d \in DOMAIN b : b[d] = Cluster(s[i].url, s)
  BY DEF Clustered
<1>2. b[d].url = s[i].url /\ Range(b[d].occurrences) = ResultsOf(s, s[i].url)
  <2> DEFINE e == b[d]
  <2>1. e = Cluster(s[i].url, s)
    BY <1>1
  <2> HIDE DEF e
  <2>2. e.url = s[i].url /\ Range(e.occurrences) = ResultsOf(s, s[i].url)
    BY <2>1, ClusterHas
  <2>3. QED
    BY <2>2 DEF e
<1>3. s[i] \in Range(b[d].occurrences)
  BY <1>2 DEF UrlAt, ResultsOf
<1>4. ASSUME NEW c \in DOMAIN b, s[i] \in Range(b[c].occurrences) PROVE c = d
  <2>1. PICK j \in DOMAIN s : b[c] = Cluster(s[j].url, s)
    BY DEF Clustered
  <2>2. b[c].url = s[j].url /\ Range(b[c].occurrences) = ResultsOf(s, s[j].url)
    <3> DEFINE e == b[c]
    <3>1. e = Cluster(s[j].url, s)
      BY <2>1
    <3> HIDE DEF e
    <3>2. e.url = s[j].url /\ Range(e.occurrences) = ResultsOf(s, s[j].url)
      BY <3>1, ClusterHas
    <3>3. QED
      BY <3>2 DEF e
  <2>3. PICK h \in UrlAt(s, s[j].url) : s[i] = s[h]
    BY <1>4, <2>2 DEF ResultsOf
  <2>4. s[i].url = s[j].url
    BY <2>3 DEF UrlAt
  <2>5. b[c].url = b[d].url
    BY <1>2, <2>2, <2>4
  <2>6. QED
    BY <2>5 DEF Clustered
<1>5. {c \in DOMAIN b : s[i] \in Range(b[c].occurrences)} = {d}
  BY <1>3, <1>4
<1>6. QED
  BY <1>5, FS_Singleton

\* The clusters have as many results as there are, duplicates included.
LEMMA ClustersHaveAll ==
  ASSUME client \in Clients, NEW S, Told(S), NEW s \in Seq(S), NEW b, Clustered(s, b)
  PROVE  Cardinality({p \in (DOMAIN b) \X (DOMAIN s) : p[2] \in DOMAIN b[p[1]].occurrences}) = Len(s)
<1> DEFINE P == {p \in (DOMAIN b) \X (DOMAIN s) : p[2] \in DOMAIN b[p[1]].occurrences}
           n == Len(s)
           at(i) == UrlAt(s, s[i].url)
           its(i) == CHOOSE c \in DOMAIN b : b[c] = Cluster(s[i].url, s)
           f == [i \in DOMAIN s |-> <<its(i), Rank(at(i), i)>>]
<1>1. n \in Nat /\ DOMAIN s = 1 .. n
  OBVIOUS
<1>2. \A i \in DOMAIN s : its(i) \in DOMAIN b /\ b[its(i)] = Cluster(s[i].url, s)
  BY DEF Clustered
<1>3. \A i \in DOMAIN s : i \in at(i) /\ at(i) \subseteq 1 .. n /\ \A h \in at(i) : h \in DOMAIN s /\ s[h].url = s[i].url
  BY <1>1 DEF UrlAt
<1> HIDE DEF its, P
<1>4. \A i \in DOMAIN s : /\ b[its(i)].url = s[i].url /\ Selects(s, at(i), b[its(i)].occurrences)
                          /\ DOMAIN b[its(i)].occurrences = 1 .. Cardinality(at(i))
  BY <1>2, ClusterHas
<1> HIDE DEF at
<1>5. \A i \in DOMAIN s : /\ \A h \in at(i) : Rank(at(i), h) \in 1 .. Cardinality(at(i))
                          /\ \A k \in 1 .. Cardinality(at(i)) : \E h \in at(i) : Rank(at(i), h) = k
                          /\ \A h, k \in at(i) : h < k => Rank(at(i), h) < Rank(at(i), k)
  BY <1>4 DEF Selects
<1>6. \A i \in DOMAIN s : Cardinality(at(i)) \in Nat /\ Cardinality(at(i)) <= n
  <2> SUFFICES ASSUME NEW i \in DOMAIN s PROVE Cardinality(at(i)) \in Nat /\ Cardinality(at(i)) <= n
    OBVIOUS
  <2>1. IsFiniteSet(1 .. n) /\ Cardinality(1 .. n) = n
    <3>1. IsFiniteSet(1 .. n) /\ Cardinality(1 .. n) = IF 1 > n THEN 0 ELSE n - 1 + 1
      BY <1>1, FS_Interval
    <3>2. QED
      BY <1>1, <3>1
  <2>2. at(i) \in SUBSET (1 .. n)
    BY <1>3
  <2>3. QED
    BY <2>1, <2>2, FS_Subset, FS_CardinalityType
<1>7. \A i \in DOMAIN s : f[i] \in P
  <2> SUFFICES ASSUME NEW i \in DOMAIN s PROVE <<its(i), Rank(at(i), i)>> \in P
    OBVIOUS
  <2>1. Rank(at(i), i) \in 1 .. Cardinality(at(i))
    BY <1>3, <1>5
  <2>2. Rank(at(i), i) \in DOMAIN s
    BY <1>1, <1>6, <2>1
  <2>3. its(i) \in DOMAIN b /\ Rank(at(i), i) \in DOMAIN b[its(i)].occurrences
    BY <1>2, <1>4, <2>1
  <2>4. QED
    BY <2>2, <2>3 DEF P
<1>8. \A i, j \in DOMAIN s : f[i] = f[j] => i = j
  <2> SUFFICES ASSUME NEW i \in DOMAIN s, NEW j \in DOMAIN s, f[i] = f[j] PROVE i = j
    OBVIOUS
  <2>1. its(i) = its(j) /\ Rank(at(i), i) = Rank(at(j), j)
    OBVIOUS
  <2>2. s[i].url = s[j].url
    BY <1>4, <2>1
  <2>3. at(i) = at(j)
    BY <2>2 DEF at
  <2>4. i \in at(i) /\ j \in at(i) /\ Rank(at(i), i) = Rank(at(i), j)
    BY <1>3, <2>1, <2>3
  <2>5. Rank(at(i), i) \in Int /\ i \in Int /\ j \in Int
    BY <1>1, <1>5, <2>4
  <2>6. ~ i < j /\ ~ j < i
    BY <1>5, <2>4, <2>5
  <2>7. QED
    BY <2>5, <2>6
<1>9. \A p \in P : \E i \in DOMAIN s : f[i] = p
  <2> SUFFICES ASSUME NEW p \in P PROVE \E i \in DOMAIN s : f[i] = p
    OBVIOUS
  <2>1. p = <<p[1], p[2]>> /\ p[1] \in DOMAIN b /\ p[2] \in DOMAIN b[p[1]].occurrences
    BY DEF P
  <2>2. PICK j \in DOMAIN s : b[p[1]] = Cluster(s[j].url, s)
    BY <2>1 DEF Clustered
  <2>3. b[p[1]] = b[its(j)]
    BY <1>2, <2>2
  <2>4. p[2] \in 1 .. Cardinality(at(j))
    BY <1>4, <2>1, <2>3
  <2>5. PICK i \in at(j) : Rank(at(j), i) = p[2]
    BY <1>5, <2>4
  <2>6. i \in DOMAIN s /\ s[i].url = s[j].url
    BY <1>3
  <2>7. at(i) = at(j)
    BY <2>6 DEF at
  <2>8. its(i) = p[1]
    <3>1. b[its(i)].url = b[p[1]].url /\ its(i) \in DOMAIN b
      BY <1>2, <1>4, <2>3, <2>6
    <3>2. QED
      BY <2>1, <3>1 DEF Clustered
  <2>9. f[i] = <<p[1], p[2]>>
    BY <2>5, <2>6, <2>7, <2>8
  <2>10. QED
    BY <2>1, <2>6, <2>9
<1>10. f \in [DOMAIN s -> P]
  BY <1>7
<1> HIDE DEF f
<1>11. ExistsBijection(DOMAIN s, P)
  BY <1>8, <1>9, <1>10 DEF ExistsBijection, Bijection, Injection, Surjection, IsInjective
<1>12. IsFiniteSet(DOMAIN s) /\ Cardinality(DOMAIN s) = n
  <2>1. IsFiniteSet(1 .. n) /\ Cardinality(1 .. n) = IF 1 > n THEN 0 ELSE n - 1 + 1
    BY <1>1, FS_Interval
  <2>2. QED
    BY <1>1, <2>1
<1>13. Cardinality(P) = n
  BY <1>11, <1>12, FS_Bijection
<1>14. QED
  BY <1>13 DEF P

\* The best rank of a cluster is the least of those that are ranks.
LEMMA ClusterBest ==
  ASSUME client \in Clients, NEW S, Told(S), NEW s \in Seq(S), NEW j \in DOMAIN s, NEW c,
         c = Cluster(s[j].url, s)
  PROVE  LET ranks == {r.rank : r \in Range(c.occurrences)} \ {0}
         IN  c.best = IF ranks = {} THEN 0 ELSE Min(ranks)
<1> DEFINE of == c.occurrences
           ranks == {r.rank : r \in Range(of)} \ {0}
<1>1. of \in Seq(S) /\ Len(of) > 0 /\ c.best = Bests(of)[Len(of)]
  BY ClusterHas
<1> HIDE DEF of
<1>2. /\ c.best \in Nat /\ \A k \in 1 .. Len(of) : of[k].rank > 0 => c.best > 0 /\ c.best <= of[k].rank
      /\ \E k \in 1 .. Len(of) : c.best = of[k].rank
  BY <1>1, BestSteps
<1>3. DOMAIN of = 1 .. Len(of) /\ \A k \in 1 .. Len(of) : of[k].rank \in Nat
  BY <1>1 DEF Told
<1>4. \A r : r \in Range(of) <=> \E k \in 1 .. Len(of) : r = of[k]
  BY <1>3 DEF Range
<1>5. \A x \in ranks : x \in Nat /\ x > 0 /\ c.best > 0 /\ c.best <= x
  <2> SUFFICES ASSUME NEW x \in ranks PROVE x \in Nat /\ x > 0 /\ c.best > 0 /\ c.best <= x
    OBVIOUS
  <2>1. PICK r \in Range(of) : x = r.rank /\ x # 0
    OBVIOUS
  <2>2. PICK k \in 1 .. Len(of) : r = of[k]
    BY <1>4
  <2>3. x = of[k].rank /\ x \in Nat /\ x > 0
    BY <1>3, <2>1, <2>2
  <2>4. QED
    BY <1>2, <2>3
<1>6. c.best # 0 => c.best \in ranks
  BY <1>2, <1>4
<1> HIDE DEF ranks
<1>7. CASE ranks = {}
  BY <1>6, <1>7 DEF of, ranks
<1>8. CASE ranks # {}
  <2>1. c.best > 0 /\ c.best \in ranks
    BY <1>2, <1>5, <1>6, <1>8
  <2>2. \A x \in ranks : (\A y \in ranks : x <= y) => x = c.best
    BY <1>2, <1>5, <2>1
  <2>3. \A y \in ranks : c.best <= y
    BY <1>5
  <2>4. Min(ranks) = c.best
    BY <2>1, <2>2, <2>3 DEF Min
  <2>5. QED
    BY <1>8, <2>4 DEF of, ranks
<1>9. QED
  BY <1>7, <1>8
\* The clusters of what arrived agree with it.
LEMMA ClustersOfArrived ==
  ASSUME client \in Clients, NEW S, Told(S), NEW s \in Seq(S)
  PROVE  Agreeing(s, BuildClusters(s))
<1> DEFINE b == BuildClusters(s)
<1>1. Clustered(s, b)
  BY ClustersBuilt
<1> HIDE DEF b
<1>2. \A i \in DOMAIN s : Cardinality({c \in DOMAIN b : s[i] \in Range(b[c].occurrences)}) = 1
  BY <1>1, InOneCluster
<1>3. Cardinality({p \in (DOMAIN b) \X (DOMAIN s) : p[2] \in DOMAIN b[p[1]].occurrences}) = Len(s)
  BY <1>1, ClustersHaveAll
<1>4. ASSUME NEW c \in DOMAIN b
      PROVE  LET ranks == {r.rank : r \in Range(b[c].occurrences)} \ {0}
             IN  /\ b[c].best = IF ranks = {} THEN 0 ELSE Min(ranks)
                 /\ c > 1 => b[c - 1].score >= b[c].score
  <2>1. PICK j \in DOMAIN s : b[c] = Cluster(s[j].url, s)
    BY <1>1 DEF Clustered
  <2> DEFINE d == b[c]
  <2>2. d = Cluster(s[j].url, s)
    BY <2>1
  <2> HIDE DEF d
  <2>3. LET ranks == {r.rank : r \in Range(d.occurrences)} \ {0}
        IN  d.best = IF ranks = {} THEN 0 ELSE Min(ranks)
    BY <2>2, ClusterBest
  <2>4. c > 1 => b[c - 1].score >= b[c].score
    BY <1>1 DEF Clustered
  <2>5. QED
    BY <2>3, <2>4 DEF d
<1>5. Agreeing(s, b)
  BY <1>2, <1>3, <1>4 DEF Agreeing
<1>6. QED
  BY <1>5 DEF b

\* Enriched results have a rank, or zero.
LEMMA EnrichedTold ==
  ASSUME arrived \in Seq(MegaRow)
  PROVE  \E S : Told(S) /\ Enriched(arrived) \in Seq(S)
<1> DEFINE S == {EnrichResult(r) : r \in MegaRow}
           e == Enriched(arrived)
<1>1. Told(S)
  <2> SUFFICES ASSUME NEW r \in MegaRow PROVE EnrichResult(r).rank \in Nat
    BY DEF Told
  <2>1. r.rank \in Int /\ EnrichResult(r).rank = IF r.rank >= 0 THEN r.rank ELSE IF r.ad THEN -r.rank ELSE 0
    BY DEF MegaRow, EnrichResult
  <2>2. QED
    BY <2>1
<1>2. DOMAIN arrived = 1 .. Len(arrived) /\ Len(arrived) \in Nat /\ \A i \in 1 .. Len(arrived) : arrived[i] \in MegaRow
  OBVIOUS
<1>3. e = [i \in 1 .. Len(arrived) |-> EnrichResult(arrived[i])]
  BY <1>2 DEF Enriched
<1>4. e \in [1 .. Len(arrived) -> S]
  BY <1>2, <1>3
<1> HIDE DEF S, e
<1>5. e \in Seq(S)
  BY <1>2, <1>4
<1>6. QED
  BY <1>1, <1>5 DEF e

\* Enriched rows are as many.
LEMMA EnrichedLength ==
  ASSUME arrived \in Seq(MegaRow)
  PROVE  /\ DOMAIN Enriched(arrived) = DOMAIN arrived /\ Len(Enriched(arrived)) = Len(arrived)
         /\ \A i \in DOMAIN arrived : Enriched(arrived)[i] = EnrichResult(arrived[i])
<1>1. DOMAIN arrived = 1 .. Len(arrived) /\ Len(arrived) \in Nat
  OBVIOUS
<1> DEFINE e == Enriched(arrived)
<1>2. DOMAIN e = DOMAIN arrived /\ \A i \in DOMAIN arrived : e[i] = EnrichResult(arrived[i])
  BY DEF Enriched
<1> HIDE DEF e
<1>3. \E S : e \in Seq(S)
  BY EnrichedTold DEF e
<1>4. Len(e) = Len(arrived)
  BY <1>1, <1>2, <1>3
<1>5. QED
  BY <1>2, <1>4 DEF e

\* An envelope's clusters agree with its rows, and other steps answer nothing.
LEMMA ClustersStep ==
  ASSUME ClientTypes, ArrivedRows, ClustersAgree, [PagedNext]_pagedVars
  PROVE  ClustersAgree'
<1>1. CASE Envelope
  <2>1. turn = "asking" /\ UNCHANGED <<client, start, arrived>> /\ clusters' = IF one THEN << >> ELSE MegaClusters
    BY <1>1 DEF Envelope
  <2>2. one' = one
    BY <2>1, SameClient
  <2> SUFFICES ASSUME ~ one, client.kind = "web" PROVE ClustersAgree'
    BY <2>1, <2>2 DEF ClustersAgree
  <2>3. arrived \in Seq(MegaRow) /\ client \in Clients
    BY <2>1 DEF ArrivedRows, ClientTypes
  <2> DEFINE e == Enriched(arrived)
             b == BuildClusters(e)
  <2>4. clusters' = b
    BY <2>1 DEF MegaClusters
  <2>5. PICK S : Told(S) /\ e \in Seq(S)
    BY <2>3, EnrichedTold
  <2> HIDE DEF e
  <2>6. Agreeing(e, b)
    BY <2>3, <2>5, ClustersOfArrived
  <2>7. DOMAIN e = DOMAIN arrived /\ Len(e) = Len(arrived) /\ \A i \in DOMAIN arrived : e[i] = EnrichResult(arrived[i])
    BY <2>3, EnrichedLength DEF e
  <2>8. \A r : EnrichResult(r)' = EnrichResult(r)
    BY <2>1 DEF EnrichResult, computeResultPosition
  <2> HIDE DEF b
  <2>9. \A i \in DOMAIN arrived : Cardinality({c \in DOMAIN b : EnrichResult(arrived[i]) \in Range(b[c].occurrences)}) = 1
    BY <2>6, <2>7 DEF Agreeing
  <2>10. Cardinality({p \in (DOMAIN b) \X (DOMAIN arrived) : p[2] \in DOMAIN b[p[1]].occurrences}) = Len(arrived)
    BY <2>6, <2>7 DEF Agreeing
  <2>11. \A c \in DOMAIN b :
           LET ranks == {r.rank : r \in Range(b[c].occurrences)} \ {0}
           IN  /\ b[c].best = IF ranks = {} THEN 0 ELSE Min(ranks)
               /\ c > 1 => b[c - 1].score >= b[c].score
    BY <2>6 DEF Agreeing
  <2>12. QED
    BY <2>1, <2>4, <2>8, <2>9, <2>10, <2>11 DEF ClustersAgree
<1>2. CASE InitFromContext \/ NextPage \/ NoMore
  <2>1. turn' # "answered"
    BY <1>2 DEF InitFromContext, NextPage, NoMore
  <2>2. QED
    BY <2>1 DEF ClustersAgree
<1>3. CASE \E e \in Engines : EngineAnswers(e) \/ EngineFails(e)
  <2>1. turn' # "answered"
    BY <1>3 DEF EngineAnswers, EngineFails
  <2>2. QED
    BY <2>1 DEF ClustersAgree
<1>4. CASE UNCHANGED pagedVars
  <2>1. UNCHANGED <<client, start, turn, arrived, clusters>>
    BY <1>4 DEF pagedVars
  <2>2. one' = one
    BY <2>1, SameClient
  <2>3. \A r : EnrichResult(r)' = EnrichResult(r)
    BY <2>1 DEF EnrichResult, computeResultPosition
  <2>4. QED
    BY <2>1, <2>2, <2>3 DEF ClustersAgree
<1>5. QED
  BY <1>1, <1>2, <1>3, <1>4 DEF PagedNext

\* BuildClusters loses no row and has none twice: every row of every engine is in
\* the one cluster of its URL, a cluster's best rank is the least one of its
\* rows that have one, and clusters are in the order of their scores.
THEOREM ClustersAlways == PagedSpec => []ClustersAgree
<1>1. PagedInit => ClustersAgree
  BY DEF PagedInit, ClustersAgree
<1>2. IInv /\ ClustersAgree /\ [PagedNext]_pagedVars => ClustersAgree'
  BY ClustersStep DEF IInv
<1>3. QED
  BY <1>1, <1>2, PagesHold, PTL DEF PagedSpec

=============================================================================
