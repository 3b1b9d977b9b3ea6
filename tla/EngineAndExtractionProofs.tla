-------------------- MODULE EngineAndExtractionProofs --------------------
(***************************************************************************)
(* Theorems of EngineSearch, the call of an engine, and of Extraction, the *)
(* content of what it found, each for every value of their constants: one  *)
(* inductive invariant each, which every action keeps, and what follows.   *)
(* The rows of a page go through ranks, filters, sorts and cuts; the first *)
(* sections say what these operators of SerpRows return and never lose,    *)
(* and that sorting puts a row where the order has it. PagedSearchProofs   *)
(* uses them too.                                                          *)
(***************************************************************************)
EXTENDS EngineSearch, Extraction, FiniteSetTheorems, SequenceTheorems, WellFoundedInduction, TLAPS

-----------------------------------------------------------------------------
(* Positions and their order. *)

\* A non-empty set of natural numbers has a least element.
LEMMA LeastNatural ==
  ASSUME NEW S, S \subseteq Nat, S # {}
  PROVE  \E n \in S : \A m \in S : n <= m
<1> DEFINE R == {ss \in Nat \X Nat : ss[1] < ss[2]}
<1>1. IsWellFoundedOn(R, Nat)
  BY NatLessThanWellFounded DEF OpToRel
<1>2. PICK n \in S : \A m \in S : ~ (<<m, n>> \in R)
  <2> HIDE DEF R
  <2> QED
    BY <1>1, WFMin
<1>3. ASSUME NEW m \in S PROVE n <= m
  <2>1. m \in Nat /\ n \in Nat /\ ~ (<<m, n>> \in R)
    BY <1>2
  <2>2. m < n => <<m, n>> \in R
    BY <2>1
  <2>3. QED
    BY <2>1, <2>2
<1>4. QED
  BY <1>3

\* The number of positions up to i.
Rank(at, i) == Cardinality({j \in at : j <= i})

\* Positions and their ranks are finite and natural.
LEMMA RankType ==
  ASSUME NEW n \in Nat, NEW at, at \subseteq 1 .. n
  PROVE  /\ IsFiniteSet(at) /\ Cardinality(at) \in Nat
         /\ \A i \in Nat : IsFiniteSet({j \in at : j <= i}) /\ Rank(at, i) \in Nat
<1>1. IsFiniteSet(1 .. n)
  BY FS_Interval
<1>2. IsFiniteSet(at)
  BY <1>1, FS_Subset
<1>3. \A i \in Nat : IsFiniteSet({j \in at : j <= i})
  BY <1>2, FS_Subset
<1>4. QED
  BY <1>2, <1>3, FS_CardinalityType DEF Rank

\* Different positions have different ranks, from one to their number, in order.
LEMMA RankOfMember ==
  ASSUME NEW n \in Nat, NEW at, at \subseteq 1 .. n, NEW i \in at
  PROVE  /\ Rank(at, i) \in 1 .. Cardinality(at)
         /\ \A h \in at : Rank(at, h) = Rank(at, i) => h = i
         /\ \A h \in at : h < i => Rank(at, h) < Rank(at, i)
<1> DEFINE To(h) == {j \in at : j <= h}
<1>0. \A j \in at : j \in Nat /\ 1 <= j /\ j <= n
  OBVIOUS
<1>1. \A h \in Nat : IsFiniteSet(To(h)) /\ Cardinality(To(h)) \in Nat /\ Rank(at, h) = Cardinality(To(h))
  BY RankType DEF Rank
<1>2. IsFiniteSet(at) /\ Cardinality(at) \in Nat
  BY RankType
<1>3. ASSUME NEW h \in at, NEW k \in at, h < k PROVE Rank(at, h) < Rank(at, k)
  <2>1. To(h) \subseteq To(k) /\ k \in To(k) /\ k \notin To(h) /\ h \in Nat /\ k \in Nat
    <3>1. h \in Nat /\ k \in Nat /\ k <= k /\ ~ (k <= h)
      BY <1>0, <1>3
    <3>2. \A j \in at : j <= h => j <= k
      BY <1>0, <1>3
    <3>3. QED
      BY <3>1, <3>2
  <2>2. Cardinality(To(h)) # Cardinality(To(k)) /\ Cardinality(To(h)) <= Cardinality(To(k))
    <3> HIDE DEF To
    <3> QED
      BY <1>1, <2>1, FS_Subset
  <2>3. QED
    BY <1>1, <2>1, <2>2
<1>4. Rank(at, i) <= Cardinality(at)
  <2>1. i \in Nat /\ To(i) \subseteq at
    BY <1>0
  <2> HIDE DEF To
  <2>2. QED
    BY <1>1, <1>2, <2>1, FS_Subset
<1>5. Rank(at, i) # 0
  <2>1. i \in To(i) /\ i \in Nat
    OBVIOUS
  <2>2. Cardinality(To(i)) # 0
    <3> HIDE DEF To
    <3> QED
      BY <1>1, <2>1, FS_EmptySet
  <2>3. QED
    BY <1>1, <2>1, <2>2
<1>6. \A h \in at : Rank(at, h) = Rank(at, i) => h = i
  <2>1. \A h \in at : h \in Int /\ Rank(at, h) \in Int
    <3>1. \A h \in at : h \in Nat
      BY <1>0
    <3> HIDE DEF To
    <3>2. QED
      BY <1>1, <3>1
  <2>2. QED
    BY <1>3, <2>1
<1>7. QED
  <2>1. Rank(at, i) \in Nat
    BY <1>0, <1>1
  <2>2. QED
    BY <1>2, <1>3, <1>4, <1>5, <1>6, <2>1

\* Every rank has its position: the least with so many positions up to it.
LEMMA RankExists ==
  ASSUME NEW n \in Nat, NEW at, at \subseteq 1 .. n, NEW k \in 1 .. Cardinality(at)
  PROVE  \E i \in at : Rank(at, i) = k
<1> DEFINE To(h) == {j \in at : j <= h}
           H == {h \in 0 .. n : Rank(at, h) >= k}
<1>0. \A j \in at : j \in Nat /\ 1 <= j /\ j <= n
  OBVIOUS
<1>1. \A h \in Nat : IsFiniteSet(To(h)) /\ Cardinality(To(h)) \in Nat /\ Rank(at, h) = Cardinality(To(h))
  BY RankType DEF Rank
<1>2. IsFiniteSet(at) /\ Cardinality(at) \in Nat
  BY RankType
<1>3. PICK i \in H : \A h \in H : i <= h
  <2>1. To(n) = at
    BY <1>0
  <2>2. n \in H
    BY <1>1, <1>2, <2>1
  <2>3. H \subseteq Nat
    OBVIOUS
  <2>4. QED
    BY <2>2, <2>3, LeastNatural
<1>4. i # 0
  <2>1. To(0) = {}
    <3>1. \A j \in at : ~ (j <= 0)
      BY <1>0
    <3>2. QED
      BY <3>1
  <2>2. Rank(at, 0) = 0
    BY <1>1, <2>1, FS_EmptySet
  <2>3. QED
    BY <1>3, <2>2
<1>5. i - 1 \in Nat /\ i \in Nat /\ i \in 1 .. n /\ Rank(at, i - 1) < k
  <2>1. i - 1 \in 0 .. n /\ i \in Nat /\ i \in 1 .. n
    BY <1>3, <1>4
  <2>2. i - 1 \notin H
    BY <1>3, <2>1
  <2>3. QED
    <3>1. i - 1 \in Nat /\ Rank(at, i - 1) \in Nat /\ ~ (Rank(at, i - 1) >= k) /\ k \in Int
      <4>1. i - 1 \in Nat /\ k \in Int
        BY <1>2, <2>1
      <4>2. ~ (Rank(at, i - 1) >= k)
        BY <2>1, <2>2
      <4>3. QED
        BY <1>1, <4>1, <4>2
    <3>2. QED
      BY <2>1, <3>1
<1>6. Rank(at, i) = IF i \in at THEN Rank(at, i - 1) + 1 ELSE Rank(at, i - 1)
  <2>1. CASE i \in at
    <3>1. To(i) = To(i - 1) \cup {i} /\ i \notin To(i - 1)
      <4>1. \A j \in at : j <= i <=> j <= i - 1 \/ j = i
        BY <1>0, <1>5
      <4>2. ~ (i <= i - 1)
        BY <1>5
      <4>3. QED
        BY <2>1, <4>1, <4>2
    <3>2. QED
      <4> HIDE DEF To
      <4> QED
        BY <1>1, <1>5, <2>1, <3>1, FS_AddElement
  <2>2. CASE i \notin at
    <3>1. To(i) = To(i - 1)
      <4>1. \A j \in at : j <= i <=> j <= i - 1
        BY <1>0, <1>5, <2>2
      <4>2. QED
        BY <4>1
    <3>2. QED
      BY <1>1, <1>5, <2>2, <3>1
  <2>3. QED
    BY <2>1, <2>2
<1>7. Rank(at, i) >= k /\ Rank(at, i - 1) \in Nat
  BY <1>1, <1>3, <1>5
<1>8. i \in at /\ Rank(at, i) = k
  BY <1>5, <1>6, <1>7
<1>9. QED
  BY <1>8

-----------------------------------------------------------------------------
(* What the operators on rows return. *)

\* t has the members of s at the positions `at`, in their order.
Selects(s, at, t) ==
  /\ t \in Seq({s[i] : i \in at}) /\ Len(t) = Cardinality(at)
  /\ \A i \in at : Rank(at, i) \in 1 .. Cardinality(at) /\ t[Rank(at, i)] = s[i]
  /\ \A k \in 1 .. Cardinality(at) : \E i \in at : Rank(at, i) = k
  /\ \A i, j \in at : i < j => Rank(at, i) < Rank(at, j)

\* The rows at some positions: they, and no others, whichever their order.
LEMMA KeptFacts ==
  ASSUME NEW s, NEW n \in Nat, NEW at, at \subseteq 1 .. n
  PROVE  Selects(s, at, Kept(s, at))
<1> DEFINE c == Cardinality(at)
           kth == [k \in 1 .. c |-> s[Position(at, k)]]
<1>1. Kept(s, at) = SubSeq(kth, 1, c)
  <2>1. [t \in {s} |-> [p \in {at} |-> [k \in 1 .. Cardinality(p) |-> t[Position(p, k)]]]][s][at] = kth
    OBVIOUS
  <2>2. QED
    BY <2>1 DEF Kept
<1>2. c \in Nat
  BY RankType
<1>3. ASSUME NEW k \in 1 .. c PROVE Position(at, k) \in at /\ Rank(at, Position(at, k)) = k
  <2>1. \E i \in at : Cardinality({j \in at : j <= i}) = k
    BY RankExists DEF Rank
  <2>2. QED
    BY <2>1 DEF Rank, Position
<1>4. \A i \in at : Rank(at, i) \in 1 .. c /\ kth[Rank(at, i)] = s[i]
  <2> SUFFICES ASSUME NEW i \in at PROVE Rank(at, i) \in 1 .. c /\ kth[Rank(at, i)] = s[i]
    OBVIOUS
  <2>1. Rank(at, i) \in 1 .. c /\ \A h \in at : Rank(at, h) = Rank(at, i) => h = i
    BY RankOfMember
  <2>2. Position(at, Rank(at, i)) = i
    BY <1>3, <2>1
  <2>3. QED
    BY <2>1, <2>2
<1>5. \A k \in 1 .. c : kth[k] \in {s[i] : i \in at}
  BY <1>3
<1> HIDE DEF kth
<1>6. /\ SubSeq(kth, 1, c) \in Seq({s[i] : i \in at})
      /\ Len(SubSeq(kth, 1, c)) = c
      /\ \A k \in 1 .. c : SubSeq(kth, 1, c)[k] = kth[k]
  BY <1>2, <1>5, SubSeqProperties
<1>7. \A k \in 1 .. c : \E i \in at : Rank(at, i) = k
  BY RankExists
<1>8. \A i, j \in at : i < j => Rank(at, i) < Rank(at, j)
  BY RankOfMember
<1>9. QED
  BY <1>1, <1>4, <1>6, <1>7, <1>8 DEF Selects

\* resultLess orders the rows, and compares equally rows that it does not order.
LEMMA RowOrder ==
  ASSUME NEW l \in Row, NEW m \in Row, NEW r \in Row
  PROVE  /\ ~ resultLess(l, l)
         /\ resultLess(l, m) /\ resultLess(m, r) => resultLess(l, r)
         /\ resultLess(l, r) => resultLess(l, m) \/ resultLess(m, r)
<1>1. resultSortPosition(l) \in Int /\ resultSortPosition(m) \in Int /\ resultSortPosition(r) \in Int
  BY DEF Row, resultSortPosition
<1>2. /\ l.ad \in BOOLEAN /\ m.ad \in BOOLEAN /\ r.ad \in BOOLEAN
      /\ l.rank \in Int /\ m.rank \in Int /\ r.rank \in Int
      /\ l.url[1] \in Int /\ m.url[1] \in Int /\ r.url[1] \in Int
      /\ l.url[2] \in Int /\ m.url[2] \in Int /\ r.url[2] \in Int
  BY DEF Row
<1>3. QED
  BY <1>1, <1>2 DEF resultLess, UrlLess

\* The member at j comes before that at i, or is it, when L tells which values
\* come before which.
Upto(s, L, i) == {j \in DOMAIN s : <<s[j], s[i]>> \in L \/ (<<s[i], s[j]>> \notin L /\ j <= i)}

\* L orders S, but for values that it does not tell apart.
Ordering(L, S) ==
  /\ \A x \in S : <<x, x>> \notin L
  /\ \A x, y, z \in S : <<x, y>> \in L /\ <<y, z>> \in L => <<x, z>> \in L
  /\ \A x, y, z \in S : <<x, z>> \in L => <<x, y>> \in L \/ <<y, z>> \in L

\* Members come in one order: where L is silent, positions decide.
LEMMA UptoOrder ==
  ASSUME NEW S, NEW s \in Seq(S), NEW L, Ordering(L, S)
  PROVE  /\ \A i \in DOMAIN s : i \in Upto(s, L, i)
         /\ \A i, j \in DOMAIN s : i \in Upto(s, L, j) \/ j \in Upto(s, L, i)
         /\ \A i, j \in DOMAIN s : i \in Upto(s, L, j) /\ j \in Upto(s, L, i) => i = j
         /\ \A i, j \in DOMAIN s : i \in Upto(s, L, j) => Upto(s, L, i) \subseteq Upto(s, L, j)
<1>1. \A i \in DOMAIN s : i \in Int /\ s[i] \in S
  OBVIOUS
<1> DEFINE B(i, j) == <<s[i], s[j]>> \in L
<1>2. \A i, j, k \in DOMAIN s :
        ~ B(i, i) /\ (B(i, j) /\ B(j, k) => B(i, k)) /\ (B(i, k) => B(i, j) \/ B(j, k))
  BY <1>1 DEF Ordering
<1>3. \A i, j \in DOMAIN s : j \in Upto(s, L, i) <=> B(j, i) \/ (~ B(i, j) /\ j <= i)
  BY DEF Upto
<1> HIDE DEF B
<1>4. \A i, j, k \in DOMAIN s : k \in Upto(s, L, i) /\ i \in Upto(s, L, j) => k \in Upto(s, L, j)
  BY <1>1, <1>2, <1>3
<1>5. \A i, j \in DOMAIN s : i \in Upto(s, L, j) => Upto(s, L, i) \subseteq Upto(s, L, j)
  <2>1. \A i \in DOMAIN s : Upto(s, L, i) \subseteq DOMAIN s
    BY DEF Upto
  <2>2. QED
    BY <1>4, <2>1
<1>6. \A i \in DOMAIN s : i \in Upto(s, L, i)
  BY <1>1, <1>2, <1>3
<1>7. \A i, j \in DOMAIN s : i \in Upto(s, L, j) \/ j \in Upto(s, L, i)
  BY <1>1, <1>2, <1>3
<1>8. \A i, j \in DOMAIN s : i \in Upto(s, L, j) /\ j \in Upto(s, L, i) => i = j
  BY <1>1, <1>2, <1>3
<1>9. QED
  BY <1>5, <1>6, <1>7, <1>8, Zenon

\* The places of the members are all different, and follow their order.
LEMMA PlacesOfMembers ==
  ASSUME NEW S, NEW s \in Seq(S), NEW L, Ordering(L, S)
  PROVE  LET q == [i \in DOMAIN s |-> Cardinality(Upto(s, L, i))]
         IN  /\ q \in [DOMAIN s -> DOMAIN s]
             /\ \A i, j \in DOMAIN s : q[i] = q[j] => i = j
             /\ \A k \in DOMAIN s : \E i \in DOMAIN s : q[i] = k
             /\ \A i, j \in DOMAIN s : j \in Upto(s, L, i) <=> q[j] <= q[i]
<1> DEFINE n == Len(s)
           q == [i \in DOMAIN s |-> Cardinality(Upto(s, L, i))]
<1>1. n \in Nat /\ DOMAIN s = 1 .. n /\ IsFiniteSet(1 .. n) /\ Cardinality(1 .. n) = n
  <2>1. n \in Nat /\ DOMAIN s = 1 .. n
    OBVIOUS
  <2>2. IsFiniteSet(1 .. n) /\ Cardinality(1 .. n) = IF 1 > n THEN 0 ELSE n - 1 + 1
    <3> HIDE DEF n
    <3> QED
      BY <2>1, FS_Interval
  <2>3. QED
    BY <2>1, <2>2
<1>2. \A i \in DOMAIN s : q[i] = Cardinality(Upto(s, L, i))
  OBVIOUS
<1>3. \A i \in DOMAIN s : IsFiniteSet(Upto(s, L, i)) /\ Upto(s, L, i) \subseteq 1 .. n /\ i \in Upto(s, L, i)
  <2>1. \A i \in DOMAIN s : Upto(s, L, i) \subseteq 1 .. n
    BY <1>1 DEF Upto
  <2>2. \A i \in DOMAIN s : i \in Upto(s, L, i)
    BY UptoOrder
  <2> HIDE DEF n
  <2>3. QED
    BY <1>1, <2>1, <2>2, FS_Subset
<1>4. \A i \in DOMAIN s : q[i] \in 1 .. n
  <2> SUFFICES ASSUME NEW i \in DOMAIN s PROVE Cardinality(Upto(s, L, i)) \in 1 .. n
    BY <1>2
  <2> HIDE DEF n
  <2>1. Cardinality(Upto(s, L, i)) \in Nat /\ Cardinality(Upto(s, L, i)) <= n
    BY <1>1, <1>3, FS_Subset, FS_CardinalityType
  <2>2. Cardinality(Upto(s, L, i)) # 0
    BY <1>3, FS_EmptySet
  <2>3. QED
    BY <1>1, <2>1, <2>2
<1> HIDE DEF q
<1>5. ASSUME NEW i \in DOMAIN s, NEW j \in DOMAIN s, j \in Upto(s, L, i) PROVE q[j] <= q[i]
  <2>1. Upto(s, L, j) \subseteq Upto(s, L, i)
    BY <1>5, UptoOrder
  <2>2. Cardinality(Upto(s, L, j)) <= Cardinality(Upto(s, L, i))
    BY <1>3, <2>1, FS_Subset
  <2>3. QED
    BY <1>2, <2>2
<1>6. ASSUME NEW i \in DOMAIN s, NEW j \in DOMAIN s, j \in Upto(s, L, i), i # j PROVE q[j] # q[i]
  <2>1. Upto(s, L, j) \subseteq Upto(s, L, i) /\ i \in Upto(s, L, i) /\ i \notin Upto(s, L, j)
    BY <1>6, UptoOrder
  <2>2. Cardinality(Upto(s, L, j)) # Cardinality(Upto(s, L, i))
    BY <1>3, <2>1, FS_Subset
  <2>3. QED
    BY <1>2, <2>2
<1>7. \A i, j \in DOMAIN s : q[i] = q[j] => i = j
  BY <1>6, UptoOrder
<1>8. q \in [1 .. n -> 1 .. n]
  BY <1>1, <1>4 DEF q
<1>9. q \in Injection(1 .. n, 1 .. n)
  <2> HIDE DEF n
  <2> QED
    BY <1>1, <1>7, <1>8 DEF Injection, IsInjective
<1>10. q \in Surjection(1 .. n, 1 .. n)
  <2> HIDE DEF n
  <2> QED
    BY <1>1, <1>9, FS_Injection
<1>11. \A k \in 1 .. n : \E i \in 1 .. n : q[i] = k
  <2> HIDE DEF n
  <2> QED
    BY <1>10 DEF Surjection
<1>12. \A i, j \in DOMAIN s : q[j] <= q[i] => j \in Upto(s, L, i)
  <2> SUFFICES ASSUME NEW i \in DOMAIN s, NEW j \in DOMAIN s, q[j] <= q[i], j \notin Upto(s, L, i)
               PROVE  FALSE
    OBVIOUS
  <2>1. i \in Upto(s, L, j) /\ i # j
    BY UptoOrder
  <2>2. q[i] <= q[j] /\ q[i] # q[j] /\ q[i] \in Int /\ q[j] \in Int
    BY <1>4, <1>5, <1>6, <2>1
  <2>3. QED
    BY <2>2
<1>13. QED
  BY <1>1, <1>5, <1>7, <1>8, <1>11, <1>12 DEF q

\* q gives each member of s its place in t.
Moves(q, s, t) ==
  /\ q \in [DOMAIN s -> DOMAIN s] /\ Len(t) = Len(s)
  /\ \A i, j \in DOMAIN s : q[i] = q[j] => i = j
  /\ \A k \in DOMAIN s : \E i \in DOMAIN s : q[i] = k
  /\ \A i \in DOMAIN s : t[q[i]] = s[i]

\* A sequence whose k-th member is that which has the k-th place is sorted.
LEMMA SortedMembers ==
  ASSUME NEW S, NEW s \in Seq(S), NEW L, Ordering(L, S), NEW t,
         t = SubSeq([k \in DOMAIN s |-> s[CHOOSE i \in DOMAIN s : Cardinality(Upto(s, L, i)) = k]], 1, Len(s))
  PROVE  /\ t \in Seq(S)
         /\ \E q : Moves(q, s, t) /\ \A i, j \in DOMAIN s : j \in Upto(s, L, i) <=> q[j] <= q[i]
<1> DEFINE n == Len(s)
           at(k) == CHOOSE i \in DOMAIN s : Cardinality(Upto(s, L, i)) = k
           f == [k \in DOMAIN s |-> s[at(k)]]
           q == [i \in DOMAIN s |-> Cardinality(Upto(s, L, i))]
<1>1. n \in Nat /\ DOMAIN s = 1 .. n /\ \A i \in DOMAIN s : s[i] \in S
  OBVIOUS
<1>2. /\ q \in [DOMAIN s -> DOMAIN s]
      /\ \A i, j \in DOMAIN s : q[i] = q[j] => i = j
      /\ \A k \in DOMAIN s : \E i \in DOMAIN s : q[i] = k
      /\ \A i, j \in DOMAIN s : j \in Upto(s, L, i) <=> q[j] <= q[i]
  BY PlacesOfMembers
<1>3. \A i \in DOMAIN s : q[i] = Cardinality(Upto(s, L, i))
  OBVIOUS
<1>4. \A k \in DOMAIN s : at(k) \in DOMAIN s /\ q[at(k)] = k
  <2> HIDE DEF q
  <2> QED
    BY <1>2, <1>3
<1>5. t = SubSeq(f, 1, n)
  OBVIOUS
<1> HIDE DEF q, at
<1>6. \A i \in DOMAIN s : f[q[i]] = s[i]
  <2> SUFFICES ASSUME NEW i \in DOMAIN s PROVE f[q[i]] = s[i]
    OBVIOUS
  <2>1. q[i] \in DOMAIN s /\ at(q[i]) = i
    BY <1>2, <1>4
  <2>2. QED
    BY <2>1
<1>7. \A k \in 1 .. n : f[k] \in S
  BY <1>1, <1>4
<1> HIDE DEF f
<1>8. t \in Seq(S) /\ Len(t) = n /\ \A k \in 1 .. n : t[k] = f[k]
  BY <1>1, <1>5, <1>7, SubSeqProperties
<1>9. \A i \in DOMAIN s : t[q[i]] = s[i]
  BY <1>1, <1>2, <1>6, <1>8
<1>10. Moves(q, s, t)
  BY <1>2, <1>8, <1>9 DEF Moves
<1>11. QED
  BY <1>2, <1>8, <1>10

\* Rows are sorted by resultLess.
RowLess == {p \in Row \X Row : resultLess(p[1], p[2])}

LEMMA RowLessOrders == Ordering(RowLess, Row)
<1>1. \A l, m \in Row : <<l, m>> \in RowLess <=> resultLess(l, m)
  BY DEF RowLess
<1>2. QED
  BY <1>1, RowOrder DEF Ordering

\* Sorting keeps the rows, and puts none behind one that it should precede.
LEMMA SortFacts ==
  ASSUME NEW s \in Seq(Row)
  PROVE  /\ SortResults(s) \in Seq(Row)
         /\ \E q : /\ Moves(q, s, SortResults(s))
                   /\ \A i, j \in DOMAIN s : resultLess(s[i], s[j]) => q[i] < q[j]
<1> DEFINE at(k) == CHOOSE i \in DOMAIN s : Place(s, i, resultLess) = k
           sorted == [k \in DOMAIN s |-> s[at(k)]]
<1>1. SortResults(s) = SubSeq(sorted, 1, Len(s))
  <2>1. [t \in {s} |-> [k \in DOMAIN t |-> t[CHOOSE i \in DOMAIN t : Place(t, i, resultLess) = k]]][s] = sorted
    OBVIOUS
  <2>2. QED
    BY <2>1 DEF SortResults, Sorted
<1>2. \A i, j \in DOMAIN s : resultLess(s[i], s[j]) <=> <<s[i], s[j]>> \in RowLess
  BY DEF RowLess
<1>3. \A i \in DOMAIN s : Place(s, i, resultLess) = Cardinality(Upto(s, RowLess, i))
  <2> SUFFICES ASSUME NEW i \in DOMAIN s
               PROVE  Place(s, i, resultLess) = Cardinality(Upto(s, RowLess, i))
    OBVIOUS
  <2>1. Upto(s, RowLess, i)
          = {j \in DOMAIN s : resultLess(s[j], s[i]) \/ (~ resultLess(s[i], s[j]) /\ j <= i)}
    BY <1>2 DEF Upto
  <2>2. QED
    BY <2>1 DEF Place
<1> DEFINE by(k) == CHOOSE i \in DOMAIN s : Cardinality(Upto(s, RowLess, i)) = k
<1>4. \A k \in DOMAIN s : at(k) = by(k)
  <2> SUFFICES ASSUME NEW k \in DOMAIN s PROVE at(k) = by(k)
    OBVIOUS
  <2>1. LET q == [i \in DOMAIN s |-> Cardinality(Upto(s, RowLess, i))]
        IN  /\ \A i, j \in DOMAIN s : q[i] = q[j] => i = j
            /\ \E i \in DOMAIN s : q[i] = k
    BY RowLessOrders, PlacesOfMembers
  <2>2. PICK i \in DOMAIN s : Cardinality(Upto(s, RowLess, i)) = k
    BY <2>1
  <2>3. \A j \in DOMAIN s : Cardinality(Upto(s, RowLess, j)) = k => j = i
    BY <2>1, <2>2
  <2>4. QED
    BY <1>3, <2>2, <2>3
<1>5. sorted = [k \in DOMAIN s |-> s[by(k)]]
  <2> HIDE DEF at, by
  <2> QED
    BY <1>4
<1> HIDE DEF sorted
<1>6. /\ SortResults(s) \in Seq(Row)
      /\ \E q : Moves(q, s, SortResults(s)) /\ \A i, j \in DOMAIN s : j \in Upto(s, RowLess, i) <=> q[j] <= q[i]
  BY <1>1, <1>5, RowLessOrders, SortedMembers
<1>7. PICK q : /\ Moves(q, s, SortResults(s))
               /\ \A i, j \in DOMAIN s : j \in Upto(s, RowLess, i) <=> q[j] <= q[i]
  BY <1>6
<1>8. ASSUME NEW i \in DOMAIN s, NEW j \in DOMAIN s, resultLess(s[i], s[j]) PROVE q[i] < q[j]
  <2>1. <<s[i], s[j]>> \in RowLess
    BY <1>2, <1>8
  <2>2. j \notin Upto(s, RowLess, i)
    <3>1. <<s[j], s[i]>> \notin RowLess
      <4>1. s[i] \in Row /\ s[j] \in Row
        OBVIOUS
      <4>2. QED
        BY <2>1, <4>1, RowLessOrders DEF Ordering
    <3>2. QED
      BY <2>1, <3>1 DEF Upto
  <2>3. q[i] \in Int /\ q[j] \in Int
    BY <1>7 DEF Moves
  <2>4. QED
    BY <1>7, <2>2, <2>3
<1>9. QED
  BY <1>6, <1>7, <1>8

-----------------------------------------------------------------------------
(* The operators of SerpRows return rows, and do not lose all of them. *)

\* A function on an interval of positions is a sequence of rows.
LEMMA RowSequence ==
  ASSUME NEW n \in Nat, NEW f \in [1 .. n -> Row]
  PROVE  f \in Seq(Row) /\ Len(f) = n /\ DOMAIN f = 1 .. n
OBVIOUS

\* What is kept of rows are rows, and each one at the given positions is there.
LEMMA KeptRows ==
  ASSUME NEW s \in Seq(Row), NEW at, at \subseteq DOMAIN s
  PROVE  /\ Kept(s, at) \in Seq(Row) /\ Len(Kept(s, at)) = Cardinality(at)
         /\ \A i \in at : \E k \in DOMAIN Kept(s, at) : Kept(s, at)[k] = s[i]
<1>1. Len(s) \in Nat /\ at \subseteq 1 .. Len(s) /\ {s[i] : i \in at} \subseteq Row
  OBVIOUS
<1>2. /\ Kept(s, at) \in Seq({s[i] : i \in at}) /\ Len(Kept(s, at)) = Cardinality(at)
      /\ \A i \in at : Rank(at, i) \in 1 .. Cardinality(at) /\ Kept(s, at)[Rank(at, i)] = s[i]
  <2>1. Selects(s, at, Kept(s, at))
    BY <1>1, KeptFacts
  <2>2. QED
    BY <2>1 DEF Selects
<1>3. QED
  BY <1>1, <1>2

\* Counts are natural, and count an organic row if and only if there is one.
LEMMA CountTypes ==
  ASSUME NEW s \in Seq(Row)
  PROVE  /\ \A i \in Nat : Organics(s, i) \in Nat /\ Ads(s, i) \in Nat
         /\ CountOrganicResults(s) \in Nat
         /\ CountOrganicResults(s) > 0 <=> \E i \in DOMAIN s : ~ s[i].ad
<1>1. \A i \in Nat : IsFiniteSet({j \in 1 .. i : ~ s[j].ad}) /\ IsFiniteSet({j \in 1 .. i : s[j].ad})
  <2> SUFFICES ASSUME NEW i \in Nat
               PROVE  IsFiniteSet({j \in 1 .. i : ~ s[j].ad}) /\ IsFiniteSet({j \in 1 .. i : s[j].ad})
    OBVIOUS
  <2>1. IsFiniteSet(1 .. i)
    BY FS_Interval
  <2>2. QED
    BY <2>1, FS_Subset
<1>2. \A i \in Nat : Organics(s, i) \in Nat /\ Ads(s, i) \in Nat
  BY <1>1, FS_CardinalityType DEF Organics, Ads
<1>3. Len(s) \in Nat /\ DOMAIN s = 1 .. Len(s)
  OBVIOUS
<1>4. Organics(s, Len(s)) = 0 <=> {j \in 1 .. Len(s) : ~ s[j].ad} = {}
  BY <1>1, <1>3, FS_EmptySet DEF Organics
<1>5. Organics(s, Len(s)) \in Nat
  BY <1>2, <1>3
<1>6. Organics(s, Len(s)) > 0 <=> {j \in 1 .. Len(s) : ~ s[j].ad} # {}
  BY <1>4, <1>5
<1>7. {j \in 1 .. Len(s) : ~ s[j].ad} # {} <=> \E i \in DOMAIN s : ~ s[i].ad
  BY <1>3
<1>8. QED
  BY <1>2, <1>5, <1>6, <1>7 DEF CountOrganicResults

\* If there is an organic row there is a first one.
LEMMA FirstOrganicExists ==
  ASSUME NEW s \in Seq(Row), CountOrganicResults(s) > 0
  PROVE  \E i \in DOMAIN s : ~ s[i].ad /\ \A j \in 1 .. i - 1 : s[j].ad
<1> DEFINE F == {i \in 1 .. Len(s) : ~ s[i].ad}
<1>1. Len(s) \in Nat /\ DOMAIN s = 1 .. Len(s)
  OBVIOUS
<1>2. PICK i \in F : \A j \in F : i <= j
  <2>1. \E i \in DOMAIN s : ~ s[i].ad
    BY CountTypes
  <2>2. F \subseteq Nat /\ F # {}
    BY <1>1, <2>1
  <2>3. QED
    BY <2>2, LeastNatural
<1>3. i \in 1 .. Len(s) /\ ~ s[i].ad
  BY <1>2
<1>4. \A j \in 1 .. i - 1 : j \in 1 .. Len(s) /\ ~ (i <= j)
  BY <1>1, <1>3
<1>5. QED
  BY <1>1, <1>2, <1>3, <1>4

\* Giving ranks to rows loses none of them.
LEMMA RankedRows ==
  ASSUME NEW s \in Seq(Row), NEW a \in Int, NEW b \in Int
  PROVE  Ranked(s, b, a) \in Seq(Row) /\ Len(Ranked(s, b, a)) = Len(s)
<1>1. Len(s) \in Nat /\ DOMAIN s = 1 .. Len(s) /\ \A i \in 1 .. Len(s) : s[i] \in Row
  OBVIOUS
<1>2. \A i \in 1 .. Len(s) : Organics(s, i) \in Nat /\ Ads(s, i) \in Nat
  BY CountTypes
<1>3. \A i \in 1 .. Len(s) :
        [s[i] EXCEPT !.rank = IF s[i].ad THEN Ads(s, i) ELSE b + Organics(s, i), !.abs = a + i - 1] \in Row
  <2>1. \A i \in 1 .. Len(s), r \in Int, p \in Int : [s[i] EXCEPT !.rank = r, !.abs = p] \in Row
    BY <1>1 DEF Row
  <2>2. \A i \in 1 .. Len(s) : (IF s[i].ad THEN Ads(s, i) ELSE b + Organics(s, i)) \in Int /\ a + i - 1 \in Int
    BY <1>2
  <2>3. QED
    BY <2>1, <2>2
<1>4. Ranked(s, b, a) \in [1 .. Len(s) -> Row]
  BY <1>1, <1>3 DEF Ranked
<1>5. QED
  BY <1>1, <1>4, RowSequence

\* Nor do absolute ranks of ads and organic rows apart.
LEMMA SeparatedRows ==
  ASSUME NEW s \in Seq(Row), NEW start \in Int
  PROVE  /\ SetSeparatedAdAbsoluteRanks(s, start) \in Seq(Row)
         /\ Len(SetSeparatedAdAbsoluteRanks(s, start)) = Len(s)
<1>1. Len(s) \in Nat /\ DOMAIN s = 1 .. Len(s) /\ \A i \in 1 .. Len(s) : s[i] \in Row
  OBVIOUS
<1>2. \A i \in 1 .. Len(s) : Organics(s, i) \in Nat /\ Ads(s, Len(s)) \in Nat /\ s[i].rank \in Int
  BY <1>1, CountTypes DEF Row
<1>3. \A i \in 1 .. Len(s) :
        [s[i] EXCEPT !.abs = IF s[i].ad THEN start + s[i].rank ELSE start + Ads(s, Len(s)) + Organics(s, i)] \in Row
  <2>1. \A i \in 1 .. Len(s), p \in Int : [s[i] EXCEPT !.abs = p] \in Row
    BY <1>1 DEF Row
  <2>2. \A i \in 1 .. Len(s) :
          (IF s[i].ad THEN start + s[i].rank ELSE start + Ads(s, Len(s)) + Organics(s, i)) \in Int
    BY <1>2
  <2>3. QED
    BY <2>1, <2>2
<1>4. SetSeparatedAdAbsoluteRanks(s, start) \in [1 .. Len(s) -> Row]
  BY <1>1, <1>3 DEF SetSeparatedAdAbsoluteRanks
<1>5. QED
  BY <1>1, <1>4, RowSequence

\* Nor do ranks behind the start of a query.
LEMMA RebasedRows ==
  ASSUME NEW s \in Seq(Row), NEW start \in Int
  PROVE  /\ Rebased(s, start) \in Seq(Row) /\ Len(Rebased(s, start)) = Len(s)
         /\ Offset(s, start) \in Seq(Row) /\ Len(Offset(s, start)) = Len(s)
<1>1. Len(s) \in Nat /\ DOMAIN s = 1 .. Len(s) /\ \A i \in 1 .. Len(s) : s[i] \in Row
  OBVIOUS
<1>2. \A i \in 1 .. Len(s) : start + Organics(s, i) \in Int /\ s[i].abs + start \in Int
  <2>1. \A i \in 1 .. Len(s) : Organics(s, i) \in Nat /\ s[i].abs \in Int
    <3>1. \A i \in 1 .. Len(s) : Organics(s, i) \in Nat
      BY CountTypes
    <3>2. \A i \in 1 .. Len(s) : s[i].abs \in Int
      BY <1>1 DEF Row
    <3>3. QED
      BY <3>1, <3>2
  <2>2. QED
    BY <2>1
<1>3. \A i \in 1 .. Len(s), p \in Int : [s[i] EXCEPT !.rank = p] \in Row /\ [s[i] EXCEPT !.abs = p] \in Row
  BY <1>1 DEF Row
<1>4. Rebased(s, start) \in [1 .. Len(s) -> Row]
  BY <1>1, <1>2, <1>3 DEF Rebased
<1>5. \A i \in 1 .. Len(s) : [s[i] EXCEPT !.abs = @ + start] \in Row
  BY <1>2, <1>3
<1>6. Offset(s, start) \in [1 .. Len(s) -> Row]
  BY <1>1, <1>5 DEF Offset
<1>7. QED
  BY <1>1, <1>4, <1>6, RowSequence

\* Without its duplicates, a sequence of rows is empty only if it was, and has
\* organic rows if it had some: the first of them is no duplicate.
LEMMA DeduplicatedRows ==
  ASSUME NEW s \in Seq(Row)
  PROVE  /\ DeduplicateResults(s) \in Seq(Row)
         /\ Len(DeduplicateResults(s)) \in Nat /\ (Len(DeduplicateResults(s)) = 0 <=> Len(s) = 0)
         /\ CountOrganicResults(s) > 0 => CountOrganicResults(DeduplicateResults(s)) > 0
<1> DEFINE at == {i \in DOMAIN s : \A j \in 1 .. i - 1 : s[j].url # s[i].url \/ s[j].ad # s[i].ad}
           t == Kept(s, at)
<1>1. at \subseteq DOMAIN s /\ Len(s) \in Nat /\ DOMAIN s = 1 .. Len(s)
  OBVIOUS
<1>2. /\ t \in Seq(Row) /\ Len(t) = Cardinality(at)
      /\ \A i \in at : \E k \in DOMAIN t : t[k] = s[i]
  <2> HIDE DEF at
  <2> QED
    BY <1>1, KeptRows
<1>3. DeduplicateResults(s) = SortResults(t)
  BY DEF DeduplicateResults
<1>4. Len(s) > 0 => 1 \in at
  BY <1>1
<1>5. Cardinality(at) = 0 <=> at = {}
  <2>1. IsFiniteSet(at)
    <3>1. IsFiniteSet(1 .. Len(s)) /\ at \subseteq 1 .. Len(s)
      BY <1>1, FS_Interval
    <3> HIDE DEF at
    <3>2. QED
      BY <3>1, FS_Subset
  <2>2. QED
    BY <2>1, FS_EmptySet
<1>6. Len(s) = 0 => at = {}
  BY <1>1
<1> HIDE DEF t
<1>7. /\ SortResults(t) \in Seq(Row) /\ Len(SortResults(t)) = Len(t)
      /\ \A i \in DOMAIN t : \E k \in 1 .. Len(t) : SortResults(t)[k] = t[i]
  <2>1. PICK q : Moves(q, t, SortResults(t))
    BY <1>2, SortFacts
  <2>2. DOMAIN t = 1 .. Len(t)
    BY <1>2
  <2>3. QED
    BY <1>2, <2>1, <2>2, SortFacts DEF Moves
<1>8. ASSUME CountOrganicResults(s) > 0 PROVE CountOrganicResults(SortResults(t)) > 0
  <2>1. PICK i \in DOMAIN s : ~ s[i].ad /\ \A j \in 1 .. i - 1 : s[j].ad
    BY <1>8, FirstOrganicExists
  <2>5. i \in at
    BY <2>1
  <2>6. PICK k \in DOMAIN t : t[k] = s[i]
    BY <1>2, <2>5
  <2>7. PICK h \in 1 .. Len(t) : SortResults(t)[h] = t[k]
    BY <1>7, <2>6
  <2>8. h \in DOMAIN SortResults(t) /\ ~ SortResults(t)[h].ad
    BY <1>7, <2>1, <2>6, <2>7
  <2>9. QED
    BY <1>7, <2>8, CountTypes
<1>9. QED
  BY <1>1, <1>2, <1>3, <1>4, <1>5, <1>6, <1>7, <1>8

\* The number of organic rows up to the first of them.
LEMMA FirstOrganic ==
  ASSUME NEW s \in Seq(Row), NEW i \in DOMAIN s, ~ s[i].ad, \A j \in 1 .. i - 1 : s[j].ad
  PROVE  Organics(s, i) = 1
<1>1. {j \in 1 .. i : ~ s[j].ad} = {i}
  <2>1. \A j \in 1 .. i : j = i \/ j \in 1 .. i - 1
    OBVIOUS
  <2>2. i \in 1 .. i
    OBVIOUS
  <2>3. QED
    BY <2>1, <2>2
<1>2. QED
  BY <1>1, FS_Singleton DEF Organics

\* A limit keeps organic rows, if there are any.
LEMMA LimitedOrganics ==
  ASSUME NEW s \in Seq(Row), NEW max \in Int
  PROVE  /\ LimitOrganicResults(s, max) \in Seq(Row)
         /\ CountOrganicResults(s) > 0 => CountOrganicResults(LimitOrganicResults(s, max)) > 0
<1>1. CASE max <= 0
  BY <1>1 DEF LimitOrganicResults
<1>2. CASE ~ (max <= 0)
  <2> DEFINE at == {i \in DOMAIN s : s[i].ad \/ Organics(s, i) <= max}
             t == Kept(s, at)
  <2>1. LimitOrganicResults(s, max) = t
    BY <1>2 DEF LimitOrganicResults
  <2>2. /\ t \in Seq(Row)
        /\ \A i \in at : \E k \in DOMAIN t : t[k] = s[i]
    <3>1. at \subseteq DOMAIN s
      OBVIOUS
    <3> HIDE DEF at
    <3>2. QED
      BY <3>1, KeptRows
  <2> HIDE DEF t
  <2>3. ASSUME CountOrganicResults(s) > 0 PROVE CountOrganicResults(t) > 0
    <3>1. PICK i \in DOMAIN s : ~ s[i].ad /\ \A j \in 1 .. i - 1 : s[j].ad
      BY <2>3, FirstOrganicExists
    <3>5. Organics(s, i) = 1
      BY <3>1, FirstOrganic
    <3>6. i \in at
      BY <1>2, <3>1, <3>5
    <3>7. PICK k \in DOMAIN t : t[k] = s[i]
      BY <2>2, <3>6
    <3>8. QED
      BY <2>2, <3>1, <3>7, CountTypes
  <2>4. QED
    BY <2>1, <2>2, <2>3
<1>3. QED
  BY <1>1, <1>2

\* Skipping nothing loses nothing.
LEMMA SkippedRows ==
  ASSUME NEW s \in Seq(Row), NEW skip \in Int
  PROVE  /\ skipOrganicResults(s, skip) \in Seq(Row)
         /\ skip = 0 /\ Len(s) > 0 => Len(skipOrganicResults(s, skip)) > 0
<1> DEFINE at == {i \in DOMAIN s : s[i].ad \/ Organics(s, i) > skip}
           t == Kept(s, at)
<1>1. skipOrganicResults(s, skip) = t
  BY DEF skipOrganicResults
<1>2. t \in Seq(Row) /\ \A i \in at : \E k \in DOMAIN t : t[k] = s[i]
  <2>1. at \subseteq DOMAIN s
    OBVIOUS
  <2> HIDE DEF at
  <2>2. QED
    BY <2>1, KeptRows
<1> HIDE DEF t
<1>3. ASSUME skip = 0, Len(s) > 0 PROVE 1 \in at
  <2>1. 1 \in DOMAIN s
    BY <1>3
  <2>2. ~ s[1].ad => Organics(s, 1) = 1
    BY <2>1, FirstOrganic
  <2>3. QED
    BY <1>3, <2>1, <2>2
<1>4. QED
  BY <1>1, <1>2, <1>3

-----------------------------------------------------------------------------
(* Parsers, and what the drivers return. *)

\* Pages and ranks that are computed from a start are integers.
LEMMA PaginationTypes ==
  ASSUME NEW start \in Nat
  PROVE  firstPage(start) \in Int /\ startRank(start) \in Int /\ ComputePagination(start).skip \in Int
         /\ firstPage(start) * PageSize \in Int /\ ComputePagination(0).skip = 0
<1>1. PageSize \in Nat \ {0}
  BY SerpRowsAssumption
<1>2. start \div PageSize \in Int /\ start % PageSize \in Int /\ 0 % PageSize = 0
  BY <1>1
<1>3. \A p \in Int : p * PageSize \in Int /\ p * PageSize + 1 \in Int
  BY <1>1
<1>4. QED
  BY <1>2, <1>3 DEF firstPage, startRank, ComputePagination

\* The rows of a page are rows.
LEMMA PageOfRows ==
  ASSUME NEW layout \in Seq(BlockKinds), NEW p \in Int
  PROVE  Rows(layout, p) \in Seq(Row)
<1> DEFINE all == [i \in DOMAIN layout |->
                     [url |-> IF layout[i] = "again" THEN FirstUrl ELSE <<p, i>>,
                      ad |-> layout[i] = "ad", rank |-> 0, abs |-> 0]]
           at == {i \in DOMAIN layout : layout[i] \in RowKinds}
<1>1. Len(layout) \in Nat /\ DOMAIN layout = 1 .. Len(layout)
  OBVIOUS
<1>2. \A i \in 1 .. Len(layout) : all[i] \in Row
  BY <1>1 DEF Row, FirstUrl
<1>3. all \in [1 .. Len(layout) -> Row]
  BY <1>1, <1>2
<1>4. all \in Seq(Row) /\ DOMAIN all = 1 .. Len(layout)
  <2> HIDE DEF all
  <2> QED
    BY <1>1, <1>3, RowSequence
<1>5. at \subseteq DOMAIN all
  BY <1>1, <1>4
<1>6. Rows(layout, p) = Kept(all, at)
  BY DEF Rows
<1>7. QED
  <2> HIDE DEF all, at
  <2> QED
    BY <1>4, <1>5, <1>6, KeptRows

\* The parsers return rows: Google's, with its answers.
LEMMA GoogleRows ==
  ASSUME NEW s \in Seq(Row), NEW urls \in Seq(Int \X Int), NEW start \in Int
  PROVE  ParseGoogle(s, urls, start) \in Seq(Row)
<1>1. Len(urls) \in Nat /\ DOMAIN urls = 1 .. Len(urls) /\ \A i \in 1 .. Len(urls) : urls[i] \in Int \X Int
  OBVIOUS
<1>2. \A i \in 1 .. Len(urls) : [url |-> urls[i], ad |-> FALSE, rank |-> -i, abs |-> 0] \in Row
  BY <1>1 DEF Row
<1>3. AnswerRows(urls) \in [1 .. Len(urls) -> Row]
  BY <1>1, <1>2 DEF AnswerRows
<1>4. AnswerRows(urls) \in Seq(Row)
  BY <1>1, <1>3, RowSequence
<1>5. Ranked(s, start, start + 1) \in Seq(Row)
  BY RankedRows
<1>6. QED
  BY <1>4, <1>5 DEF ParseGoogle, ParsePage

\* Ecosia's, which loses none.
LEMMA EcosiaPage ==
  ASSUME NEW s \in Seq(Row), NEW before \in Seq(Row), NEW r \in Int
  PROVE  /\ ParseEcosia(s, before, r) \in Seq(Row)
         /\ Len(s) > 0 => Len(ParseEcosia(s, before, r)) > 0
<1> DEFINE organicAt == {i \in DOMAIN s : ~ s[i].ad}
           adAt == {i \in DOMAIN s : s[i].ad}
           organic == Kept(s, organicAt)
           ads == Kept(s, adAt)
           f == [i \in DOMAIN organic |-> [organic[i] EXCEPT !.rank = r + CountOrganicResults(before) + i - 1]]
           g == [i \in DOMAIN ads |-> [ads[i] EXCEPT !.rank = Ads(before, Len(before)) + i]]
<1>1. ParseEcosia(s, before, r) = f \o g
  BY DEF ParseEcosia
<1>2. organicAt \subseteq DOMAIN s /\ adAt \subseteq DOMAIN s /\ (Len(s) > 0 => 1 \in organicAt \/ 1 \in adAt)
  OBVIOUS
<1>3. /\ organic \in Seq(Row) /\ \A i \in organicAt : \E k \in DOMAIN organic : organic[k] = s[i]
      /\ ads \in Seq(Row) /\ \A i \in adAt : \E k \in DOMAIN ads : ads[k] = s[i]
  <2> HIDE DEF organicAt, adAt
  <2> QED
    BY <1>2, KeptRows
<1> HIDE DEF organic, ads
<1>4. /\ Len(organic) \in Nat /\ DOMAIN organic = 1 .. Len(organic) /\ Len(ads) \in Nat /\ DOMAIN ads = 1 .. Len(ads)
      /\ \A i \in DOMAIN organic : organic[i] \in Row
      /\ \A i \in DOMAIN ads : ads[i] \in Row
  BY <1>3
<1>5. Len(s) > 0 => Len(organic) > 0 \/ Len(ads) > 0
  BY <1>2, <1>3, <1>4
<1>6. CountOrganicResults(before) \in Nat /\ Ads(before, Len(before)) \in Nat
  <2>1. Len(before) \in Nat
    OBVIOUS
  <2>2. QED
    BY <2>1, CountTypes
<1>7. /\ \A i \in DOMAIN organic : r + CountOrganicResults(before) + i - 1 \in Int
      /\ \A i \in DOMAIN ads : Ads(before, Len(before)) + i \in Int
  BY <1>4, <1>6
<1>8. \A x \in Row, p \in Int : [x EXCEPT !.rank = p] \in Row
  BY DEF Row
<1>9. f \in [1 .. Len(organic) -> Row] /\ g \in [1 .. Len(ads) -> Row]
  BY <1>4, <1>7, <1>8
<1> HIDE DEF f, g
<1>10. f \in Seq(Row) /\ Len(f) = Len(organic) /\ g \in Seq(Row) /\ Len(g) = Len(ads)
  BY <1>4, <1>9, RowSequence
<1>11. f \o g \in Seq(Row) /\ Len(f \o g) = Len(f) + Len(g)
  BY <1>10, ConcatProperties
<1>12. QED
  BY <1>1, <1>4, <1>5, <1>10, <1>11

\* Baidu's, which leaves none if and only if the page has none.
LEMMA BaiduPage ==
  ASSUME NEW s \in Seq(Row)
  PROVE  ParseBaidu(s) \in Seq(Row) /\ (Len(s) > 0 => Len(ParseBaidu(s)) > 0)
<1> DEFINE t == Ranked(s, 0, 1)
           d == DeduplicateResults(t)
<1>1. t \in Seq(Row) /\ Len(t) = Len(s)
  BY RankedRows
<1> HIDE DEF t
<1>2. d \in Seq(Row) /\ Len(d) \in Nat /\ (Len(d) = 0 <=> Len(s) = 0)
  BY <1>1, DeduplicatedRows
<1>3. ParseBaidu(s) = Rebased(d, 0)
  BY DEF ParseBaidu, ParsePage, t
<1> HIDE DEF d
<1>4. Rebased(d, 0) \in Seq(Row) /\ Len(Rebased(d, 0)) = Len(d)
  BY <1>2, RebasedRows
<1>5. QED
  BY <1>2, <1>3, <1>4

\* The offsets that Baidu's rows get lose none.
LEMMA BaiduOffset ==
  ASSUME NEW s \in Seq(Row), NEW start \in Int
  PROVE  BaiduRows(s, start) \in Seq(Row) /\ Len(BaiduRows(s, start)) = Len(s)
<1>1. Rebased(s, start) \in Seq(Row) /\ Len(Rebased(s, start)) = Len(s)
  BY RebasedRows
<1>2. QED
  BY <1>1, RebasedRows DEF BaiduRows

\* A raw search of a document with rows returns some; Yandex's may skip them all.
LEMMA RawSearches ==
  ASSUME NEW s \in Seq(Row), NEW start \in Nat
  PROVE  /\ RawGoogle(s, start) \in Seq(Row) /\ (Len(s) > 0 => Len(RawGoogle(s, start)) > 0)
         /\ RawBaidu(s, start) \in Seq(Row) /\ (Len(s) > 0 => Len(RawBaidu(s, start)) > 0)
         /\ RawYandex(s, start) \in Seq(Row) /\ (Len(s) > 0 /\ start = 0 => Len(RawYandex(s, start)) > 0)
         /\ RawEcosia(s, start) \in Seq(Row) /\ (Len(s) > 0 => Len(RawEcosia(s, start)) > 0)
<1>0. \A t \in Seq(Row) : Len(t) \in Nat
  OBVIOUS
<1> DEFINE t == Ranked(s, 0, 1)
           d == DeduplicateResults(t)
<1>1. t \in Seq(Row) /\ (Len(s) > 0 => Len(t) > 0)
  BY RankedRows
<1> HIDE DEF t
<1>2. d \in Seq(Row) /\ (Len(s) > 0 => Len(d) > 0)
  BY <1>0, <1>1, DeduplicatedRows
<1> HIDE DEF d
<1>3. \A n \in Int : /\ Rebased(d, n) \in Seq(Row) /\ (Len(s) > 0 => Len(Rebased(d, n)) > 0)
                     /\ Offset(Rebased(d, n), n) \in Seq(Row) /\ (Len(s) > 0 => Len(Offset(Rebased(d, n), n)) > 0)
  BY <1>2, RebasedRows
<1>4. RawGoogle(s, start) \in Seq(Row) /\ (Len(s) > 0 => Len(RawGoogle(s, start)) > 0)
  <2>1. RawGoogle(s, start) = IF start > 0 THEN Offset(Rebased(d, start), start) ELSE d
    BY DEF RawGoogle, ParsePage, t, d
  <2>2. start \in Int
    OBVIOUS
  <2>3. CASE start > 0
    BY <1>3, <2>1, <2>2, <2>3
  <2>4. CASE ~ (start > 0)
    BY <1>2, <2>1, <2>4
  <2>5. QED
    BY <2>3, <2>4
<1>5. RawBaidu(s, start) \in Seq(Row) /\ (Len(s) > 0 => Len(RawBaidu(s, start)) > 0)
  <2> DEFINE b == IF start > 0 THEN BaiduRows(ParseBaidu(s), start) ELSE ParseBaidu(s)
  <2>1. b \in Seq(Row) /\ (Len(s) > 0 => Len(b) > 0)
    BY BaiduPage, BaiduOffset
  <2>2. RawBaidu(s, start) = DeduplicateResults(b)
    BY DEF RawBaidu
  <2> HIDE DEF b
  <2>3. QED
    BY <1>0, <2>1, <2>2, DeduplicatedRows
<1>6. RawYandex(s, start) \in Seq(Row) /\ (Len(s) > 0 /\ start = 0 => Len(RawYandex(s, start)) > 0)
  <2> DEFINE y == skipOrganicResults(d, ComputePagination(start).skip)
             z == IF start > 0 THEN Rebased(y, start) ELSE y
  <2>1. RawYandex(s, start) = Offset(z, firstPage(start) * PageSize)
    BY DEF RawYandex, ParsePage, t, d
  <2>2. y \in Seq(Row) /\ (Len(s) > 0 /\ start = 0 => Len(y) > 0)
    BY <1>2, PaginationTypes, SkippedRows
  <2> HIDE DEF y
  <2>3. z \in Seq(Row) /\ (Len(s) > 0 /\ start = 0 => Len(z) > 0)
    BY <2>2, RebasedRows
  <2> HIDE DEF z
  <2>4. QED
    BY <2>1, <2>3, PaginationTypes, RebasedRows
<1>7. RawEcosia(s, start) \in Seq(Row) /\ (Len(s) > 0 => Len(RawEcosia(s, start)) > 0)
  <2> DEFINE none == << >>
             e == ParseEcosia(s, none, 1)
             f == SetSeparatedAdAbsoluteRanks(e, 0)
             g == DeduplicateResults(f)
             h == Rebased(g, startRank(start) - 1)
             k == SetSeparatedAdAbsoluteRanks(h, firstPage(start) * PageSize)
  <2>1. RawEcosia(s, start) = DeduplicateResults(k)
    BY DEF RawEcosia
  <2>2. e \in Seq(Row) /\ (Len(s) > 0 => Len(e) > 0)
    <3>1. none \in Seq(Row)
      OBVIOUS
    <3> HIDE DEF none
    <3>2. QED
      BY <3>1, EcosiaPage
  <2> HIDE DEF e
  <2>3. f \in Seq(Row) /\ (Len(s) > 0 => Len(f) > 0)
    BY <2>2, SeparatedRows
  <2> HIDE DEF f
  <2>4. g \in Seq(Row) /\ (Len(s) > 0 => Len(g) > 0)
    BY <1>0, <2>3, DeduplicatedRows
  <2> HIDE DEF g
  <2>5. h \in Seq(Row) /\ (Len(s) > 0 => Len(h) > 0)
    <3>1. startRank(start) - 1 \in Int
      BY PaginationTypes
    <3>2. QED
      BY <2>4, <3>1, RebasedRows
  <2> HIDE DEF h
  <2>6. k \in Seq(Row) /\ (Len(s) > 0 => Len(k) > 0)
    BY <2>5, PaginationTypes, SeparatedRows
  <2> HIDE DEF k
  <2>7. QED
    BY <1>0, <2>1, <2>6, DeduplicatedRows
<1>8. QED
  BY <1>4, <1>5, <1>6, <1>7

-----------------------------------------------------------------------------
(* Engine searches: the inductive invariant. *)

\* Which calls reach a phase, and what they know there.
Phasing ==
  /\ kind = "raw" => phase \in {"start", "done"}
  /\ phase = "sleep" => web("yandex") \/ engine = "ecosia"
  /\ phase = "look" => web("google") \/ engine = "bing"
  /\ phase \in {"solve", "solved", "judge", "check"} => engine = "google"
  /\ phase = "scroll" => image("google")
  /\ phase = "more" => web("duckduckgo") /\ rows # << >>
  /\ image("google") /\ phase = "start" => stale = 0
  /\ image("google") /\ phase = "wait" => pages < MaxPages /\ stale < 2

\* The accounts of a call with the solver.
Bills == [{"begun", "jobs", "tokens", "used", "refused"} -> Nat]

\* A solve runs in its phase only, and its token is tried on the page before
\* another one is begun.
Paid ==
  /\ job.at # "none" <=> phase = "solve"
  /\ bill.tokens = bill.used + bill.refused + (IF job.at = "token" THEN 1 ELSE 0) \/ (phase = "done" /\ page.gone)

\* A page that has shown a captcha only is not read to its end.
CaptchaOnly ==
  /\ page.only => page.shows = "captcha" /\ ~page.gone
  /\ phase \in {"start", "sleep", "solved", "more"} => ~page.only
  /\ phase = "scroll" /\ page.only => pages = 0 /\ stale = 0

EngineInv == TypeOK /\ Phasing /\ Paid /\ CaptchaOnly /\ BlockReported /\ EmptyIsEvidenced /\ CollectedKept

\* The invariant holds when a call starts.
LEMMA InitEngineInv == Init => EngineInv
<1> SUFFICES ASSUME Init PROVE EngineInv
  OBVIOUS
<1> USE DEF Init
<1>1. MaxPages \in Nat \ {0} /\ SolveTimeout \in Nat
  BY EngineAssumption, SolverAssumption
<1>2. SolverTypeOK
  BY <1>1 DEF SolverTypeOK, NoJob, NoBill, JobStates
<1>3. TypeOK
  <2>1. rows \in Seq(Row) /\ out \in [err : Errors, rows : Seq(Row)]
    <3>1. << >> \in Seq(Row)
      OBVIOUS
    <3>2. QED
      BY <3>1 DEF Pending, Errors
  <2>2. page \in [open : BOOLEAN, gone : BOOLEAN, shows : Shows, layout : Layouts \cup {<< >>}, only : BOOLEAN]
    BY DEF Closed, Shows
  <2>3. /\ query \in Queries /\ phase \in Phases /\ asked \in {"look", "judge", "check"}
        /\ seen \in BOOLEAN /\ alive \in BOOLEAN
    BY DEF Phases
  <2>4. pages \in 0 .. MaxPages /\ stale \in 0 .. 2
    BY <1>1
  <2>5. page.open <=> phase \notin {"start", "sleep", "done"}
    BY DEF Closed
  <2> QED
    BY <1>2, <2>1, <2>2, <2>3, <2>4, <2>5 DEF TypeOK
<1>4. Phasing /\ Paid /\ CaptchaOnly
  BY DEF Phasing, Paid, CaptchaOnly, NoJob, NoBill, Closed
<1>5. BlockReported /\ EmptyIsEvidenced /\ CollectedKept
  BY DEF BlockReported, EmptyIsEvidenced, CollectedKept
<1>6. QED
  BY <1>3, <1>4, <1>5 DEF EngineInv

\* A query is of one of the engines and kinds.
LEMMA QueryTypes ==
  ASSUME query \in Queries
  PROVE  /\ engine \in Engines /\ kind \in {"web", "image", "raw"}
         /\ query.limit \in Nat \ {0} /\ query.start \in Nat
BY EngineAssumption DEF QueryOK, engine, kind

\* A cut at any number of rows returns rows.
LEMMA CutRows ==
  ASSUME NEW s \in Seq(Row), NEW n \in Int
  PROVE  SubSeq(s, 1, IF Len(s) > n THEN n ELSE Len(s)) \in Seq(Row)
<1>1. Len(s) \in Nat
  OBVIOUS
<1> DEFINE m == IF Len(s) > n THEN n ELSE Len(s)
<1>2. m \in Int /\ m <= Len(s)
  BY <1>1
<1>3. QED
  BY <1>1, <1>2, SubSeqProperties

\* What an empty success rests on, of whichever rows.
Evidence ==
  \/ page.shows = "empty"
  \/ kind = "image" \/ (kind = "web" /\ engine \in {"bing", "yandex", "ecosia"})
  \/ engine = "yandex" /\ query.start > 0

\* DuckDuckGo's window leaves a row of those that reach behind the start.
LEMMA WindowedRows ==
  ASSUME NEW s \in Seq(Row), NEW start \in Nat, NEW max \in Nat \ {0}, CountOrganicResults(s) > start
  PROVE  windowOrganicResults(s, start, max) # << >>
<1>1. Len(s) \in Nat /\ DOMAIN s = 1 .. Len(s) /\ Len(s) > 0
  <2>1. \E i \in DOMAIN s : ~ s[i].ad
    <3>1. CountOrganicResults(s) \in Nat /\ CountOrganicResults(s) > 0
      BY CountTypes
    <3>2. QED
      BY <3>1, CountTypes
  <2>2. QED
    BY <2>1
<1> DEFINE t == skipOrganicResults(s, start)
<1>2. t \in Seq(Row) /\ Len(t) > 0
  <2> DEFINE at == {i \in DOMAIN s : s[i].ad \/ Organics(s, i) > start}
  <2>1. t = Kept(s, at) /\ at \subseteq DOMAIN s /\ Len(s) \in at
    BY <1>1 DEF skipOrganicResults, CountOrganicResults
  <2> HIDE DEF at
  <2>2. Kept(s, at) \in Seq(Row) /\ \E k \in DOMAIN Kept(s, at) : TRUE
    BY <2>1, KeptRows
  <2>3. QED
    BY <2>1, <2>2
<1> HIDE DEF t
<1> DEFINE at == {i \in DOMAIN t : t[i].ad \/ Organics(t, i) <= max}
<1>3. LimitOrganicResults(t, max) = Kept(t, at)
  BY DEF LimitOrganicResults
<1>4. 1 \in at /\ at \subseteq DOMAIN t
  <2>1. 1 \in DOMAIN t
    BY <1>2
  <2>2. ~ t[1].ad => Organics(t, 1) = 1
    BY <1>2, <2>1, FirstOrganic
  <2>3. QED
    BY <2>1, <2>2
<1> HIDE DEF at
<1>5. Kept(t, at) \in Seq(Row) /\ \E k \in DOMAIN Kept(t, at) : TRUE
  BY <1>2, <1>4, KeptRows
<1>6. QED
  BY <1>3, <1>5 DEF windowOrganicResults, t

\* What a call returns of its rows: some of them, in the engines that do not
\* take an unreadable page for an empty one, but for those before the start of
\* DuckDuckGo's window; and Yandex's keeps organic rows.
LEMMA FinishedRows ==
  ASSUME NEW s \in Seq(Row), query \in Queries
  PROVE  /\ Finished(s) \in Seq(Row)
         /\ s # << >> /\ Finished(s) = << >> => Evidence \/ NoneBehindStart(s)
         /\ web("yandex") /\ CountOrganicResults(s) > 0 => CountOrganicResults(Finished(s)) > 0
<1> DEFINE max == query.limit
           start == query.start
<1>1. max \in Int /\ start \in Int /\ start \in Nat
  BY QueryTypes
<1> HIDE DEF max, start
<1>2. DeduplicateResults(s) \in Seq(Row)
      /\ (CountOrganicResults(s) > 0 => CountOrganicResults(DeduplicateResults(s)) > 0)
  BY DeduplicatedRows
<1>3. LimitedRows(s, max) \in Seq(Row)
      /\ (CountOrganicResults(s) > 0 => CountOrganicResults(LimitedRows(s, max)) > 0)
  BY <1>1, <1>2, LimitedOrganics DEF LimitedRows
<1>4. DDGRows(s, start, max) \in Seq(Row)
  <2>1. skipOrganicResults(DeduplicateResults(s), start) \in Seq(Row)
    BY <1>1, <1>2, SkippedRows
  <2>2. QED
    BY <1>1, <2>1, LimitedOrganics DEF DDGRows, windowOrganicResults
<1>5. EcosiaRows(s, start, max) \in Seq(Row)
  <2>1. SetSeparatedAdAbsoluteRanks(s, start) \in Seq(Row)
    BY <1>1, SeparatedRows
  <2>2. DeduplicateResults(SetSeparatedAdAbsoluteRanks(s, start)) \in Seq(Row)
    BY <2>1, DeduplicatedRows
  <2>3. QED
    BY <1>1, <2>2, LimitedOrganics DEF EcosiaRows, LimitedRows
<1>6. BaiduRows(s, start) \in Seq(Row) /\ Len(BaiduRows(s, start)) = Len(s)
  BY <1>1, BaiduOffset
<1>7. Cut(DeduplicateResults(s), max) \in Seq(Row)
  BY <1>1, <1>2, CutRows DEF Cut
<1>8. web("yandex") => Finished(s) = LimitedRows(s, max)
  BY DEF Finished, web, image, max
<1>9. QED
  <2>1. Finished(s) \in Seq(Row)
    BY <1>2, <1>3, <1>4, <1>5, <1>6, <1>7 DEF Finished, web, image, max, start
  <2>2. ASSUME s # << >>, Finished(s) = << >>, ~ Evidence PROVE NoneBehindStart(s)
    <3>1. Len(s) \in Nat /\ Len(s) # 0 /\ Len(DeduplicateResults(s)) # 0 /\ Len(BaiduRows(s, start)) # 0
      <4>1. Len(s) \in Nat /\ Len(s) # 0
        BY <2>2
      <4>2. QED
        BY <1>6, <4>1, DeduplicatedRows
    <3>2. DeduplicateResults(s) # << >> /\ BaiduRows(s, start) # << >>
      BY <3>1
    <3>3. ~ image("ecosia") /\ ~ image("baidu") /\ ~ image("bing") /\ ~ web("bing") /\ ~ web("yandex") /\ ~ web("ecosia")
      BY <2>2 DEF Evidence, web, image
    <3>4. web("duckduckgo") /\ DDGRows(s, start, max) = << >>
      BY <2>2, <3>2, <3>3 DEF Finished, max, start
    <3>5. max \in Nat \ {0}
      BY QueryTypes DEF max
    <3>6. ~ (CountOrganicResults(DeduplicateResults(s)) > start)
      BY <1>1, <1>2, <3>4, <3>5, WindowedRows DEF DDGRows
    <3>7. CountOrganicResults(DeduplicateResults(s)) \in Nat
      BY <1>2, CountTypes
    <3>8. QED
      BY <1>1, <2>2, <3>4, <3>6, <3>7 DEF NoneBehindStart, start
  <2>3. QED
    BY <1>3, <1>8, <2>1, <2>2

-----------------------------------------------------------------------------
(* Ends. *)

\* No solve is left, and its token has been tried if the page exists.
Settled == job'.at = "none" /\ SolverTypeOK' /\ (bill'.tokens = bill'.used + bill'.refused \/ page.gone)

\* Outside a solve nothing is owed.
LEMMA SettledUnchanged ==
  ASSUME EngineInv, phase \notin {"done", "solve"}, UNCHANGED solver
  PROVE  Settled
<1>1. job' = job /\ bill' = bill /\ job.at = "none" /\ SolverTypeOK
  BY DEF EngineInv, TypeOK, Paid, solver
<1>2. bill.used \in Nat /\ bill.refused \in Nat
  BY <1>1 DEF SolverTypeOK
<1>3. bill.tokens = bill.used + bill.refused
  BY <1>1, <1>2 DEF EngineInv, Paid
<1>4. QED
  BY <1>1, <1>3 DEF Settled, SolverTypeOK

\* A call that ends keeps the invariant.
LEMMA EndKeeps ==
  ASSUME EngineInv, phase # "done", NEW err \in Errors, NEW some \in Seq(Row),
         Return(err, some), rows' \in Seq(Row), Settled,
         page.only /\ alive => err = "captcha" \/ (web("yandex") /\ CountOrganicResults(rows') > 0),
         err = "none" /\ some = << >> => Evidence \/ NoneBehindStart(rows'),
         web("yandex") /\ CountOrganicResults(rows') > 0 /\ alive => err = "none" /\ CountOrganicResults(some) > 0
  PROVE  EngineInv'
<1> USE DEF EngineInv
<1>1. /\ query' = query /\ phase' = "done" /\ asked' = asked /\ seen' = seen /\ pages' = pages /\ stale' = stale
      /\ alive' = alive /\ out' = [err |-> err, rows |-> some] /\ page' = [page EXCEPT !.open = FALSE]
  BY DEF Return, Close
<1>2. /\ page \in [open : BOOLEAN, gone : BOOLEAN, shows : Shows, layout : Layouts \cup {<< >>}, only : BOOLEAN]
  BY DEF TypeOK
<1>3. /\ page' \in [open : BOOLEAN, gone : BOOLEAN, shows : Shows, layout : Layouts \cup {<< >>}, only : BOOLEAN]
      /\ page'.open = FALSE /\ page'.gone = page.gone /\ page'.shows = page.shows /\ page'.only = page.only
  BY <1>1, <1>2
<1>4. out' \in [err : Errors, rows : Seq(Row)] /\ out'.err = err /\ out'.rows = some
  BY <1>1
<1>5. \A e : web(e)' = web(e) /\ image(e)' = image(e)
  BY <1>1 DEF web, image, engine, kind
<1>6. engine' = engine /\ kind' = kind
  BY <1>1 DEF engine, kind
<1>7. TypeOK'
  BY <1>1, <1>3, <1>4 DEF TypeOK, Phases, Settled
<1>8. Phasing'
  BY <1>1 DEF Phasing
<1>9. Paid'
  <2>1. bill'.used \in Nat /\ bill'.refused \in Nat
    BY DEF Settled, SolverTypeOK, Bills
  <2>2. bill'.tokens = bill'.used + bill'.refused + 0 \/ page'.gone
    BY <1>3, <2>1 DEF Settled
  <2>3. QED
    BY <1>1, <2>2 DEF Paid, Settled
<1>10. CaptchaOnly'
  BY <1>1, <1>3 DEF CaptchaOnly
<1>11. BlockReported'
  BY <1>1, <1>3, <1>4, <1>5 DEF BlockReported
<1>12. EmptyIsEvidenced'
  <2>1. NoneBehindStart(rows') => NoneBehindStart(rows)'
    BY <1>1, <1>5 DEF NoneBehindStart
  <2>2. QED
    BY <1>1, <1>3, <1>4, <1>6, <2>1 DEF EmptyIsEvidenced, Evidence
<1>13. CollectedKept'
  BY <1>1, <1>4, <1>5 DEF CollectedKept
<1>14. QED
  BY <1>7, <1>8, <1>9, <1>10, <1>11, <1>12, <1>13

\* An error keeps it, if the error is the captcha's where only a captcha was
\* shown.
LEMMA FailKeeps ==
  ASSUME EngineInv, phase # "done", NEW err \in Errors \ {"none"}, PageFailed(err), Settled,
         page.only /\ alive => err = "captcha"
  PROVE  EngineInv'
<1>1. rows' = rows /\ rows \in Seq(Row) /\ query \in Queries
  BY DEF PageFailed, EngineInv, TypeOK
<1>2. CASE web("yandex") /\ CountOrganicResults(rows) > 0
  <2>1. Return("none", Finished(rows))
    BY <1>2 DEF PageFailed
  <2>2. Finished(rows) \in Seq(Row) /\ CountOrganicResults(Finished(rows)) > 0 /\ "none" \in Errors
    BY <1>1, <1>2, FinishedRows DEF Errors
  <2>3. Evidence
    BY <1>2 DEF Evidence, web
  <2>4. QED
    BY <1>1, <1>2, <2>1, <2>2, <2>3, EndKeeps
<1>3. CASE ~ (web("yandex") /\ CountOrganicResults(rows) > 0)
  <2> DEFINE some == CASE image("google") -> DeduplicateResults(rows) [] image("yandex") -> rows [] OTHER -> << >>
  <2>1. Return(err, some)
    BY <1>3 DEF PageFailed
  <2>2. some \in Seq(Row)
    <3>1. DeduplicateResults(rows) \in Seq(Row) /\ << >> \in Seq(Row)
      BY <1>1, DeduplicatedRows
    <3>2. QED
      BY <1>1, <3>1
  <2> HIDE DEF some
  <2>3. QED
    BY <1>1, <1>3, <2>1, <2>2, EndKeeps
<1>4. QED
  BY <1>2, <1>3

\* A success keeps it; one that collected no rows needs its evidence.
LEMMA FinishKeeps ==
  ASSUME EngineInv, phase # "done", NEW s \in Seq(Row), Finish(s), Settled,
         ~ (page.only /\ alive), s = << >> => Evidence
  PROVE  EngineInv'
<1>1. Return("none", Finished(s)) /\ rows' = s /\ query \in Queries
  BY DEF Finish, EngineInv, TypeOK
<1>2. Finished(s) \in Seq(Row) /\ "none" \in Errors
      /\ (web("yandex") /\ CountOrganicResults(s) > 0 => CountOrganicResults(Finished(s)) > 0)
      /\ (Finished(s) = << >> => Evidence \/ NoneBehindStart(s))
  BY <1>1, FinishedRows DEF Errors
<1>3. QED
  BY <1>1, <1>2, EndKeeps

\* A call that goes on has none of the obligations of one that has ended.
LEMMA GoingOnKeeps ==
  ASSUME phase' # "done", TypeOK', Phasing', Paid', CaptchaOnly'
  PROVE  EngineInv'
BY DEF EngineInv, BlockReported, EmptyIsEvidenced, CollectedKept

\* So does a step from one phase to another.
LEMMA MovesKeep ==
  ASSUME EngineInv, NEW p, GoTo(p), UNCHANGED solver, phase # "solve",
         \/ p \in {"wait", "judge", "check"} /\ phase \notin {"start", "sleep", "done"}
         \/ p = "start" /\ phase = "sleep",
         p = "wait" => ~ image("google"), p \in {"judge", "check"} => engine = "google"
  PROVE  EngineInv'
<1> USE DEF EngineInv
<1>1. /\ phase' = p /\ query' = query /\ asked' = asked /\ page' = page /\ seen' = seen /\ pages' = pages
      /\ stale' = stale /\ rows' = rows /\ alive' = alive /\ out' = out /\ job' = job /\ bill' = bill
  BY DEF GoTo, solver
<1>2. engine' = engine /\ kind' = kind /\ \A e : web(e)' = web(e) /\ image(e)' = image(e)
  BY <1>1 DEF web, image, engine, kind
<1>3. TypeOK'
  BY <1>1 DEF TypeOK, SolverTypeOK, Phases
<1>4. Phasing'
  BY <1>1, <1>2 DEF Phasing, web, image
<1>5. Paid'
  BY <1>1 DEF Paid
<1>6. CaptchaOnly'
  BY <1>1 DEF CaptchaOnly
<1>7. QED
  BY <1>1, <1>3, <1>4, <1>5, <1>6, GoingOnKeeps

\* The end of a page, whether it is the last or not.
LEMMA PageDoneKeeps ==
  ASSUME EngineInv, phase = "wait", NEW last, NEW s \in Seq(Row), PageDone(last, s), UNCHANGED solver,
         ~ page.only, s = << >> => Evidence
  PROVE  EngineInv'
<1> DEFINE ends == last \/ ~Paginated \/ ~ShouldFetchResultPage(Count(s), query.limit, pages)
<1>1. CASE ends
  <2>1. Finish(s)
    BY <1>1 DEF PageDone
  <2>2. QED
    BY <2>1, SettledUnchanged, FinishKeeps
<1>2. CASE ~ ends
  <2> USE DEF EngineInv
  <2>1. /\ phase' = IF web("yandex") \/ engine = "ecosia" THEN "sleep" ELSE "start"
        /\ Close /\ rows' = s
        /\ UNCHANGED <<query, asked, seen, pages, stale, alive, out>>
    BY <1>2 DEF PageDone
  <2>2. /\ page \in [open : BOOLEAN, gone : BOOLEAN, shows : Shows, layout : Layouts \cup {<< >>}, only : BOOLEAN]
    BY DEF TypeOK
  <2>3. /\ page' \in [open : BOOLEAN, gone : BOOLEAN, shows : Shows, layout : Layouts \cup {<< >>}, only : BOOLEAN]
        /\ page'.open = FALSE /\ page'.gone = page.gone /\ page'.shows = page.shows /\ page'.only = page.only
    BY <2>1, <2>2 DEF Close
  <2>4. query' = query /\ engine' = engine /\ kind' = kind /\ job' = job /\ bill' = bill
    BY <2>1 DEF engine, kind, solver
  <2>5. Paginated
    BY <1>2
  <2>6. TypeOK'
    BY <2>1, <2>3, <2>4 DEF TypeOK, SolverTypeOK, Phases
  <2>7. Phasing'
    BY <2>1, <2>4, <2>5 DEF Phasing, Paginated, web, image
  <2>8. Paid'
    BY <2>1, <2>4 DEF Paid
  <2>9. CaptchaOnly'
    BY <2>1, <2>3 DEF CaptchaOnly
  <2>10. QED
    BY <2>1, <2>6, <2>7, <2>8, <2>9, GoingOnKeeps
<1>3. QED
  BY <1>1, <1>2

\* What Google's driver makes of a classification keeps the invariant.
LEMMA ClassifiedKeeps ==
  ASSUME EngineInv, engine = "google", phase \in {"look", "judge", "check", "solve", "solved"},
         NEW where, NEW c \in Shows \cup {"unreadable"}, Classified(where, c), Settled,
         c # "captcha" => UNCHANGED solver /\ phase # "solve",
         page.only /\ alive => c = "captcha", c = "empty" => page.shows = "empty"
  PROVE  EngineInv'
<1>1. rows \in Seq(Row) /\ << >> \in Seq(Row) /\ phase # "done" /\ kind # "raw"
  BY DEF EngineInv, TypeOK, Phasing
<1>2. query \in Queries /\ kind \in {"web", "image"}
  BY <1>1, QueryTypes DEF EngineInv, TypeOK
<1>3. CASE c = "captcha" \/ (c = "blocked" /\ kind = "web")
  <2>1. PageFailed(c) /\ c \in Errors \ {"none"}
    BY <1>3 DEF Classified, Errors
  <2>2. QED
    BY <1>1, <2>1, FailKeeps
<1>4. CASE ~ (c = "captcha" \/ (c = "blocked" /\ kind = "web")) /\ kind = "image"
  <2>1. Finish(rows) /\ Evidence
    BY <1>4 DEF Classified, Evidence
  <2>2. QED
    BY <1>1, <1>4, <2>1, FinishKeeps
<1>5. CASE ~ (c = "captcha" \/ (c = "blocked" /\ kind = "web")) /\ kind = "web" /\ where = "look"
  <2>1. GoTo("wait") /\ ~ image("google")
    BY <1>5 DEF Classified, image
  <2>2. QED
    BY <1>1, <1>5, <2>1, MovesKeep
<1>6. CASE ~ (c = "captcha" \/ (c = "blocked" /\ kind = "web")) /\ kind = "web" /\ where # "look" /\ c = "empty"
  <2>1. Finish(<< >>) /\ Evidence
    BY <1>6 DEF Classified, Evidence
  <2>2. QED
    BY <1>1, <1>6, <2>1, FinishKeeps
<1>7. CASE ~ (c = "captcha" \/ (c = "blocked" /\ kind = "web")) /\ kind = "web" /\ where # "look" /\ c # "empty"
  <2>1. PageFailed("timeout") /\ "timeout" \in Errors \ {"none"}
    BY <1>7 DEF Classified, Errors
  <2>2. QED
    BY <1>1, <1>7, <2>1, FailKeeps
<1>8. QED
  BY <1>2, <1>3, <1>4, <1>5, <1>6, <1>7

-----------------------------------------------------------------------------
(* The rows of a page. *)

\* What a page shows is a layout of blocks, and its rows are rows.
LEMMA PageTypes ==
  ASSUME TypeOK
  PROVE  /\ page.layout \in Seq(BlockKinds) /\ thisPage \in Int /\ pages \in Int
         /\ PageRows \in Seq(Row) /\ Answers \in Seq(Int \X Int)
         /\ \A l \in Layouts : Rows(l, thisPage) \in Seq(Row)
<1>1. << >> \in Seq(BlockKinds) /\ Layouts \subseteq Seq(BlockKinds) /\ MaxPages \in Nat
  BY EngineAssumption
<1>2. page.layout \in Seq(BlockKinds) /\ pages \in Int
  <2>1. page.layout \in Layouts \cup {<< >>}
    BY DEF TypeOK
  <2>2. pages \in 0 .. MaxPages
    BY DEF TypeOK
  <2>3. page.layout \in Seq(BlockKinds)
    BY <1>1, <2>1
  <2>4. pages \in Int
    BY <2>2
  <2>5. QED
    BY <2>3, <2>4
<1>3. thisPage \in Int
  <2>1. query.start \in Nat
    BY QueryTypes DEF TypeOK
  <2>2. firstPage(query.start) \in Int
    BY <2>1, PaginationTypes
  <2>3. QED
    BY <1>2, <2>2 DEF thisPage
<1>4. Answers \in Seq(Int \X Int)
  <2>1. << >> \in Seq(Int \X Int) /\ <<<<-1, 1>>>> \in Seq(Int \X Int)
    OBVIOUS
  <2>2. QED
    BY <2>1 DEF Answers
<1>5. QED
  BY <1>1, <1>2, <1>3, <1>4, PageOfRows DEF PageRows

\* So are its images.
LEMMA ImageSequence ==
  ASSUME TypeOK, NEW first \in Int
  PROVE  Images(first) \in Seq(Row)
<1> DEFINE s == PageRows
           f == [i \in DOMAIN s |-> [s[i] EXCEPT !.rank = first + i, !.ad = FALSE]]
<1>1. s \in Seq(Row)
  BY PageTypes
<1>2. Images(first) = f
  BY DEF Images
<1> HIDE DEF s
<1>3. Len(s) \in Nat /\ DOMAIN s = 1 .. Len(s) /\ \A i \in 1 .. Len(s) : s[i] \in Row
  BY <1>1
<1>4. \A x \in Row, r \in Int : [x EXCEPT !.rank = r, !.ad = FALSE] \in Row
  BY DEF Row
<1>5. f \in [1 .. Len(s) -> Row]
  <2>1. \A i \in 1 .. Len(s) : first + i \in Int /\ s[i] \in Row
    BY <1>3
  <2>2. \A i \in 1 .. Len(s) : [s[i] EXCEPT !.rank = first + i, !.ad = FALSE] \in Row
    BY <1>4, <2>1
  <2>3. QED
    BY <1>3, <2>2
<1> HIDE DEF f
<1>6. QED
  BY <1>2, <1>3, <1>5, RowSequence

\* So are those that are taken of them.
LEMMA TakenRows ==
  ASSUME TypeOK, NEW s \in Seq(Row)
  PROVE  Taken(s) \in Seq(Row)
<1>1. query.limit \in Int /\ Len(rows) \in Int
  BY QueryTypes DEF TypeOK
<1>2. Room \in Int
  BY <1>1 DEF Room
<1>3. QED
  BY <1>2, CutRows DEF Taken

-----------------------------------------------------------------------------
(* The environment keeps the invariant. *)

LEMMA ExpireKeeps == ASSUME EngineInv, Expire PROVE EngineInv'
<1> USE DEF EngineInv
<1>1. /\ alive' = FALSE /\ phase # "done" /\ query' = query /\ phase' = phase /\ asked' = asked /\ page' = page
      /\ seen' = seen /\ pages' = pages /\ stale' = stale /\ rows' = rows /\ out' = out /\ job' = job /\ bill' = bill
  BY DEF Expire, solver
<1>2. engine' = engine /\ kind' = kind
  BY <1>1 DEF engine, kind
<1>3. TypeOK' /\ Phasing' /\ Paid' /\ CaptchaOnly'
  <2>1. TypeOK'
    BY <1>1 DEF TypeOK, SolverTypeOK
  <2>2. Phasing'
    BY <1>1, <1>2 DEF Phasing, web, image
  <2>3. Paid' /\ CaptchaOnly'
    BY <1>1 DEF Paid, CaptchaOnly
  <2>4. QED
    BY <2>1, <2>2, <2>3
<1>4. QED
  BY <1>1, <1>3, GoingOnKeeps

\* A change of an open page, unless it makes the page one that shows a captcha
\* only.
LEMMA PageKeeps ==
  ASSUME EngineInv, page.open, ~ page.gone,
         page' \in [open : BOOLEAN, gone : BOOLEAN, shows : Shows, layout : Layouts \cup {<< >>}, only : BOOLEAN],
         page'.open, page'.only => page.only /\ page'.shows = page.shows /\ page'.gone = page.gone,
         UNCHANGED <<query, phase, asked, seen, pages, stale, rows, alive, out, solver>>
  PROVE  EngineInv'
<1> USE DEF EngineInv
<1>1. /\ query' = query /\ phase' = phase /\ asked' = asked /\ alive' = alive
      /\ seen' = seen /\ pages' = pages /\ stale' = stale /\ rows' = rows /\ out' = out /\ job' = job /\ bill' = bill
  BY DEF solver
<1>2. engine' = engine /\ kind' = kind
  BY <1>1 DEF engine, kind
<1>3. phase \notin {"start", "sleep", "done"}
  BY DEF TypeOK
<1>4. TypeOK'
  BY <1>1, <1>3 DEF TypeOK, SolverTypeOK
<1>5. Phasing'
  BY <1>1, <1>2 DEF Phasing, web, image
<1>6. Paid'
  BY <1>1, <1>3 DEF Paid
<1>7. CaptchaOnly'
  BY <1>1 DEF CaptchaOnly
<1>8. QED
  BY <1>1, <1>3, <1>4, <1>5, <1>6, <1>7, GoingOnKeeps

LEMMA TurnKeeps == ASSUME EngineInv, Turn PROVE EngineInv'
<1> DEFINE P == [open : BOOLEAN, gone : BOOLEAN, shows : Shows, layout : Layouts \cup {<< >>}, only : BOOLEAN]
<1>1. page \in P /\ page.open /\ ~ page.gone /\ (page.only => page.shows = "captcha")
  BY DEF Turn, EngineInv, TypeOK, CaptchaOnly
<1>2. CASE page.shows = "blank" /\ \E s \in Shows \ {"blank"}, l \in Layouts :
             page' = [page EXCEPT !.shows = s, !.layout = IF s = "rows" THEN l ELSE << >>, !.only = FALSE]
  <2>1. PICK s \in Shows, l \in Layouts :
               page' = [page EXCEPT !.shows = s, !.layout = IF s = "rows" THEN l ELSE << >>, !.only = FALSE]
    BY <1>2
  <2>2. page' \in P /\ page'.open /\ ~ page'.only
    BY <1>1, <2>1
  <2>3. QED
    BY <1>1, <2>2, PageKeeps DEF Turn
<1>3. CASE page.shows = "rows" /\ \E l \in Layouts :
             Extends(page.layout, l) /\ page' = [page EXCEPT !.layout = l]
  <2>1. PICK l \in Layouts : page' = [page EXCEPT !.layout = l]
    BY <1>3
  <2>2. page' \in P /\ page'.open /\ page'.only = page.only
    BY <1>1, <2>1
  <2>3. ~ page.only
    BY <1>1, <1>3
  <2>4. QED
    BY <1>1, <2>2, <2>3, PageKeeps DEF Turn
<1>4. QED
  BY <1>2, <1>3 DEF Turn

LEMMA PageDiesKeeps == ASSUME EngineInv, PageDies PROVE EngineInv'
<1>1. page \in [open : BOOLEAN, gone : BOOLEAN, shows : Shows, layout : Layouts \cup {<< >>}, only : BOOLEAN]
  BY DEF EngineInv, TypeOK
<1>2. page' = [page EXCEPT !.gone = TRUE, !.only = FALSE] /\ page.open
  BY DEF PageDies
<1>3. /\ page' \in [open : BOOLEAN, gone : BOOLEAN, shows : Shows, layout : Layouts \cup {<< >>}, only : BOOLEAN]
      /\ page'.open /\ ~ page'.only
  BY <1>1, <1>2
<1>4. QED
  BY <1>2, <1>3, PageKeeps DEF PageDies

-----------------------------------------------------------------------------
(* Navigating and classifying keep it. *)

LEMMA NavigateFailsKeeps == ASSUME EngineInv, NavigateFails PROVE EngineInv'
<1>1. PICK err \in {"network", "blocked", "ratelimited", "ctx"} : PageFailed(err)
  BY DEF NavigateFails
<1>2. phase = "start" /\ UNCHANGED solver /\ err \in Errors \ {"none"}
  BY DEF NavigateFails, Errors
<1>3. ~ page.only
  BY <1>2 DEF EngineInv, CaptchaOnly
<1>4. QED
  BY <1>1, <1>2, <1>3, SettledUnchanged, FailKeeps

LEMMA NavigateKeeps == ASSUME EngineInv, Navigate PROVE EngineInv'
<1> USE DEF EngineInv
<1>1. PICK s \in Shows, l \in Layouts : page' = Opened(s, l)
  BY DEF Navigate
<1>2. /\ phase = "start" /\ kind # "raw" /\ alive /\ pages < MaxPages
      /\ phase' = IF web("google") \/ engine = "bing" THEN "look" ELSE IF image("google") THEN "scroll" ELSE "wait"
      /\ pages' = IF image("google") THEN 0 ELSE pages + 1
      /\ query' = query /\ asked' = asked /\ alive' = alive /\ seen' = seen /\ stale' = stale
      /\ rows' = rows /\ out' = out /\ job' = job /\ bill' = bill
  BY DEF Navigate, solver
<1>3. engine' = engine /\ kind' = kind
  BY <1>2 DEF engine, kind
<1>4. /\ page' \in [open : BOOLEAN, gone : BOOLEAN, shows : Shows, layout : Layouts \cup {<< >>}, only : BOOLEAN]
      /\ page'.open /\ (page'.only => page'.shows = "captcha" /\ ~ page'.gone)
  BY <1>1 DEF Opened
<1>5. MaxPages \in Nat /\ pages \in 0 .. MaxPages
  BY EngineAssumption DEF TypeOK
<1>6. pages' \in 0 .. MaxPages
  BY <1>2, <1>5
<1>7. phase' \in {"look", "scroll", "wait"}
  BY <1>2
<1>8. TypeOK'
  BY <1>2, <1>4, <1>6, <1>7 DEF TypeOK, SolverTypeOK, Phases
<1>9. Phasing'
  BY <1>2, <1>3 DEF Phasing, web, image
<1>10. Paid'
  BY <1>2 DEF Paid
<1>11. CaptchaOnly'
  BY <1>2, <1>4, <1>7 DEF CaptchaOnly, Phasing
<1>12. QED
  BY <1>7, <1>8, <1>9, <1>10, <1>11, GoingOnKeeps

LEMMA LoadFailsKeeps == ASSUME EngineInv, LoadFails PROVE EngineInv'
<1>1. PageFailed("timeout") /\ phase = "wait" /\ UNCHANGED solver /\ "timeout" \in Errors \ {"none"}
  BY DEF LoadFails, Errors
<1>2. ~ (page.only /\ alive)
  BY DEF LoadFails, Readable, EngineInv, CaptchaOnly
<1>3. QED
  BY <1>1, <1>2, SettledUnchanged, FailKeeps

LEMMA SleepKeeps == ASSUME EngineInv, Sleep PROVE EngineInv'
<1>1. phase = "sleep" /\ UNCHANGED solver /\ ~ page.only
  BY DEF Sleep, EngineInv, CaptchaOnly
<1>2. CASE alive
  <2>1. GoTo("start")
    BY <1>2 DEF Sleep
  <2>2. QED
    BY <1>1, <2>1, MovesKeep
<1>3. CASE ~ alive
  <2>1. Return("ctx", << >>) /\ UNCHANGED rows
    BY <1>3 DEF Sleep
  <2>2. rows' \in Seq(Row) /\ << >> \in Seq(Row) /\ "ctx" \in Errors
    BY <2>1 DEF EngineInv, TypeOK, Errors
  <2>3. QED
    BY <1>1, <1>3, <2>1, <2>2, SettledUnchanged, EndKeeps
<1>4. QED
  BY <1>2, <1>3

LEMMA BingLooksKeeps == ASSUME EngineInv, BingLooks PROVE EngineInv'
<1>1. phase = "look" /\ UNCHANGED solver /\ engine = "bing" /\ {"captcha", "ctx"} \subseteq Errors \ {"none"}
  BY DEF BingLooks, Errors
<1>2. CASE PageFailed("captcha")
  BY <1>1, <1>2, SettledUnchanged, FailKeeps
<1>3. CASE GoTo("wait")
  <2>1. ~ image("google")
    BY <1>1 DEF image
  <2>2. QED
    BY <1>1, <1>3, <2>1, MovesKeep
<1>4. CASE ~ alive /\ PageFailed("ctx")
  BY <1>1, <1>4, SettledUnchanged, FailKeeps
<1>5. QED
  BY <1>2, <1>3, <1>4 DEF BingLooks

\* A page that has shown a captcha only is read as one.
LEMMA LookTypes ==
  ASSUME EngineInv
  PROVE  /\ Look \in Shows \cup {"unreadable"}
         /\ page.only /\ alive => Look = "captcha"
         /\ Look = "empty" => page.shows = "empty"
BY DEF EngineInv, TypeOK, CaptchaOnly, Look, Readable, Shows

LEMMA GoogleLooksKeeps == ASSUME EngineInv, GoogleLooks PROVE EngineInv'
<1>1. engine = "google" /\ phase \in {"look", "judge", "check"}
  BY DEF GoogleLooks
<1>2. CASE ~ (Look = "captcha" /\ Solver)
  <2>1. Classified(phase, Look) /\ UNCHANGED solver
    BY <1>2 DEF GoogleLooks
  <2>2. QED
    BY <1>1, <2>1, LookTypes, SettledUnchanged, ClassifiedKeeps
<1>3. CASE Look = "captcha" /\ Solver
  <2> USE DEF EngineInv
  <2>1. /\ phase' = "solve" /\ asked' = phase /\ query' = query /\ page' = page /\ alive' = alive /\ seen' = seen
        /\ pages' = pages /\ stale' = stale /\ rows' = rows /\ out' = out
        /\ job' = [at |-> "submitting", age |-> 0] /\ bill' = [bill EXCEPT !.begun = @ + 1]
    BY <1>3 DEF GoogleLooks, SolveReCaptcha2
  <2>2. engine' = engine /\ kind' = kind
    BY <2>1 DEF engine, kind
  <2>3. SolverTypeOK' /\ bill'.tokens = bill.tokens /\ bill'.used = bill.used /\ bill'.refused = bill.refused
    <3>1. SolveTimeout \in Nat \ {0}
      BY SolverAssumption
    <3>2. bill \in Bills
      BY DEF TypeOK, SolverTypeOK, Bills
    <3>3. bill' \in Bills /\ bill'.tokens = bill.tokens /\ bill'.used = bill.used /\ bill'.refused = bill.refused
      BY <2>1, <3>2 DEF Bills
    <3>4. job' \in [at : JobStates, age : 0 .. SolveTimeout]
      BY <2>1, <3>1 DEF JobStates
    <3>5. QED
      BY <3>3, <3>4 DEF SolverTypeOK, Bills
  <2>4. TypeOK'
    BY <1>1, <2>1, <2>3 DEF TypeOK, Phases
  <2>5. Phasing'
    BY <1>1, <2>1, <2>2 DEF Phasing, web, image
  <2>6. Paid'
    BY <1>1, <2>1, <2>3 DEF Paid
  <2>7. CaptchaOnly'
    BY <2>1 DEF CaptchaOnly
  <2>8. QED
    BY <2>1, <2>4, <2>5, <2>6, <2>7, GoingOnKeeps
<1>4. QED
  BY <1>2, <1>3

LEMMA CannotSolveKeeps == ASSUME EngineInv, CannotSolve PROVE EngineInv'
<1>1. /\ engine = "google" /\ phase \in {"look", "judge", "check"}
      /\ Classified(phase, "captcha") /\ UNCHANGED solver /\ "captcha" \in Shows
  BY DEF CannotSolve, Shows
<1>2. QED
  BY <1>1, SettledUnchanged, ClassifiedKeeps

-----------------------------------------------------------------------------
(* Solving keeps it. *)

LEMMA SolvingKeeps == ASSUME EngineInv, Solving PROVE EngineInv'
<1> USE DEF EngineInv
<1>1. /\ phase = "solve" /\ phase' = phase /\ asked' = asked /\ query' = query /\ page' = page /\ alive' = alive
      /\ seen' = seen /\ pages' = pages /\ stale' = stale /\ rows' = rows /\ out' = out
  BY DEF Solving
<1>2. engine' = engine /\ kind' = kind
  BY <1>1 DEF engine, kind
<1>3. /\ job \in [at : JobStates, age : 0 .. SolveTimeout]
      /\ bill \in Bills
      /\ SolveTimeout \in Nat /\ RequestTimeout \in Nat
  BY SolverAssumption DEF TypeOK, SolverTypeOK, Bills
<1>4. /\ job' \in [at : JobStates, age : 0 .. SolveTimeout] /\ job'.at # "none"
      /\ bill' \in Bills
      /\ bill'.used = bill.used /\ bill'.refused = bill.refused
      /\ bill'.tokens = bill.tokens + (IF job'.at = "token" THEN 1 ELSE 0) /\ job.at # "token"
  <2>1. CASE Submitted
    BY <1>3, <2>1 DEF Submitted, JobStates, Bills
  <2>2. CASE SolveFails /\ job.at \in {"submitting", "queued"}
    BY <1>3, <2>2 DEF SolveFails, JobStates, Bills
  <2>3. CASE Poll
    <3>1. PICK d \in 1 .. RequestTimeout : job.at = "queued" /\ job.age < SolveTimeout /\ PollAgain(d)
      BY <2>3 DEF Poll
    <3>2. After(d) \in 0 .. SolveTimeout
      BY <1>3 DEF After
    <3>3. QED
      BY <1>3, <3>1, <3>2 DEF PollAgain, Bills
  <2>4. CASE Ready
    <3>1. job.age + 1 \in 0 .. SolveTimeout
      BY <1>3, <2>4 DEF Ready
    <3>2. job' = [job EXCEPT !.at = "token", !.age = @ + 1] /\ job.at = "queued"
      BY <2>4 DEF Ready
    <3>3. job' \in [at : JobStates, age : 0 .. SolveTimeout] /\ job'.at = "token"
      BY <1>3, <3>1, <3>2 DEF JobStates
    <3>4. bill' = [bill EXCEPT !.tokens = @ + 1]
      BY <2>4 DEF Ready
    <3>5. /\ bill' \in Bills
          /\ bill'.used = bill.used /\ bill'.refused = bill.refused /\ bill'.tokens = bill.tokens + 1
      BY <1>3, <3>4 DEF Bills
    <3>6. QED
      BY <3>2, <3>3, <3>5
  <2>5. QED
    BY <2>1, <2>2, <2>3, <2>4
    DEF Solving, SolverStep, NotSubmitted, Unsolvable, SolveTimesOut
<1>5. TypeOK'
  BY <1>1, <1>4 DEF TypeOK, SolverTypeOK, Bills
<1>6. Phasing'
  BY <1>1, <1>2 DEF Phasing, web, image
<1>7. Paid'
  BY <1>1, <1>3, <1>4 DEF Paid, Bills
<1>8. CaptchaOnly'
  BY <1>1 DEF CaptchaOnly
<1>9. QED
  BY <1>1, <1>5, <1>6, <1>7, <1>8, GoingOnKeeps

LEMMA InjectKeeps == ASSUME EngineInv, Inject PROVE EngineInv'
<1> USE DEF EngineInv
<1>1. /\ phase = "solve" /\ phase' = "solved" /\ asked' = asked /\ query' = query /\ alive' = alive
      /\ seen' = seen /\ pages' = pages /\ stale' = stale /\ rows' = rows /\ out' = out
      /\ job.at = "token" /\ job' = NoJob /\ bill' = [bill EXCEPT !.used = @ + 1]
      /\ page' = [page EXCEPT !.shows = "blank", !.only = FALSE]
  BY DEF Inject
<1>2. engine' = engine /\ kind' = kind
  BY <1>1 DEF engine, kind
<1>3. /\ page \in [open : BOOLEAN, gone : BOOLEAN, shows : Shows, layout : Layouts \cup {<< >>}, only : BOOLEAN]
      /\ bill \in Bills /\ SolveTimeout \in Nat
  BY SolverAssumption DEF TypeOK, SolverTypeOK, Bills
<1>4. /\ page' \in [open : BOOLEAN, gone : BOOLEAN, shows : Shows, layout : Layouts \cup {<< >>}, only : BOOLEAN]
      /\ page'.open = page.open /\ ~ page'.only
  BY <1>1, <1>3 DEF Shows
<1>5. /\ bill' \in Bills
      /\ bill'.tokens = bill.tokens /\ bill'.used = bill.used + 1 /\ bill'.refused = bill.refused
  BY <1>1, <1>3 DEF Bills
<1>6. job' \in [at : JobStates, age : 0 .. SolveTimeout] /\ job'.at = "none"
  BY <1>1, <1>3 DEF NoJob, JobStates
<1>7. TypeOK'
  BY <1>1, <1>4, <1>5, <1>6 DEF TypeOK, SolverTypeOK, Phases, Bills
<1>8. Phasing'
  BY <1>1, <1>2 DEF Phasing, web, image
<1>9. Paid'
  BY <1>1, <1>3, <1>5, <1>6 DEF Paid, Bills
<1>10. CaptchaOnly'
  BY <1>1, <1>4 DEF CaptchaOnly
<1>11. QED
  BY <1>1, <1>7, <1>8, <1>9, <1>10, GoingOnKeeps

LEMMA InjectFailsKeeps == ASSUME EngineInv, InjectFails PROVE EngineInv'
<1>1. /\ phase = "solve" /\ Classified(asked, "captcha") /\ "captcha" \in Shows /\ engine = "google"
      /\ job.at = "token" /\ job' = NoJob /\ bill' = [bill EXCEPT !.refused = @ + 1]
  BY DEF InjectFails, Shows, EngineInv, Phasing
<1>2. Settled
  <2>1. bill \in Bills /\ SolveTimeout \in Nat
    BY SolverAssumption DEF EngineInv, TypeOK, SolverTypeOK, Bills
  <2>2. job' \in [at : JobStates, age : 0 .. SolveTimeout] /\ job'.at = "none"
    BY <1>1, <2>1 DEF NoJob, JobStates
  <2>3. bill' \in Bills /\ bill'.tokens = bill.tokens /\ bill'.used = bill.used /\ bill'.refused = bill.refused + 1
    BY <1>1, <2>1 DEF Bills
  <2>4. bill.used \in Nat /\ bill.refused \in Nat
    BY <2>1 DEF Bills
  <2>5. bill.tokens = bill.used + bill.refused + 1
    BY <1>1 DEF EngineInv, Paid
  <2>6. QED
    BY <2>2, <2>3, <2>4, <2>5 DEF Settled, SolverTypeOK, Bills
<1>3. QED
  BY <1>1, <1>2, ClassifiedKeeps

LEMMA SolvedKeeps == ASSUME EngineInv, PersistSolvedLaneCookies PROVE EngineInv'
<1>1. /\ phase = "solved" /\ Classified(asked, "blank") /\ UNCHANGED solver /\ "blank" \in Shows
      /\ engine = "google" /\ ~ page.only
  BY DEF PersistSolvedLaneCookies, Shows, EngineInv, Phasing, CaptchaOnly
<1>2. QED
  BY <1>1, SettledUnchanged, ClassifiedKeeps

LEMMA NotSolvedKeeps == ASSUME EngineInv, NotSolved PROVE EngineInv'
<1>1. /\ phase = "solve" /\ Classified(asked, "captcha") /\ "captcha" \in Shows /\ engine = "google"
      /\ job' = NoJob /\ bill' = bill /\ (job.at = "failed" \/ page.gone)
  BY DEF NotSolved, Injectable, Shows, EngineInv, Phasing
<1>2. Settled
  <2>1. /\ bill \in Bills /\ SolveTimeout \in Nat
    BY SolverAssumption DEF EngineInv, TypeOK, SolverTypeOK, Bills
  <2>2. job' \in [at : JobStates, age : 0 .. SolveTimeout] /\ job'.at = "none"
    BY <1>1, <2>1 DEF NoJob, JobStates
  <2>3. bill.tokens = bill.used + bill.refused \/ page.gone
    BY <1>1, <2>1 DEF EngineInv, Paid, Bills
  <2>4. QED
    BY <1>1, <2>1, <2>2, <2>3 DEF Settled, SolverTypeOK, Bills
<1>3. QED
  BY <1>1, <1>2, ClassifiedKeeps

-----------------------------------------------------------------------------
(* Waiting and parsing keep it. *)

\* A page whose results have been found has not shown a captcha only.
LEMMA MatchedFacts ==
  ASSUME EngineInv, Matched
  PROVE  /\ phase = "wait" /\ kind # "raw" /\ ~ page.only /\ page.shows \in {"rows", "empty"}
         /\ (page.shows = "empty" => engine = "ecosia")
BY DEF EngineInv, Matched, Awaited, CaptchaOnly, Phasing

LEMMA WaitFailsKeeps == ASSUME EngineInv, WaitFails PROVE EngineInv'
<1>1. phase = "wait" /\ UNCHANGED solver /\ rows \in Seq(Row) /\ kind \in {"web", "image"} /\ query \in Queries
  <2>1. phase = "wait" /\ UNCHANGED solver
    BY DEF WaitFails
  <2>2. kind # "raw" /\ rows \in Seq(Row) /\ query \in Queries
    BY <2>1 DEF EngineInv, Phasing, TypeOK
  <2>3. QED
    BY <2>1, <2>2, QueryTypes
<1>2. CASE engine = "google"
  <2>1. GoTo("judge") \/ (~ alive /\ PageFailed("ctx"))
    BY <1>2 DEF WaitFails
  <2>2. CASE GoTo("judge")
    BY <1>1, <1>2, <2>2, MovesKeep
  <2>3. CASE ~ alive /\ PageFailed("ctx")
    <3>1. "ctx" \in Errors \ {"none"}
      BY DEF Errors
    <3>2. QED
      BY <1>1, <2>3, <3>1, SettledUnchanged, FailKeeps
  <2>4. QED
    BY <2>1, <2>2, <2>3
<1>3. CASE engine # "google" /\ Verdict = "none"
  <2>1. PageDone(TRUE, rows)
    BY <1>3 DEF WaitFails
  <2>2. Look # "captcha" /\ (engine = "ecosia" \/ (Look = "empty" /\ kind = "web"))
    BY <1>3 DEF Verdict
  <2>3. CASE ~ page.only
    <3>1. Evidence
      BY <1>1, <2>2, LookTypes DEF Evidence
    <3>2. QED
      BY <1>1, <2>1, <2>3, <3>1, PageDoneKeeps
  <2>4. CASE page.only
    <3>1. ~ alive /\ ~ (page.shows = "empty") /\ Look = "unreadable"
      BY <2>2, <2>4, LookTypes DEF EngineInv, CaptchaOnly, Look, Readable
    <3>2. Finish(rows)
      BY <2>1 DEF PageDone
    <3>3. Evidence
      BY <1>1, <2>2, <3>1 DEF Evidence
    <3>4. QED
      BY <1>1, <3>1, <3>2, <3>3, SettledUnchanged, FinishKeeps
  <2>5. QED
    BY <2>3, <2>4
<1>4. CASE engine # "google" /\ Verdict # "none"
  <2>1. PageFailed(Verdict) /\ Verdict \in Errors \ {"none"}
    BY <1>4 DEF WaitFails, Verdict, Errors
  <2>2. page.only /\ alive => Verdict = "captcha"
    BY LookTypes DEF Verdict
  <2>3. QED
    BY <1>1, <2>1, <2>2, SettledUnchanged, FailKeeps
<1>5. QED
  BY <1>2, <1>3, <1>4

LEMMA GoogleParsesKeeps == ASSUME EngineInv, GoogleParses PROVE EngineInv'
<1> DEFINE s == ParseGoogle(PageRows, Answers, query.start)
<1>1. web("google") /\ Matched /\ UNCHANGED solver /\ TypeOK
  BY DEF GoogleParses, EngineInv
<1>2. s \in Seq(Row)
  <2>1. query.start \in Int
    BY <1>1, QueryTypes DEF TypeOK
  <2>2. QED
    BY <1>1, <2>1, PageTypes, GoogleRows
<1>3. IF DeduplicateResults(s) = << >> THEN GoTo("check") ELSE Finish(s)
  BY DEF GoogleParses
<1> HIDE DEF s
<1>4. CASE DeduplicateResults(s) = << >>
  <2>1. GoTo("check") /\ engine = "google"
    BY <1>1, <1>3, <1>4 DEF web
  <2>2. QED
    BY <1>1, <2>1, MatchedFacts, MovesKeep
<1>5. CASE DeduplicateResults(s) # << >>
  <2>1. Finish(s)
    BY <1>3, <1>5
  <2>2. s # << >>
    <3>1. SUFFICES ASSUME Len(s) = 0 PROVE FALSE
      OBVIOUS
    <3>2. DeduplicateResults(s) \in Seq(Row) /\ Len(DeduplicateResults(s)) = 0
      BY <1>2, <3>1, DeduplicatedRows
    <3>3. QED
      BY <1>5, <3>2, EmptySeq
  <2>3. QED
    BY <1>1, <1>2, <2>1, <2>2, MatchedFacts, SettledUnchanged, FinishKeeps
<1>6. QED
  BY <1>4, <1>5

LEMMA GoogleAnswersExpireKeeps == ASSUME EngineInv, GoogleAnswersExpire PROVE EngineInv'
<1>1. phase = "wait" /\ ~ alive /\ PageFailed("ctx") /\ UNCHANGED solver /\ "ctx" \in Errors \ {"none"}
  BY DEF GoogleAnswersExpire, Errors
<1>2. QED
  BY <1>1, SettledUnchanged, FailKeeps

LEMMA BingParsesKeeps == ASSUME EngineInv, BingParses PROVE EngineInv'
<1>1. web("bing") /\ Matched /\ UNCHANGED solver /\ TypeOK /\ Finish(ParseBing(PageRows, query.start))
  BY DEF BingParses, EngineInv
<1>2. ParseBing(PageRows, query.start) \in Seq(Row)
  <2>1. query.start \in Int /\ query.start + 1 \in Int
    BY <1>1, QueryTypes DEF TypeOK
  <2>2. QED
    BY <1>1, <2>1, PageTypes, RankedRows DEF ParseBing, ParsePage
<1>3. Evidence
  BY <1>1 DEF Evidence, web
<1>4. QED
  BY <1>1, <1>2, <1>3, MatchedFacts, SettledUnchanged, FinishKeeps

LEMMA YandexParsesKeeps == ASSUME EngineInv, YandexParses PROVE EngineInv'
<1>1. web("yandex") /\ Matched /\ UNCHANGED solver /\ TypeOK
  BY DEF YandexParses, EngineInv
<1> DEFINE s == ParseYandex(PageRows, thisPage)
           skipped == IF pages = 1 THEN skipOrganicResults(s, ComputePagination(query.start).skip) ELSE s
           t == rows \o skipped
<1>2. PageDone(FALSE, t)
  BY DEF YandexParses
<1>3. s \in Seq(Row)
  <2>1. thisPage * PageSize \in Int /\ thisPage * PageSize + 1 \in Int
    <3>1. thisPage \in Int /\ PageSize \in Int
      BY <1>1, PageTypes, SerpRowsAssumption
    <3>2. QED
      BY <3>1
  <2>2. QED
    BY <1>1, <2>1, PageTypes, RankedRows DEF ParseYandex, ParsePage
<1> HIDE DEF s
<1>4. skipped \in Seq(Row)
  <2>1. ComputePagination(query.start).skip \in Int
    BY <1>1, QueryTypes, PaginationTypes DEF TypeOK
  <2>2. QED
    BY <1>3, <2>1, SkippedRows
<1> HIDE DEF skipped
<1>5. t \in Seq(Row)
  BY <1>1, <1>4, ConcatProperties DEF TypeOK
<1> HIDE DEF t
<1>6. Evidence
  BY <1>1 DEF Evidence, web
<1>7. QED
  BY <1>1, <1>2, <1>5, <1>6, MatchedFacts, PageDoneKeeps

LEMMA EcosiaParsesKeeps == ASSUME EngineInv, EcosiaParses PROVE EngineInv'
<1>1. web("ecosia") /\ Matched /\ UNCHANGED solver /\ TypeOK
  BY DEF EcosiaParses, EngineInv
<1> DEFINE parsed == ParseEcosia(PageRows, rows, startRank(query.start))
           t == rows \o parsed
<1>2. PageDone(page.layout = << >>, t)
  BY DEF EcosiaParses
<1>3. parsed \in Seq(Row)
  <2>1. startRank(query.start) \in Int
    BY <1>1, QueryTypes, PaginationTypes DEF TypeOK
  <2>2. rows \in Seq(Row)
    BY <1>1 DEF TypeOK
  <2>3. QED
    BY <1>1, <2>1, <2>2, PageTypes, EcosiaPage
<1> HIDE DEF parsed
<1>4. t \in Seq(Row)
  BY <1>1, <1>3, ConcatProperties DEF TypeOK
<1> HIDE DEF t
<1>5. Evidence
  BY <1>1 DEF Evidence, web
<1>6. QED
  BY <1>1, <1>2, <1>4, <1>5, MatchedFacts, PageDoneKeeps

LEMMA DDGParsesKeeps == ASSUME EngineInv, DDGParses PROVE EngineInv'
<1> DEFINE s == ParseDDG(PageRows)
<1>1. web("duckduckgo") /\ Matched /\ UNCHANGED solver /\ TypeOK
  BY DEF DDGParses, EngineInv
<1>2. s \in Seq(Row)
  BY <1>1, PageTypes, RankedRows DEF ParseDDG, ParsePage
<1>3. IF s = << >> THEN PageFailed("timeout")
      ELSE phase' = "more" /\ rows' = s /\ UNCHANGED <<query, asked, page, seen, pages, stale, alive, out>>
  BY DEF DDGParses
<1> HIDE DEF s
<1>4. CASE s = << >>
  <2>1. PageFailed("timeout") /\ "timeout" \in Errors \ {"none"}
    BY <1>3, <1>4 DEF Errors
  <2>2. QED
    BY <1>1, <2>1, MatchedFacts, SettledUnchanged, FailKeeps
<1>5. CASE s # << >>
  <2> USE DEF EngineInv
  <2>1. /\ phase' = "more" /\ rows' = s /\ query' = query /\ asked' = asked /\ page' = page /\ seen' = seen
        /\ pages' = pages /\ stale' = stale /\ alive' = alive /\ out' = out /\ job' = job /\ bill' = bill
    BY <1>1, <1>3, <1>5 DEF solver
  <2>2. engine' = engine /\ kind' = kind
    BY <2>1 DEF engine, kind
  <2>3. phase = "wait" /\ ~ page.only
    BY <1>1, MatchedFacts
  <2>4. TypeOK'
    BY <1>2, <2>1, <2>3 DEF TypeOK, SolverTypeOK, Phases
  <2>5. Phasing'
    BY <1>1, <1>5, <2>1, <2>2 DEF Phasing, web, image
  <2>6. Paid' /\ CaptchaOnly'
    BY <2>1, <2>3 DEF Paid, CaptchaOnly
  <2>7. QED
    BY <2>1, <2>4, <2>5, <2>6, GoingOnKeeps
<1>6. QED
  BY <1>4, <1>5

LEMMA DDGMoreKeeps == ASSUME EngineInv, DDGMore PROVE EngineInv'
<1> USE DEF EngineInv
<1>1. PICK l \in Layouts : /\ page' = [page EXCEPT !.layout = l]
                           /\ rows' = DeduplicateResults(rows \o ParseDDG(Rows(l, thisPage)))
  BY DEF DDGMore
<1>2. /\ phase = "more" /\ phase' = phase /\ query' = query /\ asked' = asked /\ seen' = seen
      /\ pages' = pages /\ stale' = stale /\ alive' = alive /\ out' = out /\ job' = job /\ bill' = bill
  BY DEF DDGMore, solver
<1>3. engine' = engine /\ kind' = kind
  BY <1>2 DEF engine, kind
<1>4. /\ page \in [open : BOOLEAN, gone : BOOLEAN, shows : Shows, layout : Layouts \cup {<< >>}, only : BOOLEAN]
      /\ rows \in Seq(Row) /\ rows # << >> /\ ~ page.only
  BY <1>2 DEF TypeOK, Phasing, CaptchaOnly
<1>5. /\ page' \in [open : BOOLEAN, gone : BOOLEAN, shows : Shows, layout : Layouts \cup {<< >>}, only : BOOLEAN]
      /\ page'.open = page.open /\ page'.gone = page.gone /\ ~ page'.only
  BY <1>1, <1>4
<1>6. rows' \in Seq(Row) /\ rows' # << >>
  <2> DEFINE more == ParseDDG(Rows(l, thisPage))
             t == rows \o more
  <2>1. more \in Seq(Row)
    BY PageTypes, RankedRows DEF ParseDDG, ParsePage
  <2> HIDE DEF more
  <2>2. t \in Seq(Row) /\ Len(t) = Len(rows) + Len(more) /\ Len(rows) > 0 /\ Len(more) >= 0
    BY <1>4, <2>1, ConcatProperties
  <2>3. rows' = DeduplicateResults(t)
    BY <1>1 DEF more
  <2> HIDE DEF t
  <2>4. DeduplicateResults(t) \in Seq(Row) /\ Len(DeduplicateResults(t)) # 0
    BY <2>2, DeduplicatedRows
  <2>5. QED
    BY <2>3, <2>4
<1>7. TypeOK'
  BY <1>2, <1>5, <1>6 DEF TypeOK, SolverTypeOK
<1>8. Phasing'
  BY <1>2, <1>3, <1>6 DEF Phasing, web, image
<1>9. Paid' /\ CaptchaOnly'
  BY <1>2, <1>5 DEF Paid, CaptchaOnly
<1>10. QED
  BY <1>2, <1>7, <1>8, <1>9, GoingOnKeeps

LEMMA DDGEndsKeeps == ASSUME EngineInv, DDGEnds PROVE EngineInv'
<1>1. phase = "more" /\ UNCHANGED solver /\ "ctx" \in Errors \ {"none"} /\ ~ page.only /\ rows \in Seq(Row) /\ rows # << >>
  BY DEF DDGEnds, Errors, EngineInv, TypeOK, Phasing, CaptchaOnly
<1>2. CASE Finish(rows)
  BY <1>1, <1>2, SettledUnchanged, FinishKeeps
<1>3. CASE PageFailed("ctx")
  BY <1>1, <1>3, SettledUnchanged, FailKeeps
<1>4. QED
  BY <1>2, <1>3 DEF DDGEnds

LEMMA BaiduPollsKeeps == ASSUME EngineInv, BaiduPolls PROVE EngineInv'
<1> DEFINE s == ParseBaidu(PageRows)
<1>1. web("baidu") /\ phase = "wait" /\ UNCHANGED solver /\ TypeOK
  BY DEF BaiduPolls, EngineInv
<1>2. CASE s # << >> /\ Look = "rows" /\ Finish(s)
  <2>1. s \in Seq(Row)
    BY <1>1, PageTypes, BaiduPage
  <2> HIDE DEF s
  <2>2. ~ (page.only /\ alive)
    BY <1>2, LookTypes
  <2>3. QED
    BY <1>1, <1>2, <2>1, <2>2, SettledUnchanged, FinishKeeps
<1>3. CASE \E err \in Errors \ {"none"} : PageFailed(err) /\ (page.only /\ alive => err = "captcha")
  BY <1>1, <1>3, SettledUnchanged, FailKeeps
<1>4. CASE seen' = TRUE /\ UNCHANGED <<query, phase, asked, page, pages, stale, rows, alive, out>>
  <2> USE DEF EngineInv
  <2>1. /\ phase' = phase /\ rows' = rows /\ query' = query /\ asked' = asked /\ page' = page /\ seen' = TRUE
        /\ pages' = pages /\ stale' = stale /\ alive' = alive /\ out' = out /\ job' = job /\ bill' = bill
    BY <1>1, <1>4 DEF solver
  <2>2. engine' = engine /\ kind' = kind
    BY <2>1 DEF engine, kind
  <2>3. TypeOK'
    BY <1>1, <2>1 DEF TypeOK, SolverTypeOK
  <2>4. Phasing'
    BY <2>1, <2>2 DEF Phasing, web, image
  <2>5. Paid' /\ CaptchaOnly'
    BY <2>1 DEF Paid, CaptchaOnly
  <2>6. QED
    BY <1>1, <2>1, <2>3, <2>4, <2>5, GoingOnKeeps
<1>5. \/ Look = "captcha" /\ PageFailed("captcha")
      \/ Look = "blocked" /\ PageFailed("timeout")
      \/ Look = "rows" /\ s # << >> /\ Finish(s)
      \/ seen' = TRUE /\ UNCHANGED <<query, phase, asked, page, pages, stale, rows, alive, out>>
      \/ ~ alive /\ PageFailed("ctx")
  <2>1. CASE Look = "captcha"
    BY <2>1 DEF BaiduPolls
  <2>2. CASE Look = "blocked"
    BY <2>2 DEF BaiduPolls
  <2>3. CASE Look = "rows"
    BY <2>3 DEF BaiduPolls, Look, Readable
  <2>4. CASE Look \notin {"captcha", "blocked", "rows"}
    BY <2>4 DEF BaiduPolls
  <2>5. QED
    BY <2>1, <2>2, <2>3, <2>4
<1>6. {"captcha", "timeout", "ctx"} \subseteq Errors \ {"none"} /\ (page.only /\ alive => Look = "captcha")
  BY LookTypes DEF Errors
<1>7. QED
  BY <1>2, <1>3, <1>4, <1>5, <1>6

LEMMA BaiduGivesUpKeeps == ASSUME EngineInv, BaiduGivesUp PROVE EngineInv'
<1> DEFINE err == IF seen \/ Look = "rows" THEN "parser" ELSE "timeout"
<1>1. phase = "wait" /\ UNCHANGED solver /\ PageFailed(err) /\ err \in Errors \ {"none"}
  BY DEF BaiduGivesUp, Errors
<1>2. ~ (page.only /\ alive)
  BY LookTypes DEF BaiduGivesUp
<1> HIDE DEF err
<1>3. QED
  BY <1>1, <1>2, SettledUnchanged, FailKeeps

-----------------------------------------------------------------------------
(* The image searches keep it. *)

LEMMA GoogleScrollsKeeps == ASSUME EngineInv, GoogleScrolls PROVE EngineInv'
<1>1. phase = "scroll" /\ UNCHANGED solver /\ image("google") /\ rows \in Seq(Row) /\ (page.only => pages = 0 /\ stale = 0)
  BY DEF GoogleScrolls, EngineInv, Phasing, TypeOK, CaptchaOnly
<1>2. CASE ~ alive
  <2>1. PageFailed("ctx") /\ "ctx" \in Errors \ {"none"}
    BY <1>2 DEF GoogleScrolls, Errors
  <2>2. QED
    BY <1>1, <1>2, <2>1, SettledUnchanged, FailKeeps
<1> DEFINE ends == pages = MaxPages \/ ~ShouldFetchResultPage(Len(rows), query.limit, pages) \/ stale = 2
<1>3. CASE alive /\ ends
  <2>1. Finish(rows)
    BY <1>3 DEF GoogleScrolls
  <2>2. ~ page.only
    <3>1. MaxPages # 0
      BY EngineAssumption
    <3>2. pages = 0 /\ stale = 0 => ~ ends
      BY <3>1 DEF ShouldFetchResultPage
    <3>3. QED
      BY <1>1, <1>3, <3>2
  <2>3. Evidence
    BY <1>1 DEF Evidence, image
  <2>4. QED
    BY <1>1, <2>1, <2>2, <2>3, SettledUnchanged, FinishKeeps
<1>4. CASE alive /\ ~ ends
  <2> USE DEF EngineInv
  <2>1. /\ phase' = "wait" /\ rows' = rows /\ query' = query /\ asked' = asked /\ page' = page /\ seen' = seen
        /\ pages' = pages /\ stale' = stale /\ alive' = alive /\ out' = out /\ job' = job /\ bill' = bill
    BY <1>1, <1>4 DEF GoogleScrolls, solver
  <2>2. engine' = engine /\ kind' = kind
    BY <2>1 DEF engine, kind
  <2>3. TypeOK'
    BY <1>1, <2>1 DEF TypeOK, SolverTypeOK, Phases
  <2>4. pages < MaxPages /\ stale < 2
    <3>1. MaxPages \in Nat /\ pages \in 0 .. MaxPages /\ stale \in 0 .. 2
      BY EngineAssumption DEF TypeOK
    <3>2. QED
      BY <1>4, <3>1
  <2>5. Phasing'
    BY <1>1, <2>1, <2>2, <2>4 DEF Phasing, web, image
  <2>6. Paid' /\ CaptchaOnly'
    BY <1>1, <2>1 DEF Paid, CaptchaOnly
  <2>7. QED
    BY <1>1, <2>1, <2>3, <2>5, <2>6, GoingOnKeeps
<1>5. QED
  BY <1>2, <1>3, <1>4

LEMMA GoogleParsesImagesKeeps == ASSUME EngineInv, GoogleParsesImages PROVE EngineInv'
<1> USE DEF EngineInv
<1> DEFINE found == Images(Len(rows))
           at == {i \in DOMAIN found : found[i].url \notin {rows[j].url : j \in DOMAIN rows}}
           taken == Taken(Kept(found, at))
           s == rows \o taken
<1>1. /\ image("google") /\ phase = "wait" /\ ~ page.only /\ kind # "raw"
  BY MatchedFacts DEF GoogleParsesImages
<1>2. /\ rows' = [i \in DOMAIN s |-> [s[i] EXCEPT !.rank = i]]
      /\ stale' = IF s = rows THEN stale + 1 ELSE 0
      /\ phase' = "scroll" /\ pages' = pages + 1
      /\ query' = query /\ asked' = asked /\ seen' = seen /\ alive' = alive /\ out' = out /\ job' = job /\ bill' = bill
  BY DEF GoogleParsesImages, solver
<1>3. PICK shows \in {"blank", "rows"}, l \in Layouts :
        page' = [page EXCEPT !.shows = shows, !.layout = IF shows = "rows" THEN l ELSE << >>]
  BY DEF GoogleParsesImages
<1>4. engine' = engine /\ kind' = kind
  BY <1>2 DEF engine, kind
<1>5. rows \in Seq(Row) /\ Len(rows) \in Int
  BY DEF TypeOK
<1>6. s \in Seq(Row)
  <2>1. found \in Seq(Row)
    BY <1>5, ImageSequence
  <2> HIDE DEF found
  <2>2. at \subseteq DOMAIN found
    OBVIOUS
  <2> HIDE DEF at
  <2>3. Kept(found, at) \in Seq(Row)
    BY <2>1, <2>2, KeptRows
  <2>4. taken \in Seq(Row)
    BY <2>3, TakenRows
  <2> HIDE DEF taken
  <2>5. QED
    BY <1>5, <2>4, ConcatProperties
<1> HIDE DEF s
<1>7. rows' \in Seq(Row)
  <2>1. Len(s) \in Nat /\ DOMAIN s = 1 .. Len(s) /\ \A i \in 1 .. Len(s) : s[i] \in Row
    BY <1>6
  <2>2. \A i \in 1 .. Len(s) : [s[i] EXCEPT !.rank = i] \in Row
    BY <2>1 DEF Row
  <2>3. [i \in DOMAIN s |-> [s[i] EXCEPT !.rank = i]] \in [1 .. Len(s) -> Row]
    BY <2>1, <2>2
  <2>4. QED
    BY <1>2, <2>1, <2>3, RowSequence
<1>8. pages' \in 0 .. MaxPages /\ stale' \in 0 .. 2
  <2>1. MaxPages \in Nat /\ pages \in 0 .. MaxPages /\ stale \in 0 .. 2 /\ pages < MaxPages /\ stale < 2
    BY <1>1, EngineAssumption DEF TypeOK, Phasing
  <2>2. QED
    BY <1>2, <2>1
<1>9. page \in [open : BOOLEAN, gone : BOOLEAN, shows : Shows, layout : Layouts \cup {<< >>}, only : BOOLEAN]
  BY DEF TypeOK
<1>10. /\ page' \in [open : BOOLEAN, gone : BOOLEAN, shows : Shows, layout : Layouts \cup {<< >>}, only : BOOLEAN]
       /\ page'.open = page.open /\ page'.only = page.only
  BY <1>3, <1>9 DEF Shows
<1>11. TypeOK'
  BY <1>1, <1>2, <1>7, <1>8, <1>10 DEF TypeOK, SolverTypeOK, Phases
<1>12. Phasing'
  BY <1>1, <1>2, <1>4 DEF Phasing, web, image
<1>13. Paid' /\ CaptchaOnly'
  BY <1>1, <1>2, <1>10 DEF Paid, CaptchaOnly
<1>14. QED
  BY <1>2, <1>11, <1>12, <1>13, GoingOnKeeps

LEMMA BingParsesImagesKeeps == ASSUME EngineInv, BingParsesImages PROVE EngineInv'
<1>1. image("bing") /\ Matched /\ UNCHANGED solver /\ TypeOK /\ Finish(Taken(Images(0))) /\ Evidence
  BY DEF BingParsesImages, EngineInv, Evidence, image
<1>2. Taken(Images(0)) \in Seq(Row)
  BY <1>1, ImageSequence, TakenRows
<1>3. QED
  BY <1>1, <1>2, MatchedFacts, SettledUnchanged, FinishKeeps

LEMMA DDGParsesImagesKeeps == ASSUME EngineInv, DDGParsesImages PROVE EngineInv'
<1>1. Matched /\ UNCHANGED solver /\ TypeOK /\ Finish(Images(0)) /\ Evidence
  BY DEF DDGParsesImages, EngineInv, Evidence, image
<1>2. Images(0) \in Seq(Row)
  BY <1>1, ImageSequence
<1>3. QED
  BY <1>1, <1>2, MatchedFacts, SettledUnchanged, FinishKeeps

LEMMA EcosiaParsesImagesKeeps == ASSUME EngineInv, EcosiaParsesImages PROVE EngineInv'
<1> DEFINE s == rows \o Taken(Images(Len(rows)))
<1>1. Matched /\ UNCHANGED solver /\ TypeOK /\ PageDone(FALSE, s) /\ Evidence
  BY DEF EcosiaParsesImages, EngineInv, Evidence, image
<1>2. s \in Seq(Row)
  <2>1. rows \in Seq(Row) /\ Len(rows) \in Int
    BY <1>1 DEF TypeOK
  <2>2. Taken(Images(Len(rows))) \in Seq(Row)
    BY <1>1, <2>1, ImageSequence, TakenRows
  <2>3. QED
    BY <2>1, <2>2, ConcatProperties
<1> HIDE DEF s
<1>3. QED
  BY <1>1, <1>2, MatchedFacts, PageDoneKeeps

\* The first rank of a page of images.
LEMMA PageRank == ASSUME TypeOK PROVE (pages - 1) * PageSize \in Int
<1>1. pages \in Int /\ PageSize \in Int
  BY PageTypes, SerpRowsAssumption
<1>2. QED
  BY <1>1

LEMMA BaiduParsesImagesKeeps == ASSUME EngineInv, BaiduParsesImages PROVE EngineInv'
<1> DEFINE taken == Taken(Images((pages - 1) * PageSize))
           s == rows \o taken
<1>1. Matched /\ UNCHANGED solver /\ TypeOK /\ Evidence /\ rows \in Seq(Row)
  BY DEF BaiduParsesImages, EngineInv, Evidence, image, TypeOK
<1>2. \/ PageDone(Len(s) >= query.limit, s)
      \/ PageDone(TRUE, rows)
      \/ PageFailed("parser")
  BY DEF BaiduParsesImages
<1>3. s \in Seq(Row)
  <2>1. taken \in Seq(Row)
    BY <1>1, PageRank, ImageSequence, TakenRows
  <2> HIDE DEF taken
  <2>2. QED
    BY <1>1, <2>1, ConcatProperties
<1> HIDE DEF s
<1>4. CASE PageDone(Len(s) >= query.limit, s)
  BY <1>1, <1>3, <1>4, MatchedFacts, PageDoneKeeps
<1>5. CASE PageDone(TRUE, rows)
  BY <1>1, <1>5, MatchedFacts, PageDoneKeeps
<1>6. CASE PageFailed("parser")
  <2>1. "parser" \in Errors \ {"none"}
    BY DEF Errors
  <2>2. QED
    BY <1>1, <1>6, <2>1, MatchedFacts, SettledUnchanged, FailKeeps
<1>7. QED
  BY <1>2, <1>4, <1>5, <1>6

LEMMA YandexParsesImagesKeeps == ASSUME EngineInv, YandexParsesImages PROVE EngineInv'
<1> DEFINE s == Images((pages - 1) * PageSize)
<1>1. image("yandex") /\ Matched /\ UNCHANGED solver /\ TypeOK /\ Evidence /\ rows \in Seq(Row)
  BY DEF YandexParsesImages, EngineInv, Evidence, image, TypeOK
<1>2. phase = "wait" /\ ~ page.only
  BY <1>1, MatchedFacts
<1>3. PICK chosen \in SUBSET DOMAIN s :
        LET t == rows \o Kept(s, chosen) IN
          IF t = rows \/ Len(t) >= query.limit \/ ~ShouldFetchResultPage(Len(t), query.limit, pages)
          THEN Finish(t)
          ELSE /\ phase' = "start" /\ Close /\ rows' = t
               /\ UNCHANGED <<query, asked, seen, pages, stale, alive, out>>
  BY DEF YandexParsesImages
<1> DEFINE t == rows \o Kept(s, chosen)
<1>4. Finish(t) \/ (phase' = "start" /\ Close /\ rows' = t /\ UNCHANGED <<query, asked, seen, pages, stale, alive, out>>)
  BY <1>3
<1>5. t \in Seq(Row)
  <2>1. s \in Seq(Row)
    BY <1>1, PageRank, ImageSequence
  <2> HIDE DEF s
  <2>2. Kept(s, chosen) \in Seq(Row)
    BY <2>1, KeptRows
  <2>3. QED
    BY <1>1, <2>2, ConcatProperties
<1> HIDE DEF t
<1>6. CASE Finish(t)
  BY <1>1, <1>2, <1>5, <1>6, SettledUnchanged, FinishKeeps
<1>7. CASE phase' = "start" /\ Close /\ rows' = t /\ UNCHANGED <<query, asked, seen, pages, stale, alive, out>>
  <2> USE DEF EngineInv
  <2>1. /\ page \in [open : BOOLEAN, gone : BOOLEAN, shows : Shows, layout : Layouts \cup {<< >>}, only : BOOLEAN]
    BY DEF TypeOK
  <2>2. /\ page' \in [open : BOOLEAN, gone : BOOLEAN, shows : Shows, layout : Layouts \cup {<< >>}, only : BOOLEAN]
        /\ page'.open = FALSE /\ page'.gone = page.gone /\ page'.shows = page.shows /\ page'.only = page.only
    BY <1>7, <2>1 DEF Close
  <2>3. query' = query /\ engine' = engine /\ kind' = kind /\ job' = job /\ bill' = bill
    BY <1>1, <1>7 DEF engine, kind, solver
  <2>4. TypeOK'
    BY <1>5, <1>7, <2>2, <2>3 DEF TypeOK, SolverTypeOK, Phases
  <2>5. Phasing'
    BY <1>1, <1>7, <2>3 DEF Phasing, web, image
  <2>6. Paid' /\ CaptchaOnly'
    BY <1>2, <1>7, <2>2, <2>3 DEF Paid, CaptchaOnly
  <2>7. QED
    BY <1>7, <2>4, <2>5, <2>6, GoingOnKeeps
<1>8. QED
  BY <1>4, <1>6, <1>7

-----------------------------------------------------------------------------
(* The raw searches keep it. *)

LEMMA RawFailsKeeps == ASSUME EngineInv, RawFails PROVE EngineInv'
<1>1. PICK err \in {"network", "blocked", "ratelimited", "parser", "ctx"} : Return(err, << >>)
  BY DEF RawFails
<1>2. phase = "start" /\ rows' = rows /\ UNCHANGED solver /\ err \in Errors /\ err # "none" /\ kind = "raw"
  BY DEF RawFails, Errors
<1>3. rows' \in Seq(Row) /\ << >> \in Seq(Row) /\ ~ page.only /\ ~ web("yandex")
  BY <1>2 DEF EngineInv, TypeOK, CaptchaOnly, web
<1>4. QED
  BY <1>1, <1>2, <1>3, SettledUnchanged, EndKeeps

\* The rows of a document, and none only as far as Yandex skips them.
LEMMA RawRowTypes ==
  ASSUME TypeOK, kind = "raw", NEW layout \in Seq(BlockKinds)
  PROVE  /\ RawRows(layout) \in Seq(Row)
         /\ documentRows(layout) # << >> /\ RawRows(layout) = << >> => engine = "yandex" /\ query.start > 0
<1>1. engine \in RawEngines /\ query.start \in Nat
  BY EngineAssumption, QueryTypes DEF TypeOK, QueryOK, engine, kind
<1> DEFINE s == documentRows(layout)
           start == query.start
<1>2. s \in Seq(Row) /\ (s # << >> => Len(s) > 0) /\ start \in Nat
  <2>1. firstPage(query.start) \in Int
    BY <1>1, PaginationTypes
  <2>2. s \in Seq(Row)
    BY <2>1, PageOfRows DEF documentRows
  <2> HIDE DEF s
  <2>3. Len(s) \in Nat /\ (Len(s) = 0 => s = << >>)
    BY <2>2
  <2>4. QED
    BY <1>1, <2>2, <2>3
<1>3. RawRows(layout) =
        CASE engine = "google" -> RawGoogle(s, start) [] engine = "baidu" -> RawBaidu(s, start)
          [] engine = "yandex" -> RawYandex(s, start) [] engine = "ecosia" -> RawEcosia(s, start)
  BY DEF RawRows
<1> HIDE DEF s, start
<1>4. /\ RawGoogle(s, start) \in Seq(Row) /\ (Len(s) > 0 => Len(RawGoogle(s, start)) > 0)
      /\ RawBaidu(s, start) \in Seq(Row) /\ (Len(s) > 0 => Len(RawBaidu(s, start)) > 0)
      /\ RawYandex(s, start) \in Seq(Row) /\ (Len(s) > 0 /\ start = 0 => Len(RawYandex(s, start)) > 0)
      /\ RawEcosia(s, start) \in Seq(Row) /\ (Len(s) > 0 => Len(RawEcosia(s, start)) > 0)
  BY <1>2, RawSearches
<1>5. CASE engine = "yandex"
  <2>1. RawRows(layout) = RawYandex(s, start)
    BY <1>3, <1>5
  <2>2. s # << >> /\ RawYandex(s, start) = << >> => start # 0
    BY <1>2, <1>4
  <2>3. QED
    BY <1>2, <1>4, <1>5, <2>1, <2>2 DEF s, start
<1>6. CASE engine # "yandex"
  <2>1. RawRows(layout) \in {RawGoogle(s, start), RawBaidu(s, start), RawEcosia(s, start)}
    BY <1>1, <1>3, <1>6 DEF RawEngines
  <2>2. QED
    BY <1>2, <1>4, <2>1 DEF s
<1>7. QED
  BY <1>5, <1>6

LEMMA RawAnswersKeeps == ASSUME EngineInv, RawAnswers PROVE EngineInv'
<1> USE DEF EngineInv
<1>1. PICK s \in Shows, l \in Layouts :
        LET layout == IF s = "rows" THEN l ELSE << >>
            err == RawVerdict(s, layout)
            found == IF err = "none" THEN RawRows(layout) ELSE << >>
        IN  /\ phase' = "done" /\ out' = [err |-> err, rows |-> found] /\ rows' = found
            /\ page' = [Opened(s, l) EXCEPT !.open = FALSE]
  BY DEF RawAnswers
<1> DEFINE layout == IF s = "rows" THEN l ELSE << >>
           err == RawVerdict(s, layout)
           found == IF err = "none" THEN RawRows(layout) ELSE << >>
<1>2. /\ phase' = "done" /\ out' = [err |-> err, rows |-> found] /\ rows' = found
      /\ page' = [Opened(s, l) EXCEPT !.open = FALSE]
  BY <1>1
<1>3. /\ phase = "start" /\ kind = "raw" /\ alive /\ query' = query /\ asked' = asked /\ seen' = seen
      /\ pages' = pages /\ stale' = stale /\ alive' = alive /\ job' = job /\ bill' = bill
  BY DEF RawAnswers, solver
<1>4. engine' = engine /\ kind' = kind
  BY <1>3 DEF engine, kind
<1>5. /\ page' \in [open : BOOLEAN, gone : BOOLEAN, shows : Shows, layout : Layouts \cup {<< >>}, only : BOOLEAN]
      /\ ~ page'.open /\ ~ page'.gone /\ page'.shows = s /\ (page'.only => s = "captcha")
  BY <1>2 DEF Opened
<1>6. layout \in Seq(BlockKinds)
  <2>1. << >> \in Seq(BlockKinds) /\ Layouts \subseteq Seq(BlockKinds)
    BY EngineAssumption
  <2>2. QED
    BY <2>1
<1>7. documentRows(layout) \in Seq(Row)
  <2>1. query.start \in Nat
    BY QueryTypes DEF TypeOK
  <2> HIDE DEF layout
  <2>2. QED
    BY <1>6, <2>1, PaginationTypes, PageOfRows DEF documentRows
<1> HIDE DEF layout
<1>8. /\ err \in Errors /\ (s = "captcha" => err = "captcha")
      /\ (err = "none" => s = "empty" \/ documentRows(layout) # << >>)
  BY DEF RawVerdict, Errors, Shows
<1>9. found \in Seq(Row) /\ (documentRows(layout) # << >> /\ err = "none" /\ found = << >> =>
                              engine = "yandex" /\ query.start > 0)
  <2>1. << >> \in Seq(Row)
    OBVIOUS
  <2>2. QED
    BY <1>3, <1>6, <2>1, RawRowTypes
<1> HIDE DEF err
<1>10. out' \in [err : Errors, rows : Seq(Row)] /\ out'.err = err /\ out'.rows = found /\ rows' = found
  BY <1>2, <1>8, <1>9
<1> HIDE DEF found
<1>11. TypeOK'
  BY <1>2, <1>3, <1>5, <1>9, <1>10 DEF TypeOK, SolverTypeOK, Phases
<1>12. Phasing'
  BY <1>2, <1>3, <1>4 DEF Phasing, web, image
<1>13. Paid'
  BY <1>2, <1>3 DEF Paid
<1>14. CaptchaOnly'
  BY <1>2, <1>5 DEF CaptchaOnly
<1>15. BlockReported'
  BY <1>5, <1>8, <1>10 DEF BlockReported
<1>16. EmptyIsEvidenced'
  BY <1>3, <1>4, <1>5, <1>8, <1>9, <1>10 DEF EmptyIsEvidenced
<1>17. CollectedKept'
  BY <1>3, <1>4 DEF CollectedKept, web
<1>18. QED
  BY <1>11, <1>12, <1>13, <1>14, <1>15, <1>16, <1>17

-----------------------------------------------------------------------------
(* Every step keeps it. *)

LEMMA StepKeeps == ASSUME EngineInv, Step PROVE EngineInv'
<1>1. CASE NavigateFails \/ Navigate \/ LoadFails \/ Sleep \/ BingLooks \/ GoogleLooks \/ CannotSolve
  BY <1>1, NavigateFailsKeeps, NavigateKeeps, LoadFailsKeeps, SleepKeeps, BingLooksKeeps, GoogleLooksKeeps,
     CannotSolveKeeps
<1>2. CASE Solving \/ Inject \/ InjectFails \/ PersistSolvedLaneCookies \/ NotSolved \/ WaitFails
  BY <1>2, SolvingKeeps, InjectKeeps, InjectFailsKeeps, SolvedKeeps, NotSolvedKeeps, WaitFailsKeeps
<1>3. CASE GoogleParses \/ GoogleAnswersExpire \/ BingParses \/ YandexParses \/ EcosiaParses
  BY <1>3, GoogleParsesKeeps, GoogleAnswersExpireKeeps, BingParsesKeeps, YandexParsesKeeps, EcosiaParsesKeeps
<1>4. CASE DDGParses \/ DDGMore \/ DDGEnds \/ BaiduPolls \/ BaiduGivesUp
  BY <1>4, DDGParsesKeeps, DDGMoreKeeps, DDGEndsKeeps, BaiduPollsKeeps, BaiduGivesUpKeeps
<1>5. CASE GoogleScrolls \/ GoogleParsesImages \/ BingParsesImages \/ DDGParsesImages \/ EcosiaParsesImages
           \/ BaiduParsesImages \/ YandexParsesImages
  BY <1>5, GoogleScrollsKeeps, GoogleParsesImagesKeeps, BingParsesImagesKeeps, DDGParsesImagesKeeps,
     EcosiaParsesImagesKeeps, BaiduParsesImagesKeeps, YandexParsesImagesKeeps
<1>6. CASE RawFails \/ RawAnswers
  BY <1>6, RawFailsKeeps, RawAnswersKeeps
<1>7. QED
  BY <1>1, <1>2, <1>3, <1>4, <1>5, <1>6 DEF Step

\* Every step of the driver and of its environment, and every stutter.
LEMMA NextKeeps == ASSUME EngineInv, [Next]_vars PROVE EngineInv'
<1>1. CASE Step
  BY <1>1, StepKeeps
<1>2. CASE Expire \/ Turn \/ PageDies
  BY <1>2, ExpireKeeps, TurnKeeps, PageDiesKeeps
<1>3. CASE UNCHANGED vars
  BY <1>3 DEF vars, EngineInv, TypeOK, SolverTypeOK, Phasing, Paid, CaptchaOnly, BlockReported, EmptyIsEvidenced,
              CollectedKept, NoneBehindStart, web, image, engine, kind
<1>4. QED
  BY <1>1, <1>2, <1>3 DEF Next, Finishes

\* What the driver knows in each of its phases, the account of the tokens, and
\* what the ends of a call owe to its caller, hold together in every state of
\* every call of every engine.
THEOREM EngineInductive == Spec => []EngineInv
<1>1. Init => EngineInv
  BY InitEngineInv
<1>2. EngineInv /\ [Next]_vars => EngineInv'
  BY NextKeeps
<1>3. QED
  BY <1>1, <1>2, PTL DEF Spec

\* Rows are rows, with ranks and absolute ranks, whatever parsers, filters, sorts
\* and cuts they went through; a page is open exactly while a driver works on it.
THEOREM EngineTypeCorrect == Spec => []TypeOK
<1>1. EngineInv => TypeOK
  BY DEF EngineInv
<1>2. QED
  BY <1>1, EngineInductive, PTL

\* A page that could be read and has shown a captcha only ends its call with
\* ErrCaptcha, in every engine, or Yandex's with the rows of the pages before.
THEOREM BlocksAreReported == Spec => []BlockReported
<1>1. EngineInv => BlockReported
  BY DEF EngineInv
<1>2. QED
  BY <1>1, EngineInductive, PTL

\* The engines that tell an empty page from an unreadable one do not answer that
\* there is nothing unless the page said so, or, DuckDuckGo and the raw Yandex,
\* unless the organic rows are all before the start: no other cut, offset or
\* removal of duplicates loses the last row of an answer.
THEOREM EmptinessIsEvidenced == Spec => []EmptyIsEvidenced
<1>1. EngineInv => EmptyIsEvidenced
  BY DEF EngineInv
<1>2. QED
  BY <1>1, EngineInductive, PTL

\* Yandex's organic rows survive the failure of a later page, the duplicates'
\* removal, the sort and the limit.
THEOREM CollectedRowsSurvive == Spec => []CollectedKept
<1>1. EngineInv => CollectedKept
  BY DEF EngineInv
<1>2. QED
  BY <1>1, EngineInductive, PTL

\* Every token that was paid for is tried on its page, if the page still exists:
\* it ends up used, or refused by the page.
THEOREM PaidTokensAreUsed == Spec => []PaidTokenUsed
<1>1. EngineInv => PaidTokenUsed
  <2>1. SUFFICES ASSUME EngineInv, phase = "done", ~ page.gone PROVE bill.tokens = bill.used + bill.refused
    BY DEF PaidTokenUsed
  <2>2. bill.tokens \in Nat /\ bill.used \in Nat /\ bill.refused \in Nat
    BY <2>1 DEF EngineInv, TypeOK, SolverTypeOK
  <2>3. job.at = "none" /\ bill.tokens = bill.used + bill.refused + (IF job.at = "token" THEN 1 ELSE 0)
    BY <2>1 DEF EngineInv, Paid
  <2>4. QED
    BY <2>2, <2>3
<1>2. QED
  BY <1>1, EngineInductive, PTL

-----------------------------------------------------------------------------
(* Extraction: the inductive invariant. *)

\* Results from the next one on are untouched, results before it are not unless
\* they have no URL.
Touched ==
  /\ \A i \in Results : i >= next => fetch[i] = Idle /\ got[i] = Unanswered
  /\ \A i \in Results : i < next /\ HasURL(i) => fetch[i].pass # "none"
  /\ \A i \in Results : ~ HasURL(i) => fetch[i].pass = "none"
  /\ \A i \in Results : fetch[i].pass = "none" => got[i] = Unanswered

\* What the first passes extract is only known when they are over.
PassesFollow ==
  \A i \in Results :
    /\ fetch[i].pass \notin {"rendered", "over"} => fetch[i].raw = Failed
    /\ fetch[i].pass \in {"llms-full", "llms"} => llms
    /\ Over(i) => got[i] # Unanswered

\* The loop over the top; then the top is over, and a fill-in runs only while
\* successes are missing.
Phased ==
  /\ stage = "spawning" => next <= limit + 1
  /\ stage # "spawning" =>
       /\ next > limit
       /\ \A j \in 1 .. limit : HasURL(j) => Over(j)
       /\ Running # {} => Successes < limit
       /\ \A i \in Results : i > limit /\ fetch[i].pass # "none" => \E j \in 1 .. limit : got[j] <= 0
  /\ stage = "done" => Running = {}

Elapsed == given - left
Wave(i) == (i - 1) \div slots
Rest(i) == IF fetch[i].pass = "raw" THEN 2 * Timeout - fetch[i].age ELSE Timeout - fetch[i].age

\* The waves of BatchTimeout: a result of the top has started when the waves
\* before its own had their time, and it ends within its own. So it is not cut
\* short, if the deadline is not before the end of the last of them.
InTime ==
  ~llms =>
    /\ stage = "spawning" => 
         /\ next <= limit => Elapsed <= 2 * Timeout * Wave(next)
         /\ \A i \in Running : Elapsed + Rest(i) <= 2 * Timeout * (Wave(i) + 1)
    /\ Ample => \A i \in cut : i > limit

ExtractInv == ExtractTypeOK /\ Touched /\ PassesFollow /\ Phased /\ Successes <= limit /\ RenderNeverRegresses /\ InTime

-----------------------------------------------------------------------------
\* The smaller of two numbers.
LEMMA MinOfTwo == \A a, b \in Int : Min({a, b}) = IF a <= b THEN a ELSE b
BY DEF Min
\* The larger of two numbers.
LEMMA MaxOfTwo == \A a, b \in Int : Max({a, b}) = IF a <= b THEN b ELSE a
BY DEF Max

\* The results that are extracted are among those there are.
LEMMA CandidateRange ==
  ASSUME limit \in 0 .. N
  PROVE  CandidateLimit \in limit .. N
<1>1. N \in Nat /\ limit \in Nat /\ limit <= N
  BY ExtractionAssumption
<1>2. Min({limit + 3, N}) = IF limit + 3 <= N THEN limit + 3 ELSE N
  BY <1>1, MinOfTwo
<1>3. QED
  BY <1>1, <1>2 DEF CandidateLimit

\* A batch's timeout is a number of ticks.
LEMMA BatchTimeoutType ==
  ASSUME NEW count \in Nat, slots \in MaxConcurrents
  PROVE  BatchTimeout(count) \in Nat
<1>1. Timeout \in Nat /\ slots \in Nat \ {0}
  BY ExtractionAssumption
<1>2. (count + slots - 1) \div slots \in Nat
  BY <1>1
<1> DEFINE waves == (count + slots - 1) \div slots
<1> HIDE DEF waves
<1>3. waves \in Nat => waves * 2 * Timeout \in Nat
  BY <1>1
<1>4. QED
  BY <1>1, <1>2, <1>3 DEF BatchTimeout, waves

\* The invariant of the extraction holds when a request starts.
LEMMA InitExtractInv == ExtractInit => ExtractInv
<1> SUFFICES ASSUME ExtractInit PROVE ExtractInv
  OBVIOUS
<1> USE DEF ExtractInit
<1>1. N \in Nat /\ Timeout \in Nat /\ slots \in Nat \ {0}
  BY ExtractionAssumption
<1>2. limit \in 0 .. N /\ (handler = "batch" => limit = N) /\ limit >= 0
  <2>1. CASE handler = "enrich"
    <3>1. PICK n \in ExtractTops : limit = Min({clampExtractTop(n), N})
      BY <2>1
    <3>2. n \in Int
      BY ExtractionAssumption
    <3>3. Min({n, maxExtractTop}) = IF n <= maxExtractTop THEN n ELSE maxExtractTop
      BY <3>2, MinOfTwo DEF maxExtractTop
    <3>4. clampExtractTop(n) \in Nat
      <4>1. Min({n, maxExtractTop}) \in Int
        BY <3>2, <3>3 DEF maxExtractTop
      <4>2. \A a \in Int : Max({1, a}) \in Nat
        BY MaxOfTwo
      <4>3. QED
        BY <4>1, <4>2 DEF clampExtractTop
    <3>5. limit = IF clampExtractTop(n) <= N THEN clampExtractTop(n) ELSE N
      BY <1>1, <3>1, <3>4, MinOfTwo
    <3>6. QED
      BY <1>1, <2>1, <3>4, <3>5
  <2>2. CASE handler # "enrich"
    BY <1>1, <2>2
  <2>3. QED
    BY <2>1, <2>2
<1>3. Running = {} /\ Successes = 0
  <2>1. {i \in Results : got[i] > 0} = {}
    BY DEF Unanswered
  <2>2. QED
    BY <2>1, FS_EmptySet DEF Running, Idle, Successes
<1>4. given \in Nat /\ left = given
  <2>1. BatchTimeout(CandidateLimit) \in Nat
    BY <1>1, <1>2, CandidateRange, BatchTimeoutType
  <2>2. QED
    BY <2>1 DEF Deadlines
<1>5. ExtractTypeOK
  <2>1. Cardinality(Running) = 0
    BY <1>3, FS_EmptySet
  <2>2. Idle \in [pass : Passes, age : 0 .. Timeout, raw : Lengths \cup {Failed}]
    BY <1>1 DEF Idle, Passes, Lengths, Failed
  <2>3. next \in 1 .. N + 1 /\ 0 <= slots
    BY <1>1
  <2>4. llms \in BOOLEAN /\ stage = "spawning"
    OBVIOUS
  <2>5. fetch \in [Results -> [pass : Passes, age : 0 .. Timeout, raw : Lengths \cup {Failed}]]
    BY <2>2
  <2>6. got \in [Results -> Lengths \cup {Failed, Unanswered}] /\ cut \subseteq Results
    OBVIOUS
  <2>7. QED
    BY <1>2, <1>4, <2>1, <2>3, <2>4, <2>5, <2>6 DEF ExtractTypeOK
<1>6. Touched /\ PassesFollow /\ RenderNeverRegresses
  BY <1>1 DEF Touched, PassesFollow, RenderNeverRegresses, Idle, Over, Results
<1>7. Phased /\ Successes <= limit
  BY <1>1, <1>2, <1>3 DEF Phased
<1>8. InTime
  <2>1. Wave(1) = 0 /\ Elapsed = 0
    BY <1>1, <1>4 DEF Wave, Elapsed
  <2>2. QED
    BY <1>1, <1>3, <2>1 DEF InTime
<1>9. QED
  BY <1>5, <1>6, <1>7, <1>8 DEF ExtractInv

-----------------------------------------------------------------------------
\* What is counted is finite.
LEMMA Finiteness ==
  /\ IsFiniteSet(Results) /\ IsFiniteSet(Running)
  /\ Cardinality(Running) \in Nat /\ Successes \in Nat
<1>1. IsFiniteSet(Results)
  BY ExtractionAssumption, FS_Interval DEF Results
<1>2. IsFiniteSet({i \in Results : got[i] > 0}) /\ IsFiniteSet(Running)
  BY <1>1, FS_Subset DEF Running
<1>3. QED
  BY <1>1, <1>2, FS_CardinalityType DEF Successes

\* One result more has been given something: at most one success more.
LEMMA SuccessesGrow ==
  ASSUME NEW i \in Results, \A j \in Results \ {i} : got'[j] = got[j]
  PROVE  /\ Successes' \in Nat /\ Successes' <= Successes + 1
         /\ got'[i] = got[i] => Successes' = Successes
         /\ ~ (got'[i] > 0) => Successes' <= Successes
<1> DEFINE S == {j \in Results : got[j] > 0}
           T == {j \in Results : got'[j] > 0}
<1>1. IsFiniteSet(S) /\ IsFiniteSet(T)
  BY Finiteness, FS_Subset
<1>2. T \subseteq S \cup {i} /\ (got'[i] = got[i] => T = S) /\ (~ (got'[i] > 0) => T \subseteq S)
  OBVIOUS
<1>3. Successes = Cardinality(S) /\ Successes' = Cardinality(T)
  BY DEF Successes
<1> HIDE DEF S, T
<1>4. IsFiniteSet(S \cup {i}) /\ Cardinality(S \cup {i}) <= Cardinality(S) + 1
  <2>1. Cardinality(S) \in Nat
    BY <1>1, FS_CardinalityType
  <2>2. Cardinality(S \cup {i}) = IF i \in S THEN Cardinality(S) ELSE Cardinality(S) + 1
    BY <1>1, FS_AddElement
  <2>3. IsFiniteSet(S \cup {i})
    BY <1>1, FS_AddElement
  <2>4. QED
    BY <2>1, <2>2, <2>3
<1>5. Cardinality(T) <= Cardinality(S \cup {i}) /\ Cardinality(S) \in Nat /\ Cardinality(T) \in Nat
      /\ Cardinality(S \cup {i}) \in Nat
  BY <1>1, <1>2, <1>4, FS_Subset, FS_CardinalityType
<1>6. ~ (got'[i] > 0) => Cardinality(T) <= Cardinality(S)
  BY <1>1, <1>2, FS_Subset
<1>7. QED
  BY <1>2, <1>3, <1>4, <1>5, <1>6

\* What the end of a pass does: the result is answered, or another pass of it
\* begins; and no other result is touched.
LEMMA PassEnds ==
  ASSUME ExtractInv, NEW i \in Results, LLMSTxt(i) \/ ExtractFast(i) \/ ExtractRendered(i)
  PROVE  /\ i \in Running /\ UNCHANGED <<config, next, stage, left>> /\ CutShort(i)
         /\ \/ \E length \in Lengths \cup {Failed} : Answer(i, length) /\ length >= fetch[i].raw
            \/ \E pass \in {"llms", "raw", "rendered"}, raw \in Lengths \cup {Failed} :
                 /\ Escalate(i, pass, raw)
                 /\ pass # "rendered" => raw = Failed /\ llms
                 /\ fetch[i].pass # "rendered"
<1> USE DEF ExtractInv, ExtractTypeOK, PassesFollow, Running, Lengths, Failed
<1>1. fetch[i].raw \in Lengths \cup {Failed} /\ Outcomes(i) \subseteq Lengths \cup {Failed}
  BY DEF Outcomes
<1>2. ASSUME LLMSTxt(i) PROVE i \in Running /\ UNCHANGED <<config, next, stage, left>> /\ CutShort(i)
  BY <1>2 DEF LLMSTxt
<1>3. ASSUME LLMSTxt(i), Answer(i, 2)
      PROVE  \E length \in Lengths \cup {Failed} : Answer(i, length) /\ length >= fetch[i].raw
  BY <1>1, <1>3
<1>4. ASSUME LLMSTxt(i), ~ Answer(i, 2)
      PROVE  \E pass \in {"llms", "raw", "rendered"}, raw \in Lengths \cup {Failed} :
               Escalate(i, pass, raw) /\ (pass # "rendered" => raw = Failed /\ llms) /\ fetch[i].pass # "rendered"
  <2> DEFINE p == IF fetch[i].pass = "llms-full" THEN "llms" ELSE PagePass
  <2>1. Escalate(i, p, Failed) /\ llms /\ fetch[i].pass # "rendered"
    BY <1>4 DEF LLMSTxt
  <2>2. p \in {"llms", "raw", "rendered"}
    BY DEF PagePass
  <2> HIDE DEF p
  <2>3. QED
    BY <2>1, <2>2
<1>5. ASSUME ExtractFast(i) PROVE i \in Running /\ UNCHANGED <<config, next, stage, left>> /\ CutShort(i)
  BY <1>5 DEF ExtractFast
<1>6. ASSUME ExtractFast(i)
      PROVE  \/ \E length \in Lengths \cup {Failed} : Answer(i, length) /\ length >= fetch[i].raw
             \/ \E raw \in Lengths \cup {Failed} : Escalate(i, "rendered", raw) /\ fetch[i].pass # "rendered"
  <2>1. PICK raw \in Outcomes(i) : Answer(i, raw) \/ Escalate(i, "rendered", raw)
    BY <1>6 DEF ExtractFast
  <2>2. raw \in Lengths \cup {Failed} /\ fetch[i].raw = Failed /\ raw >= Failed /\ fetch[i].pass # "rendered"
    BY <1>1, <1>6, <2>1 DEF ExtractFast
  <2>3. QED
    BY <2>1, <2>2
<1>7. ASSUME ExtractRendered(i) PROVE i \in Running /\ UNCHANGED <<config, next, stage, left>> /\ CutShort(i)
  BY <1>7 DEF ExtractRendered
<1>8. ASSUME ExtractRendered(i)
      PROVE  \E length \in Lengths \cup {Failed} : Answer(i, length) /\ length >= fetch[i].raw
  <2>1. PICK rendered \in Outcomes(i) : Answer(i, Longer(fetch[i].raw, rendered))
    BY <1>8 DEF ExtractRendered
  <2>2. Longer(fetch[i].raw, rendered) \in Lengths \cup {Failed} /\ Longer(fetch[i].raw, rendered) >= fetch[i].raw
    BY <1>1, <2>1 DEF Longer
  <2>3. QED
    BY <2>1, <2>2
<1>9. QED
  BY <1>2, <1>3, <1>4, <1>5, <1>6, <1>7, <1>8

\* The same, result by result.
LEMMA PassEffect ==
  ASSUME ExtractInv, NEW i \in Results, LLMSTxt(i) \/ ExtractFast(i) \/ ExtractRendered(i)
  PROVE  /\ i \in Running /\ UNCHANGED <<config, next, stage, left>> /\ CutShort(i)
         /\ fetch' \in [Results -> [pass : Passes, age : 0 .. Timeout, raw : Lengths \cup {Failed}]]
         /\ got' \in [Results -> Lengths \cup {Failed, Unanswered}]
         /\ \A j \in Results \ {i} : fetch'[j] = fetch[j] /\ got'[j] = got[j]
         /\ \/ /\ fetch'[i].pass = "over" /\ fetch'[i].raw = fetch[i].raw
               /\ got'[i] \in Lengths \cup {Failed}
               /\ got'[i] >= IF handler = "enrich" /\ fetch[i].raw = 0 THEN Failed ELSE fetch[i].raw
               /\ Running' = Running \ {i}
            \/ /\ fetch'[i].pass \in {"llms", "raw", "rendered"} /\ fetch'[i].age = 0
               /\ fetch'[i].pass # "rendered" => fetch'[i].raw = Failed /\ llms
               /\ fetch[i].pass # "rendered"
               /\ got' = got /\ Running' = Running
<1> USE DEF ExtractInv, ExtractTypeOK
<1>1. fetch[i].raw \in Lengths \cup {Failed} /\ Timeout \in Nat
  BY ExtractionAssumption
<1>2. CASE \E length \in Lengths \cup {Failed} : Answer(i, length) /\ length >= fetch[i].raw
  <2>1. PICK length \in Lengths \cup {Failed} : Answer(i, length) /\ length >= fetch[i].raw
    BY <1>2
  <2>2. /\ fetch' = [fetch EXCEPT ![i].pass = "over", ![i].age = 0]
        /\ got' = [got EXCEPT ![i] = IF handler = "enrich" /\ length = 0 THEN Failed ELSE length]
    BY <2>1 DEF Answer
  <2>3. /\ fetch' \in [Results -> [pass : Passes, age : 0 .. Timeout, raw : Lengths \cup {Failed}]]
        /\ fetch'[i].pass = "over" /\ fetch'[i].raw = fetch[i].raw
        /\ \A j \in Results \ {i} : fetch'[j] = fetch[j]
    <3>1. fetch \in [Results -> [pass : Passes, age : 0 .. Timeout, raw : Lengths \cup {Failed}]]
      OBVIOUS
    <3>2. 0 \in 0 .. Timeout /\ "over" \in Passes
      BY <1>1 DEF Passes
    <3>3. fetch' = [fetch EXCEPT ![i] = [[fetch[i] EXCEPT !.pass = "over"] EXCEPT !.age = 0]]
      BY <2>2, <3>1
    <3> HIDE DEF ExtractInv, ExtractTypeOK
    <3>4. [[fetch[i] EXCEPT !.pass = "over"] EXCEPT !.age = 0]
            \in [pass : Passes, age : 0 .. Timeout, raw : Lengths \cup {Failed}]
      BY <3>1, <3>2
    <3>5. [[fetch[i] EXCEPT !.pass = "over"] EXCEPT !.age = 0].pass = "over"
          /\ [[fetch[i] EXCEPT !.pass = "over"] EXCEPT !.age = 0].raw = fetch[i].raw
      BY <3>1
    <3>6. QED
      BY <3>1, <3>3, <3>4, <3>5
  <2>4. got' \in [Results -> Lengths \cup {Failed, Unanswered}] /\ got'[i] \in Lengths \cup {Failed}
        /\ \A j \in Results \ {i} : got'[j] = got[j]
    BY <2>1, <2>2
  <2>5. got'[i] >= IF handler = "enrich" /\ fetch[i].raw = 0 THEN Failed ELSE fetch[i].raw
    BY <1>1, <2>1, <2>2 DEF Lengths, Failed
  <2>6. Running' = Running \ {i}
    BY <2>3 DEF Running
  <2>7. QED
    BY <2>3, <2>4, <2>5, <2>6, PassEnds
<1>3. CASE \E pass \in {"llms", "raw", "rendered"}, raw \in Lengths \cup {Failed} :
             /\ Escalate(i, pass, raw)
             /\ pass # "rendered" => raw = Failed /\ llms
             /\ fetch[i].pass # "rendered"
  <2>1. PICK pass \in {"llms", "raw", "rendered"}, raw \in Lengths \cup {Failed} :
             /\ fetch' = [fetch EXCEPT ![i] = [pass |-> pass, age |-> 0, raw |-> raw]] /\ got' = got
             /\ pass # "rendered" => raw = Failed /\ llms
             /\ fetch[i].pass # "rendered"
    BY <1>3 DEF Escalate
  <2>2. /\ fetch' \in [Results -> [pass : Passes, age : 0 .. Timeout, raw : Lengths \cup {Failed}]]
        /\ fetch'[i] = [pass |-> pass, age |-> 0, raw |-> raw]
        /\ \A j \in Results \ {i} : fetch'[j] = fetch[j]
    BY <1>1, <2>1 DEF Passes
  <2>3. i \in Running
    BY PassEnds
  <2>4. Running' = Running
    BY <2>2, <2>3 DEF Running
  <2>5. got' \in [Results -> Lengths \cup {Failed, Unanswered}]
    BY <2>1
  <2>6. QED
    BY <2>1, <2>2, <2>4, <2>5, PassEnds
<1>4. QED
  BY <1>2, <1>3, PassEnds

\* What the start of an extraction does to an untouched result.
LEMMA EnterEffect ==
  ASSUME ExtractInv, NEW i \in Results, i >= next, HasURL(i), Enter(i)
  PROVE  /\ fetch' \in [Results -> [pass : Passes, age : 0 .. Timeout, raw : Lengths \cup {Failed}]]
         /\ got' \in [Results -> Lengths \cup {Failed, Unanswered}]
         /\ \A j \in Results \ {i} : fetch'[j] = fetch[j] /\ got'[j] = got[j]
         /\ fetch'[i].age = 0 /\ fetch'[i].raw = Failed /\ i \notin Running
         /\ \/ /\ Expired /\ cut' = cut \cup {i}
               /\ fetch'[i].pass = "over" /\ got'[i] = Failed /\ Running' = Running
            \/ /\ ~ Expired /\ cut' = cut
               /\ fetch'[i].pass \in {"llms-full", "raw", "rendered"} /\ (fetch'[i].pass = "llms-full" => llms)
               /\ got' = got /\ Running' = Running \cup {i}
<1> USE DEF ExtractInv
<1>1. /\ fetch \in [Results -> [pass : Passes, age : 0 .. Timeout, raw : Lengths \cup {Failed}]]
      /\ got \in [Results -> Lengths \cup {Failed, Unanswered}]
  BY DEF ExtractTypeOK
<1>2. fetch[i] = [pass |-> "none", age |-> 0, raw |-> Failed]
  BY DEF Touched, Idle
<1>3. i \notin Running
  BY <1>2 DEF Running
<1> DEFINE p == IF Expired THEN "over" ELSE FirstPass
<1>4. p \in Passes /\ fetch' = [fetch EXCEPT ![i].pass = p]
  BY DEF Enter, FirstPass, PagePass, Passes
<1>5. FirstPass \in {"llms-full", "raw", "rendered"} /\ (FirstPass = "llms-full" => llms)
  BY DEF FirstPass, PagePass
<1> HIDE DEF p
<1>6. fetch' = [fetch EXCEPT ![i] = [pass |-> p, age |-> 0, raw |-> Failed]]
  <2>1. fetch' = [fetch EXCEPT ![i] = [fetch[i] EXCEPT !.pass = p]]
    BY <1>1, <1>4
  <2>2. [fetch[i] EXCEPT !.pass = p] = [pass |-> p, age |-> 0, raw |-> Failed]
    BY <1>2
  <2>3. QED
    BY <2>1, <2>2
<1>7. [pass |-> p, age |-> 0, raw |-> Failed] \in [pass : Passes, age : 0 .. Timeout, raw : Lengths \cup {Failed}]
  BY <1>4, ExtractionAssumption
<1>8. /\ fetch' \in [Results -> [pass : Passes, age : 0 .. Timeout, raw : Lengths \cup {Failed}]]
      /\ fetch'[i] = [pass |-> p, age |-> 0, raw |-> Failed]
      /\ \A j \in Results \ {i} : fetch'[j] = fetch[j]
  BY <1>1, <1>6, <1>7
<1>9. CASE Expired
  <2>1. fetch'[i].pass = "over"
    BY <1>8, <1>9 DEF p
  <2>2. Running' = Running
    BY <1>3, <1>8, <2>1 DEF Running
  <2>3. got' = [got EXCEPT ![i] = Failed] /\ cut' = cut \cup {i}
    BY <1>9 DEF Enter
  <2>4. got' \in [Results -> Lengths \cup {Failed, Unanswered}] /\ got'[i] = Failed
        /\ \A j \in Results \ {i} : got'[j] = got[j]
    BY <1>1, <2>3
  <2>5. QED
    BY <1>3, <1>8, <1>9, <2>1, <2>2, <2>3, <2>4
<1>10. CASE ~ Expired
  <2>1. fetch'[i].pass \in {"llms-full", "raw", "rendered"} /\ (fetch'[i].pass = "llms-full" => llms)
    BY <1>5, <1>8, <1>10 DEF p
  <2>2. Running' = Running \cup {i}
    BY <1>8, <2>1 DEF Running
  <2>3. got' = got /\ cut' = cut
    BY <1>10 DEF Enter
  <2>4. QED
    BY <1>1, <1>3, <1>8, <1>10, <2>1, <2>2, <2>3
<1>11. QED
  BY <1>9, <1>10

-----------------------------------------------------------------------------
(* Extraction: waves. *)

\* A wave holds as many results as there are slots.
LEMMA DivFacts ==
  ASSUME NEW a \in Int, NEW b \in Nat \ {0}
  PROVE  /\ a \div b \in Int /\ (a + b) \div b = (a \div b) + 1
         /\ \A c \in Int : a <= c => a \div b <= c \div b
OBVIOUS

\* More waves take no less time.
LEMMA TimesMonotone ==
  ASSUME NEW a \in Int, NEW c \in Int, NEW b \in Nat, a <= c
  PROVE  2 * b * a <= 2 * b * c
OBVIOUS

\* The waves up to that of a result of the top fit into the deadline.
LEMMA WavesFit ==
  ASSUME ExtractTypeOK, NEW i \in 1 .. limit
  PROVE  2 * Timeout * (Wave(i) + 1) <= BatchTimeout(limit)
<1> DEFINE C == limit
           all == (C + slots - 1) \div slots
<1>1. slots \in Nat \ {0} /\ Timeout \in Nat /\ C \in Nat /\ C > 0 /\ i \in Int /\ i <= C
  BY ExtractionAssumption DEF ExtractTypeOK
<1>2. BatchTimeout(C) = all * 2 * Timeout
  BY <1>1 DEF BatchTimeout
<1> HIDE DEF C
<1>3. Wave(i) \in Int /\ Wave(i) + 1 = (i - 1 + slots) \div slots
  <2>1. i - 1 \in Int /\ slots \in Nat \ {0}
    BY <1>1
  <2>2. (i - 1) \div slots \in Int /\ ((i - 1) + slots) \div slots = ((i - 1) \div slots) + 1
    BY <2>1, DivFacts
  <2>3. QED
    BY <2>2 DEF Wave
<1>4. i - 1 + slots <= C + slots - 1 /\ i - 1 + slots \in Int /\ C + slots - 1 \in Int
  BY <1>1
<1>5. (i - 1 + slots) \div slots <= all /\ all \in Int
  BY <1>1, <1>4, DivFacts
<1>6. 2 * Timeout * (Wave(i) + 1) <= 2 * Timeout * all
  <2> HIDE DEF all
  <2> QED
    BY <1>1, <1>3, <1>5, TimesMonotone
<1>7. 2 * Timeout * all = all * 2 * Timeout
  <2> HIDE DEF all
  <2> QED
    BY <1>1, <1>5
<1>8. QED
  BY <1>2, <1>6, <1>7 DEF C

\* Times are numbers.
LEMMA TimeTypes ==
  ASSUME ExtractTypeOK
  PROVE  /\ Elapsed \in Int /\ given \in Nat /\ BatchTimeout(limit) \in Nat /\ Timeout \in Nat \ {0}
         /\ limit \in Nat /\ next \in Nat /\ CandidateLimit \in limit .. N /\ N \in Nat
         /\ \A i \in Int : Wave(i) \in Int /\ 2 * Timeout * Wave(i) \in Int /\ 2 * Timeout * (Wave(i) + 1) \in Int
         /\ \A i \in Results : /\ fetch[i].age \in 0 .. Timeout /\ Rest(i) \in Int
                               /\ fetch[i].age < Timeout => Rest(i) >= 1
<1>1. slots \in Nat \ {0} /\ Timeout \in Nat \ {0} /\ limit \in 0 .. N /\ N \in Nat
      /\ left \in Nat /\ given \in Nat
  BY ExtractionAssumption DEF ExtractTypeOK
<1>2. CandidateLimit \in limit .. N /\ CandidateLimit \in Nat
  BY <1>1, CandidateRange
<1>3. BatchTimeout(limit) \in Nat
  BY <1>1, BatchTimeoutType DEF ExtractTypeOK
<1>4. \A i \in Int : Wave(i) \in Int
  BY <1>1, DivFacts DEF Wave
<1>5. \A w \in Int : 2 * Timeout * w \in Int /\ 2 * Timeout * (w + 1) \in Int
  BY <1>1
<1>6. \A i \in Results : fetch[i].age \in 0 .. Timeout
  BY DEF ExtractTypeOK
<1>7. \A i \in Results : Rest(i) \in Int /\ (fetch[i].age < Timeout => Rest(i) >= 1)
  BY <1>1, <1>6 DEF Rest
<1>8. Elapsed \in Int
  BY <1>1 DEF Elapsed
<1>9. \A i \in Int : 2 * Timeout * Wave(i) \in Int /\ 2 * Timeout * (Wave(i) + 1) \in Int
  BY <1>4, <1>5
<1>10. limit \in Nat /\ next \in Nat
  BY <1>1 DEF ExtractTypeOK
<1>11. QED
  BY <1>1, <1>2, <1>3, <1>4, <1>6, <1>7, <1>8, <1>9, <1>10

-----------------------------------------------------------------------------
(* Extraction: every step keeps the invariant. *)

\* The end of a pass keeps the invariant.
LEMMA PassKeeps ==
  ASSUME ExtractInv, NEW i \in Results, LLMSTxt(i) \/ ExtractFast(i) \/ ExtractRendered(i)
  PROVE  ExtractInv'
<1> USE DEF ExtractInv
<1> DEFINE answered == /\ fetch'[i].pass = "over" /\ fetch'[i].raw = fetch[i].raw
                       /\ got'[i] \in Lengths \cup {Failed}
                       /\ got'[i] >= IF handler = "enrich" /\ fetch[i].raw = 0 THEN Failed ELSE fetch[i].raw
                       /\ Running' = Running \ {i}
           escalated == /\ fetch'[i].pass \in {"llms", "raw", "rendered"} /\ fetch'[i].age = 0
                        /\ fetch'[i].pass # "rendered" => fetch'[i].raw = Failed /\ llms
                        /\ fetch[i].pass # "rendered"
                        /\ got' = got /\ Running' = Running
<1>1. /\ i \in Running
      /\ handler' = handler /\ mode' = mode /\ llms' = llms /\ limit' = limit /\ slots' = slots /\ given' = given
      /\ next' = next /\ stage' = stage /\ left' = left /\ CutShort(i)
  BY PassEffect DEF config
<1>2. /\ fetch' \in [Results -> [pass : Passes, age : 0 .. Timeout, raw : Lengths \cup {Failed}]]
      /\ got' \in [Results -> Lengths \cup {Failed, Unanswered}]
      /\ \A j \in Results \ {i} : fetch'[j] = fetch[j] /\ got'[j] = got[j]
      /\ answered \/ escalated
  BY PassEffect
<1>3. fetch[i].pass \notin {"none", "over"} /\ fetch'[i].pass # "none" /\ i < next /\ i \in Int /\ HasURL(i)
  <2>1. fetch[i].pass \notin {"none", "over"}
    BY <1>1 DEF Running
  <2>2. ~ (i >= next) /\ HasURL(i)
    BY <2>1 DEF Touched, Idle
  <2>3. i \in Int /\ next \in Int
    BY ExtractionAssumption DEF Results, ExtractTypeOK
  <2>4. fetch'[i].pass # "none"
    BY <1>2
  <2>5. QED
    BY <2>1, <2>2, <2>3, <2>4
<1>4. Running' \subseteq Running /\ Cardinality(Running') \in Nat /\ Cardinality(Running') <= Cardinality(Running)
  <2>1. Running' \subseteq Running
    BY <1>2
  <2>2. IsFiniteSet(Running') /\ Cardinality(Running') <= Cardinality(Running)
    BY <2>1, Finiteness, FS_Subset
  <2>3. QED
    BY <2>1, <2>2, FS_CardinalityType
<1>5. ExtractTypeOK'
  <2>1. cut' \subseteq Results
    BY <1>1 DEF CutShort, ExtractTypeOK
  <2>2. Cardinality(Running') <= IF stage = "filling" THEN 1 ELSE slots
    <3>1. Cardinality(Running) <= IF stage = "filling" THEN 1 ELSE slots
      BY DEF ExtractTypeOK
    <3>2. slots \in Nat
      BY ExtractionAssumption DEF ExtractTypeOK
    <3>3. QED
      BY <1>4, <3>1, <3>2, Finiteness
  <2>3. QED
    BY <1>1, <1>2, <2>1, <2>2 DEF ExtractTypeOK
<1>6. Touched'
  <2>1. \A j \in Results : j >= next => j # i
    BY <1>3 DEF ExtractTypeOK
  <2>2. \A j \in Results : HasURL(j)' = HasURL(j)
    BY <1>1 DEF HasURL
  <2>3. QED
    BY <1>1, <1>2, <1>3, <2>1, <2>2 DEF Touched
<1>7. PassesFollow'
  <2>1. \A j \in Results \ {i} : Over(j)' = Over(j)
    BY <1>2 DEF Over
  <2>2. answered => fetch'[i].pass = "over" /\ got'[i] # Unanswered
    BY DEF Lengths, Failed, Unanswered
  <2>3. CASE answered
    BY <1>1, <1>2, <2>1, <2>2, <2>3 DEF PassesFollow
  <2>4. CASE escalated
    <3>1. ~ Over(i)'
      BY <2>4 DEF Over
    <3>2. QED
      BY <1>1, <1>2, <2>1, <2>4, <3>1 DEF PassesFollow
  <2>5. QED
    BY <1>2, <2>3, <2>4
<1>8. RenderNeverRegresses'
  <2>1. \A j \in Results \ {i} : Over(j)' = Over(j)
    BY <1>2 DEF Over
  <2>2. escalated => ~ Over(i)'
    BY DEF Over
  <2>3. QED
    BY <1>1, <1>2, <2>1, <2>2 DEF RenderNeverRegresses
<1>9. Successes' <= limit' /\ (Running' # {} /\ stage' # "spawning" => Successes' < limit')
  <2>1. Successes' \in Nat /\ Successes \in Nat /\ limit \in Nat /\ Successes' <= Successes + 1
        /\ (escalated => Successes' = Successes)
    BY <1>2, ExtractionAssumption, Finiteness, SuccessesGrow DEF ExtractTypeOK
  <2>2. CASE stage = "spawning"
    <3>1. next <= limit + 1
      BY <2>2 DEF Phased
    <3>2. \A j \in Results : got'[j] > 0 => j \in 1 .. limit
      <4>1. \A j \in Results : j >= next => ~ (got'[j] > 0)
        BY <1>2, <1>3 DEF Touched, Unanswered, ExtractTypeOK
      <4>2. \A j \in Results : j < next => j \in 1 .. limit
        BY <2>1, <3>1, ExtractionAssumption DEF Results, ExtractTypeOK
      <4>3. \A j \in Results : j < next \/ j >= next
        BY ExtractionAssumption DEF Results, ExtractTypeOK
      <4>4. QED
        BY <4>1, <4>2, <4>3
    <3>3. IsFiniteSet(1 .. limit) /\ Cardinality(1 .. limit) = limit
      <4>1. limit \in Nat
        BY <2>1
      <4>2. IsFiniteSet(1 .. limit) /\ Cardinality(1 .. limit) = IF 1 > limit THEN 0 ELSE limit - 1 + 1
        BY <4>1, FS_Interval
      <4>3. QED
        BY <4>1, <4>2
    <3>4. Cardinality({j \in Results : got'[j] > 0}) <= limit
      BY <3>2, <3>3, FS_Subset
    <3>5. QED
      BY <1>1, <2>2, <3>4 DEF Successes
  <2>3. CASE stage # "spawning"
    <3>1. Successes < limit /\ stage = "filling"
      BY <1>1, <2>3 DEF Phased, ExtractTypeOK
    <3>2. answered => Running' = {}
      <4>1. Cardinality(Running) <= 1 /\ Cardinality(Running) \in Nat
        BY <3>1, Finiteness DEF ExtractTypeOK
      <4>2. Cardinality(Running \ {i}) = Cardinality(Running) - 1 /\ IsFiniteSet(Running \ {i})
        BY <1>1, Finiteness, FS_RemoveElement
      <4>3. Cardinality(Running \ {i}) \in Nat
        BY <4>2, FS_CardinalityType
      <4>4. Cardinality(Running \ {i}) = 0
        BY <4>1, <4>2, <4>3
      <4>5. QED
        BY <4>2, <4>4, FS_EmptySet
    <3>3. QED
      BY <1>1, <1>2, <2>1, <3>1, <3>2
  <2>4. QED
    BY <2>2, <2>3
<1>10. stage # "spawning" => i > limit
  <2>1. SUFFICES ASSUME stage # "spawning", ~ (i > limit) PROVE FALSE
    OBVIOUS
  <2>2. i \in 1 .. limit
    BY <2>1, ExtractionAssumption DEF Results, ExtractTypeOK
  <2>3. Over(i)
    BY <1>3, <2>1, <2>2 DEF Phased
  <2>4. QED
    BY <1>3, <2>3 DEF Over
<1>11. Phased'
  <2>1. stage = "spawning" => (next <= limit + 1)'
    BY <1>1 DEF Phased
  <2>2. ASSUME stage # "spawning"
        PROVE  /\ (next > limit)'
               /\ \A j \in 1 .. limit : (HasURL(j) => Over(j))'
               /\ \A j \in Results : j > limit /\ fetch'[j].pass # "none" => \E k \in 1 .. limit : got'[k] <= 0
    <3>1. \A j \in 1 .. limit : j \in Results \ {i}
      BY <1>10, <2>2, ExtractionAssumption DEF Results, ExtractTypeOK
    <3>2. \A j \in 1 .. limit : Over(j)' = Over(j) /\ HasURL(j)' = HasURL(j) /\ got'[j] = got[j]
      BY <1>1, <1>2, <3>1 DEF Over, HasURL
    <3>3. \E k \in 1 .. limit : got[k] <= 0
      BY <1>3, <1>10, <2>2 DEF Phased
    <3>4. QED
      BY <1>1, <2>2, <3>2, <3>3 DEF Phased
  <2>3. stage # "done"
    BY <1>1 DEF Phased
  <2>4. QED
    BY <1>1, <1>9, <2>1, <2>2, <2>3 DEF Phased
<1>12. InTime'
  <2> SUFFICES ASSUME ~ llms PROVE InTime'
    BY <1>1 DEF InTime
  <2>1. (Ample' <=> Ample) /\ Elapsed' = Elapsed /\ \A j \in Int : Wave(j)' = Wave(j)
    BY <1>1 DEF Ample, BatchTimeout, Elapsed, Wave
  <2>2. \A j \in Running' : Rest(j)' <= Rest(j)
    <3>1. ASSUME escalated PROVE Rest(i)' <= Rest(i)
      <4>1. fetch[i].pass = "raw" /\ fetch'[i].pass = "rendered"
        <5>1. fetch[i].pass \in Passes
          BY DEF ExtractTypeOK
        <5>2. QED
          BY <1>3, <3>1, <5>1 DEF PassesFollow, Passes
      <4>2. fetch[i].age \in 0 .. Timeout /\ Timeout \in Nat
        BY TimeTypes
      <4>3. QED
        BY <3>1, <4>1, <4>2 DEF Rest
    <3>2. \A j \in Running \ {i} : Rest(j)' = Rest(j) /\ Rest(j) \in Int
      BY <1>2, TimeTypes DEF Rest, Running
    <3>3. QED
      BY <1>2, <3>1, <3>2
  <2>3. stage = "spawning" => /\ next <= limit => Elapsed <= 2 * Timeout * Wave(next)
                              /\ \A j \in Running : Elapsed + Rest(j) <= 2 * Timeout * (Wave(j) + 1)
    BY DEF InTime
  <2>4. stage = "spawning" => \A j \in Running' : Elapsed + Rest(j)' <= 2 * Timeout * (Wave(j) + 1)
    <3> SUFFICES ASSUME stage = "spawning", NEW j \in Running' PROVE Elapsed + Rest(j)' <= 2 * Timeout * (Wave(j) + 1)
      OBVIOUS
    <3>1. j \in Running /\ j \in Results /\ j \in Int
      BY <1>4, ExtractionAssumption DEF Running, Results
    <3>2. Elapsed \in Int /\ Rest(j) \in Int /\ 2 * Timeout * (Wave(j) + 1) \in Int
      BY <3>1, TimeTypes
    <3>3. Rest(j)' \in Int
      <4>1. fetch'[j].age \in 0 .. Timeout /\ Timeout \in Nat
        BY <1>2, <3>1, TimeTypes
      <4>2. QED
        BY <4>1 DEF Rest
    <3>4. QED
      BY <2>2, <2>3, <3>1, <3>2, <3>3
  <2>5. ASSUME Ample, i <= limit, Expired, fetch[i].age < Timeout PROVE FALSE
    <3>1. stage = "spawning"
      BY <1>3, <1>10, <2>5, TimeTypes
    <3>2. Elapsed + Rest(i) <= 2 * Timeout * (Wave(i) + 1)
      BY <1>1, <2>3, <3>1
    <3>3. i \in 1 .. limit
      BY <2>5, TimeTypes DEF Results
    <3>4. 2 * Timeout * (Wave(i) + 1) <= BatchTimeout(limit)
      BY <3>3, WavesFit
    <3>5. Elapsed >= BatchTimeout(limit) /\ Elapsed \in Int
      BY <2>5, TimeTypes DEF Elapsed, Expired, Ample
    <3>6. Rest(i) >= 1 /\ Rest(i) \in Int /\ BatchTimeout(limit) \in Nat
          /\ 2 * Timeout * (Wave(i) + 1) \in Int
      BY <1>3, <2>5, TimeTypes
    <3>7. QED
      BY <3>2, <3>4, <3>5, <3>6
  <2>6. ASSUME Ample PROVE \A j \in cut' : j > limit
    <3>1. i > limit \/ ~ (Expired /\ fetch[i].age < Timeout)
      BY <1>3, <2>5, <2>6, TimeTypes
    <3>2. \A j \in cut : j > limit
      BY <2>6 DEF InTime
    <3>3. cut' = cut \/ (cut' = cut \cup {i} /\ Expired /\ fetch[i].age < Timeout)
      BY <1>1 DEF CutShort
    <3>4. QED
      BY <3>1, <3>2, <3>3
  <2>7. \A j \in Running' : Wave(j)' = Wave(j)
    BY <2>1, ExtractionAssumption DEF Running, Results
  <2>8. Wave(next)' = Wave(next)
    BY <1>1 DEF Wave
  <2>9. QED
    BY <1>1, <2>1, <2>3, <2>4, <2>6, <2>7, <2>8 DEF InTime
<1>13. QED
  BY <1>5, <1>6, <1>7, <1>8, <1>9, <1>11, <1>12

\* A turn of the loop over the top keeps it.
LEMMA SpawnKeeps ==
  ASSUME ExtractInv, Spawn
  PROVE  ExtractInv'
<1> USE DEF ExtractInv
<1>1. /\ stage = "spawning" /\ next <= limit /\ next' = next + 1
      /\ handler' = handler /\ mode' = mode /\ llms' = llms /\ limit' = limit /\ slots' = slots /\ given' = given
      /\ stage' = stage /\ left' = left
  BY DEF Spawn, config
<1>2. limit \in 0 .. N /\ N \in Nat /\ next \in Nat /\ next \in Results /\ next' \in 1 .. N + 1 /\ limit \in Nat
  BY <1>1, ExtractionAssumption DEF Results, ExtractTypeOK
<1>3. (Ample' <=> Ample) /\ Elapsed' = Elapsed /\ \A j \in Int : Wave(j)' = Wave(j)
  BY <1>1 DEF Ample, BatchTimeout, Elapsed, Wave
<1>4. \A j \in Results : HasURL(j)' = HasURL(j)
  BY <1>1 DEF HasURL
<1>5. \A j \in Results : j >= next' => j >= next /\ j # next
  BY <1>1, <1>2 DEF Results
<1>6. \A j \in Results : j < next' => j < next \/ j = next
  BY <1>1, <1>2 DEF Results
<1>7. ~ llms => Elapsed <= 2 * Timeout * Wave(next) /\ (next' <= limit => Elapsed <= 2 * Timeout * Wave(next'))
  <2> SUFFICES ASSUME ~ llms
               PROVE  Elapsed <= 2 * Timeout * Wave(next) /\ Elapsed <= 2 * Timeout * Wave(next + 1)
    BY <1>1
  <2>1. Elapsed <= 2 * Timeout * Wave(next)
    BY <1>1 DEF InTime
  <2>2. Wave(next) <= Wave(next + 1)
    <3>1. next - 1 \in Int /\ next + 1 - 1 \in Int /\ next - 1 <= next + 1 - 1 /\ slots \in Nat \ {0}
      BY <1>2, ExtractionAssumption DEF ExtractTypeOK
    <3>2. \A c \in Int : next - 1 <= c => (next - 1) \div slots <= c \div slots
      BY <3>1, DivFacts
    <3>3. (next - 1) \div slots <= (next + 1 - 1) \div slots
      BY <3>1, <3>2
    <3>4. QED
      BY <1>2, <3>1, <3>3 DEF Wave
  <2>3. Wave(next) \in Int /\ Wave(next + 1) \in Int /\ Timeout \in Nat /\ Elapsed \in Int
        /\ 2 * Timeout * Wave(next) \in Int /\ 2 * Timeout * Wave(next + 1) \in Int
    <3>1. next \in Int /\ next + 1 \in Int
      BY <1>2
    <3>2. QED
      BY <3>1, TimeTypes
  <2>4. 2 * Timeout * Wave(next) <= 2 * Timeout * Wave(next + 1)
    BY <2>2, <2>3, TimesMonotone
  <2>5. QED
    BY <2>1, <2>3, <2>4
<1>8. ~ llms /\ Ample => ~ Expired
  <2> SUFFICES ASSUME ~ llms, Ample, Expired PROVE FALSE
    OBVIOUS
  <2>1. Elapsed >= BatchTimeout(limit) /\ BatchTimeout(limit) \in Nat
    BY TimeTypes DEF Elapsed, Expired, Ample
  <2>2. next \in 1 .. limit
    BY <1>1, <1>2, TimeTypes DEF Results
  <2>3. 2 * Timeout * (Wave(next) + 1) <= BatchTimeout(limit)
    BY <2>2, WavesFit
  <2>4. Timeout \in Nat \ {0} /\ Wave(next) \in Int /\ 2 * Timeout * Wave(next) \in Int /\ Elapsed \in Int
    BY <1>2, TimeTypes
  <2>5. 2 * Timeout * (Wave(next) + 1) = 2 * Timeout * Wave(next) + 2 * Timeout
    BY <2>4
  <2>6. QED
    BY <1>7, <2>1, <2>3, <2>4, <2>5
<1>9. CASE ~ HasURL(next)
  <2>1. UNCHANGED <<fetch, got, cut>>
    BY <1>9 DEF Spawn
  <2>2. Running' = Running /\ Successes' = Successes
    BY <2>1 DEF Running, Successes
  <2>3. ExtractTypeOK'
    BY <1>1, <1>2, <2>1, <2>2 DEF ExtractTypeOK
  <2>4. Touched'
    BY <1>4, <1>5, <1>6, <1>9, <2>1 DEF Touched
  <2>5. PassesFollow' /\ RenderNeverRegresses'
    BY <1>1, <2>1 DEF PassesFollow, RenderNeverRegresses, Over
  <2>6. Phased'
    BY <1>1, <1>2 DEF Phased
  <2>7. InTime'
    <3> SUFFICES ASSUME ~ llms PROVE InTime'
      BY <1>1 DEF InTime
    <3>1. \A i \in Running : Wave(i)' = Wave(i) /\ Rest(i)' = Rest(i)
      BY <1>3, <2>1, ExtractionAssumption DEF Running, Results, Rest
    <3>2. next' <= limit => Elapsed <= 2 * Timeout * Wave(next')
      BY <1>7
    <3>3. Wave(next') = Wave(next)'
      BY <1>1 DEF Wave
    <3>4. QED
      BY <1>1, <1>3, <2>1, <2>2, <3>1, <3>2, <3>3 DEF InTime
  <2>8. QED
    BY <1>1, <2>2, <2>3, <2>4, <2>5, <2>6, <2>7
<1>10. CASE HasURL(next)
  <2>0. PICK n \in Results : n = next
    BY <1>2
  <2>1. Cardinality(Running) < slots /\ Enter(n) /\ n >= next
    BY <1>2, <1>10, <2>0 DEF Spawn
  <2>2. /\ fetch' \in [Results -> [pass : Passes, age : 0 .. Timeout, raw : Lengths \cup {Failed}]]
        /\ got' \in [Results -> Lengths \cup {Failed, Unanswered}]
        /\ \A j \in Results \ {n} : fetch'[j] = fetch[j] /\ got'[j] = got[j]
        /\ fetch'[n].age = 0 /\ fetch'[n].raw = Failed /\ n \notin Running
        /\ \/ /\ Expired /\ cut' = cut \cup {n}
              /\ fetch'[n].pass = "over" /\ got'[n] = Failed /\ Running' = Running
           \/ /\ ~ Expired /\ cut' = cut
              /\ fetch'[n].pass \in {"llms-full", "raw", "rendered"} /\ (fetch'[n].pass = "llms-full" => llms)
              /\ got' = got /\ Running' = Running \cup {n}
    BY <1>10, <2>0, <2>1, EnterEffect
  <2>3. Cardinality(Running') <= slots
    <3>1. Cardinality(Running \cup {n}) = Cardinality(Running) + 1
      BY <2>2, Finiteness, FS_AddElement
    <3>2. Cardinality(Running) \in Nat /\ slots \in Nat
      BY ExtractionAssumption, Finiteness DEF ExtractTypeOK
    <3>3. QED
      BY <2>1, <2>2, <3>1, <3>2
  <2>4. ExtractTypeOK'
    <3>1. cut' \subseteq Results
      BY <1>2, <2>2 DEF ExtractTypeOK
    <3>2. QED
      BY <1>1, <1>2, <2>2, <2>3, <3>1 DEF ExtractTypeOK
  <2>5. Touched'
    <3>1. fetch'[n].pass # "none"
      BY <2>2
    <3>2. QED
      BY <1>2, <1>4, <1>5, <1>6, <1>10, <2>0, <2>2, <3>1 DEF Touched
  <2>6. PassesFollow' /\ RenderNeverRegresses'
    <3>1. \A j \in Results \ {n} : Over(j)' = Over(j)
      BY <2>2 DEF Over
    <3>3. Over(n)' => got'[n] = Failed
      BY <2>2 DEF Over
    <3>4. PassesFollow'
      BY <1>1, <2>2, <3>1, <3>3 DEF PassesFollow, Unanswered, Failed
    <3>5. RenderNeverRegresses'
      BY <1>1, <2>2, <3>1, <3>3 DEF RenderNeverRegresses, Failed
    <3>6. QED
      BY <3>4, <3>5
  <2>7. Phased'
    BY <1>1, <1>2 DEF Phased
  <2>8. Successes' <= limit'
    <3>1. got'[n] = got[n] \/ ~ (got'[n] > 0)
      BY <2>2 DEF Failed
    <3>2. Successes' \in Nat /\ Successes' <= Successes
      BY <1>2, <2>2, <3>1, Finiteness, SuccessesGrow
    <3>3. QED
      BY <1>1, <1>2, <3>2, Finiteness
  <2>9. InTime'
    <3> SUFFICES ASSUME ~ llms PROVE InTime'
      BY <1>1 DEF InTime
    <3>1. \/ Running' = Running
          \/ Running' = Running \cup {n} /\ fetch'[n].pass \in {"raw", "rendered"}
      BY <2>2
    <3>2. \A i \in Running : Wave(i)' = Wave(i) /\ Rest(i)' = Rest(i)
      <4>1. \A i \in Running : i \in Int /\ i \in Results \ {n}
        BY <2>2, ExtractionAssumption DEF Running, Results
      <4>2. QED
        BY <1>3, <2>2, <4>1 DEF Rest
    <3>3. ASSUME fetch'[n].pass \in {"raw", "rendered"}
          PROVE  Elapsed + Rest(n)' <= 2 * Timeout * (Wave(n) + 1)
      <4>1. Timeout \in Nat \ {0} /\ Wave(n) \in Int /\ 2 * Timeout * Wave(n) \in Int /\ Elapsed \in Int
        BY <1>2, TimeTypes
      <4>2. 2 * Timeout * (Wave(n) + 1) = 2 * Timeout * Wave(n) + 2 * Timeout
        BY <4>1
      <4>4. Elapsed <= 2 * Timeout * Wave(n)
        BY <1>7, <2>0
      <4>5. Rest(n)' = IF fetch'[n].pass = "raw" THEN 2 * Timeout - fetch'[n].age
                                                 ELSE Timeout - fetch'[n].age
        BY DEF Rest
      <4>6. fetch'[n].age = 0
        BY <2>2
      <4>7. QED
        BY <3>3, <4>1, <4>2, <4>4, <4>5, <4>6
    <3>4. \A i \in Running : Elapsed + Rest(i) <= 2 * Timeout * (Wave(i) + 1)
      BY <1>1 DEF InTime
    <3>5. \A i \in Running' : Elapsed + Rest(i)' <= 2 * Timeout * (Wave(i)' + 1)
      <4>1. Wave(n)' = Wave(n)
        BY <1>2, <1>3, <2>0
      <4>2. QED
        BY <3>1, <3>2, <3>3, <3>4, <4>1
    <3>6. Wave(next)' = Wave(next')
      BY <1>1 DEF Wave
    <3>7. next' <= limit => Elapsed <= 2 * Timeout * Wave(next')
      BY <1>7
    <3>8. Ample => \A i \in cut' : i > limit
      BY <1>8, <2>2 DEF InTime
    <3>9. QED
      BY <1>1, <1>3, <3>1, <3>5, <3>6, <3>7, <3>8 DEF InTime
  <2>11. ExtractInv'
    BY <2>4, <2>5, <2>6, <2>7, <2>8, <2>9
  <2>12. QED
    BY <2>0, <2>11
<1>11. QED
  BY <1>9, <1>10

\* The end of that loop keeps it.
LEMMA JoinKeeps ==
  ASSUME ExtractInv, Join \/ Respond
  PROVE  ExtractInv'
<1> USE DEF ExtractInv
<1>1. /\ handler' = handler /\ mode' = mode /\ llms' = llms /\ limit' = limit /\ slots' = slots /\ given' = given
      /\ next' = next /\ left' = left /\ fetch' = fetch /\ got' = got /\ cut' = cut
      /\ stage' \in {"filling", "done"} /\ Running = {} /\ next > limit
  BY DEF Join, Respond, config, Phased
<1>2. Running' = Running /\ Successes' = Successes
  BY <1>1 DEF Running, Successes
<1>3. ExtractTypeOK'
  <2>1. Cardinality(Running') = 0 /\ slots \in Nat
    BY <1>1, <1>2, FS_EmptySet, ExtractionAssumption DEF ExtractTypeOK
  <2>2. QED
    BY <1>1, <2>1 DEF ExtractTypeOK
<1>4. Touched' /\ PassesFollow' /\ RenderNeverRegresses'
  BY <1>1 DEF Touched, PassesFollow, RenderNeverRegresses, HasURL, Over
<1>5. InTime'
  BY <1>1 DEF InTime, Ample, BatchTimeout
<1>6. Phased'
  <2>1. CASE Respond
    BY <1>1, <1>2, <2>1 DEF Phased, Respond, HasURL, Over
  <2>2. CASE Join
    <3>1. stage = "spawning" /\ next <= limit + 1
      BY <2>2 DEF Join, Phased
    <3>2. \A j \in Results : j \in 1 .. limit => j < next
      BY <1>1 DEF ExtractTypeOK
    <3>3. \A j \in 1 .. limit : j \in Results
      BY ExtractionAssumption DEF ExtractTypeOK, Results
    <3>4. \A j \in 1 .. limit : HasURL(j) => Over(j)
      BY <1>1, <3>2, <3>3 DEF Running, Touched, Over
    <3>5. \A j \in Results : j > limit => j >= next
      BY <3>1, ExtractionAssumption DEF ExtractTypeOK, Results
    <3>6. \A j \in Results : j > limit => fetch[j].pass = "none"
      BY <3>5 DEF Touched, Idle
    <3>7. QED
      BY <1>1, <1>2, <3>4, <3>6 DEF Phased, HasURL, Over
  <2>3. QED
    BY <2>1, <2>2
<1>7. QED
  BY <1>1, <1>2, <1>3, <1>4, <1>5, <1>6

\* When fewer results than the limit succeeded, one of the top did not.
LEMMA SomeTopFailed ==
  ASSUME ExtractTypeOK, Successes < limit
  PROVE  \E j \in 1 .. limit : got[j] <= 0
<1> SUFFICES ASSUME \A j \in 1 .. limit : ~ (got[j] <= 0) PROVE FALSE
  OBVIOUS
<1> DEFINE S == {j \in Results : got[j] > 0}
<1>1. limit \in Nat /\ \A j \in 1 .. limit : j \in Results
  BY ExtractionAssumption DEF ExtractTypeOK, Results
<1>2. \A j \in Results : got[j] \in Int
  BY DEF ExtractTypeOK, Lengths, Failed, Unanswered
<1>3. 1 .. limit \subseteq S
  BY <1>1, <1>2
<1>4. IsFiniteSet(S)
  BY Finiteness, FS_Subset
<1>5. Cardinality(1 .. limit) = IF 1 > limit THEN 0 ELSE limit - 1 + 1
  BY <1>1, FS_Interval
<1>6. Cardinality(1 .. limit) = limit
  BY <1>1, <1>5
<1>7. Cardinality(1 .. limit) <= Cardinality(S) /\ Cardinality(S) \in Nat
  <2> HIDE DEF S
  <2> QED
    BY <1>3, <1>4, FS_Subset, FS_CardinalityType
<1>8. QED
  BY <1>1, <1>6, <1>7 DEF Successes

\* A candidate that stands in keeps it.
LEMMA FillInKeeps ==
  ASSUME ExtractInv, FillIn
  PROVE  ExtractInv'
<1> USE DEF ExtractInv
<1>1. /\ stage = "filling" /\ next > limit /\ next <= CandidateLimit /\ next' = next + 1 /\ Running = {}
      /\ handler' = handler /\ mode' = mode /\ llms' = llms /\ limit' = limit /\ slots' = slots /\ given' = given
      /\ stage' = stage /\ left' = left /\ Successes < limit
  BY DEF FillIn, config, Phased
<1>2. limit \in 0 .. N /\ N \in Nat /\ next \in Nat /\ next \in Results /\ next' \in 1 .. N + 1 /\ limit \in Nat
  BY <1>1, ExtractionAssumption, CandidateRange DEF Results, ExtractTypeOK
<1>3. PICK n \in Results : n = next
  BY <1>2
<1>4. \A j \in Results : HasURL(j)' = HasURL(j)
  BY <1>1 DEF HasURL
<1>5. \A j \in Results : j >= next' => j >= next /\ j # n
  BY <1>1, <1>2, <1>3 DEF Results
<1>6. \A j \in Results : j < next' => j < next \/ j = n
  BY <1>1, <1>2, <1>3 DEF Results
<1>7. \E j \in 1 .. limit : got[j] <= 0
  BY <1>1, SomeTopFailed
<1>8. \A j \in 1 .. limit : j \in Results \ {n}
  BY <1>1, <1>2, <1>3 DEF Results
<1>9. CASE ~ HasURL(next)
  <2>1. UNCHANGED <<fetch, got, cut>>
    BY <1>9 DEF FillIn
  <2>2. Running' = Running /\ Successes' = Successes
    BY <2>1 DEF Running, Successes
  <2>3. ExtractTypeOK'
    BY <1>1, <1>2, <2>1, <2>2 DEF ExtractTypeOK
  <2>4. Touched'
    BY <1>3, <1>4, <1>5, <1>6, <1>9, <2>1 DEF Touched
  <2>5. PassesFollow' /\ RenderNeverRegresses'
    BY <1>1, <2>1 DEF PassesFollow, RenderNeverRegresses, Over
  <2>6. Phased'
    <3>1. next' > limit
      BY <1>1, <1>2
    <3>2. QED
      BY <1>1, <2>1, <2>2, <3>1 DEF Phased, Over, HasURL
  <2>7. InTime'
    BY <1>1, <2>1 DEF InTime, Ample, BatchTimeout
  <2>8. QED
    BY <1>1, <2>2, <2>3, <2>4, <2>5, <2>6, <2>7
<1>10. CASE HasURL(next)
  <2>1. Enter(n) /\ HasURL(n) /\ n >= next
    BY <1>2, <1>3, <1>10 DEF FillIn
  <2>2. /\ fetch' \in [Results -> [pass : Passes, age : 0 .. Timeout, raw : Lengths \cup {Failed}]]
        /\ got' \in [Results -> Lengths \cup {Failed, Unanswered}]
        /\ \A j \in Results \ {n} : fetch'[j] = fetch[j] /\ got'[j] = got[j]
        /\ fetch'[n].age = 0 /\ fetch'[n].raw = Failed /\ n \notin Running
        /\ \/ /\ Expired /\ cut' = cut \cup {n}
              /\ fetch'[n].pass = "over" /\ got'[n] = Failed /\ Running' = Running
           \/ /\ ~ Expired /\ cut' = cut
              /\ fetch'[n].pass \in {"llms-full", "raw", "rendered"} /\ (fetch'[n].pass = "llms-full" => llms)
              /\ got' = got /\ Running' = Running \cup {n}
    BY <2>1, EnterEffect
  <2>3. Cardinality(Running') <= 1
    <3>1. Running' = {} \/ Running' = {n}
      BY <1>1, <2>2
    <3>2. Cardinality({}) = 0 /\ Cardinality({n}) = 1
      BY FS_EmptySet, FS_Singleton
    <3>3. QED
      BY <3>1, <3>2
  <2>4. ExtractTypeOK'
    <3>1. cut' \subseteq Results
      BY <2>2 DEF ExtractTypeOK
    <3>2. QED
      BY <1>1, <1>2, <2>2, <2>3, <3>1 DEF ExtractTypeOK
  <2>5. Touched'
    <3>1. fetch'[n].pass # "none"
      BY <2>2
    <3>2. QED
      BY <1>4, <1>5, <1>6, <2>1, <2>2, <3>1 DEF Touched
  <2>6. PassesFollow' /\ RenderNeverRegresses'
    <3>1. \A j \in Results \ {n} : Over(j)' = Over(j)
      BY <2>2 DEF Over
    <3>2. Over(n)' => got'[n] = Failed
      BY <2>2 DEF Over
    <3>3. PassesFollow'
      BY <1>1, <2>2, <3>1, <3>2 DEF PassesFollow, Unanswered, Failed
    <3>4. RenderNeverRegresses'
      BY <1>1, <2>2, <3>1, <3>2 DEF RenderNeverRegresses, Failed
    <3>5. QED
      BY <3>3, <3>4
  <2>7. Successes' <= Successes /\ Successes' \in Nat /\ Successes \in Nat
    <3>1. got'[n] = got[n] \/ ~ (got'[n] > 0)
      BY <2>2 DEF Failed
    <3>2. QED
      BY <2>2, <3>1, Finiteness, SuccessesGrow
  <2>8. Successes' < limit' /\ Successes' <= limit'
    BY <1>1, <1>2, <2>7
  <2>9. Phased'
    <3>1. (next > limit)' /\ stage' = "filling"
      BY <1>1, <1>2
    <3>2. \A j \in 1 .. limit : HasURL(j)' = HasURL(j) /\ Over(j)' = Over(j) /\ got'[j] = got[j]
      BY <1>4, <1>8, <2>2 DEF Over
    <3>3. \A j \in 1 .. limit : HasURL(j)' => Over(j)'
      BY <1>1, <3>2 DEF Phased
    <3>4. \E j \in 1 .. limit : got'[j] <= 0
      BY <1>7, <3>2
    <3>5. QED
      BY <1>1, <2>8, <3>1, <3>3, <3>4 DEF Phased
  <2>10. InTime'
    <3>1. n > limit
      BY <1>1, <1>3
    <3>2. QED
      BY <1>1, <2>2, <3>1 DEF InTime, Ample, BatchTimeout
  <2>11. QED
    BY <2>4, <2>5, <2>6, <2>8, <2>9, <2>10
<1>11. QED
  BY <1>9, <1>10

\* While the loop waits for a slot, a result of an earlier wave is running.
LEMMA EarlierWaveRuns ==
  ASSUME ExtractInv, stage = "spawning", next <= limit, Cardinality(Running) = slots
  PROVE  \E i \in Running : i <= next - slots
<1> USE DEF ExtractInv
<1> SUFFICES ASSUME \A i \in Running : ~ (i <= next - slots) PROVE FALSE
  OBVIOUS
<1>1. next \in Nat /\ slots \in Nat \ {0} /\ Results \subseteq Nat
  BY ExtractionAssumption DEF ExtractTypeOK, Results
<1>2. \A i \in Running : i \in Nat /\ i < next
  BY <1>1 DEF Running, Touched, Idle
<1>3. Running \subseteq (next - slots + 1) .. (next - 1)
  <2>1. \A i \in Running : i \in (next - slots + 1) .. (next - 1)
    BY <1>1, <1>2
  <2>2. QED
    BY <2>1
<1>4. /\ IsFiniteSet((next - slots + 1) .. (next - 1))
      /\ Cardinality((next - slots + 1) .. (next - 1)) <= slots - 1
  <2>1. next - slots + 1 \in Int /\ next - 1 \in Int
    BY <1>1
  <2>2. /\ IsFiniteSet((next - slots + 1) .. (next - 1))
        /\ Cardinality((next - slots + 1) .. (next - 1)) =
             IF next - slots + 1 > next - 1 THEN 0 ELSE (next - 1) - (next - slots + 1) + 1
    BY <2>1, FS_Interval
  <2>3. QED
    BY <1>1, <2>2
<1>5. Cardinality(Running) <= Cardinality((next - slots + 1) .. (next - 1))
      /\ Cardinality((next - slots + 1) .. (next - 1)) \in Nat
  BY <1>3, <1>4, FS_Subset, FS_CardinalityType
<1>6. QED
  BY <1>1, <1>4, <1>5

\* The passing of time keeps it: what runs has time of its own left.
LEMMA TickKeeps ==
  ASSUME ExtractInv, Tick
  PROVE  ExtractInv'
<1> USE DEF ExtractInv
<1>1. /\ handler' = handler /\ mode' = mode /\ llms' = llms /\ limit' = limit /\ slots' = slots /\ given' = given
      /\ next' = next /\ stage' = stage /\ got' = got /\ cut' = cut
      /\ left' = left - 1 /\ left # 0
      /\ fetch' = [i \in Results |-> IF i \in Running THEN [fetch[i] EXCEPT !.age = @ + 1] ELSE fetch[i]]
      /\ \A i \in Running : fetch[i].age < Timeout
  BY DEF Tick, config, Expired
<1>2. /\ fetch \in [Results -> [pass : Passes, age : 0 .. Timeout, raw : Lengths \cup {Failed}]]
      /\ Timeout \in Nat /\ left \in Nat /\ left' \in Nat
  <2> HIDE DEF ExtractInv
  <2>1. ExtractTypeOK
    BY DEF ExtractInv
  <2>2. /\ fetch \in [Results -> [pass : Passes, age : 0 .. Timeout, raw : Lengths \cup {Failed}]]
        /\ left \in Nat
    BY <2>1 DEF ExtractTypeOK
  <2>3. Timeout \in Nat
    BY ExtractionAssumption
  <2>4. left' \in Nat
    <3>1. left' = left - 1 /\ left # 0
      BY <1>1
    <3>2. QED
      BY <2>2, <3>1
  <2>5. QED
    BY <2>2, <2>3, <2>4
<1>3. /\ \A i \in Results : fetch'[i].pass = fetch[i].pass /\ fetch'[i].raw = fetch[i].raw
      /\ \A i \in Results \ Running : fetch'[i] = fetch[i]
      /\ \A i \in Running : i \in Results /\ fetch'[i].age = fetch[i].age + 1
      /\ \A i \in Results : fetch'[i] \in [pass : Passes, age : 0 .. Timeout, raw : Lengths \cup {Failed}]
  <2>1. \A i \in Running : i \in Results
    BY DEF Running
  <2>2. ASSUME NEW i \in Running
        PROVE  /\ fetch'[i].pass = fetch[i].pass /\ fetch'[i].raw = fetch[i].raw
               /\ fetch'[i].age = fetch[i].age + 1
               /\ fetch'[i] \in [pass : Passes, age : 0 .. Timeout, raw : Lengths \cup {Failed}]
    <3>1. fetch'[i] = [fetch[i] EXCEPT !.age = @ + 1]
      BY <1>1, <2>1
    <3>2. fetch[i] \in [pass : Passes, age : 0 .. Timeout, raw : Lengths \cup {Failed}]
      BY <1>2, <2>1
    <3>3. fetch[i].age + 1 \in 0 .. Timeout
      BY <1>1, <1>2, <3>2
    <3>4. QED
      BY <3>1, <3>2, <3>3
  <2>3. \A i \in Results \ Running : fetch'[i] = fetch[i]
    BY <1>1
  <2>4. QED
    BY <1>2, <2>1, <2>2, <2>3
<1>4. Running' = Running /\ Successes' = Successes
  BY <1>1, <1>3 DEF Running, Successes
<1>5. ExtractTypeOK'
  <2>1. fetch' \in [Results -> [pass : Passes, age : 0 .. Timeout, raw : Lengths \cup {Failed}]]
    BY <1>1, <1>3
  <2>2. QED
    BY <1>1, <1>2, <1>4, <2>1 DEF ExtractTypeOK
<1>6. \A i \in Results : Over(i)' = Over(i) /\ HasURL(i)' = HasURL(i)
  BY <1>1, <1>3 DEF Over, HasURL
<1>7. Touched'
  <2>1. \A i \in Results : i >= next => i \notin Running
    BY DEF Touched, Idle, Running
  <2>2. QED
    BY <1>1, <1>3, <1>6, <2>1 DEF Touched
<1>8. PassesFollow' /\ RenderNeverRegresses'
  BY <1>1, <1>3, <1>6 DEF PassesFollow, RenderNeverRegresses
<1>9. Phased'
  <2>1. \A j \in 1 .. limit : j \in Results
    BY ExtractionAssumption DEF ExtractTypeOK, Results
  <2>2. QED
    BY <1>1, <1>3, <1>4, <1>6, <2>1 DEF Phased
<1>10. InTime'
  <2> SUFFICES ASSUME ~ llms, stage = "spawning"
               PROVE  /\ next <= limit => Elapsed' <= 2 * Timeout * Wave(next)
                      /\ \A i \in Running : Elapsed' + Rest(i)' <= 2 * Timeout * (Wave(i) + 1)
    <3>1. \A i \in Running : Wave(i)' = Wave(i)
      BY <1>1 DEF Wave
    <3>2. Wave(next)' = Wave(next)
      BY <1>1 DEF Wave
    <3>3. Ample' <=> Ample
      BY <1>1 DEF Ample, BatchTimeout
    <3>4. QED
      BY <1>1, <1>4, <3>1, <3>2, <3>3 DEF InTime
  <2>2. Elapsed' = Elapsed + 1 /\ Elapsed \in Int
    BY <1>1, <1>2, TimeTypes DEF Elapsed, ExtractTypeOK
  <2>3. \A i \in Running : Rest(i)' = Rest(i) - 1 /\ Rest(i) \in Int /\ Rest(i) >= 1
    <3>1. \A i \in Running : fetch[i].age \in 0 .. Timeout
      BY <1>2 DEF Running
    <3>2. \A i \in Running : Rest(i)' = Rest(i) - 1
      BY <1>2, <1>3, <3>1 DEF Rest
    <3>3. QED
      BY <1>1, <1>3, <3>2, TimeTypes
  <2>4. \A i \in Running : Elapsed + Rest(i) <= 2 * Timeout * (Wave(i) + 1)
    BY DEF InTime
  <2>5. \A i \in Running : Elapsed' + Rest(i)' <= 2 * Timeout * (Wave(i) + 1)
    <3> SUFFICES ASSUME NEW i \in Running PROVE Elapsed' + Rest(i)' <= 2 * Timeout * (Wave(i) + 1)
      OBVIOUS
    <3>1. Elapsed' + Rest(i)' = Elapsed + Rest(i)
      BY <2>2, <2>3
    <3>2. QED
      BY <2>4, <3>1
  <2>6. ASSUME next <= limit PROVE Elapsed' <= 2 * Timeout * Wave(next)
    <3>1. Cardinality(Running) = slots
      BY <2>6 DEF Tick
    <3>2. PICK i \in Running : i <= next - slots
      BY <2>6, <3>1, EarlierWaveRuns
    <3>3. i \in Int /\ next \in Int /\ slots \in Nat \ {0} /\ Timeout \in Nat
      BY <1>3, ExtractionAssumption DEF ExtractTypeOK, Results
    <3>4. Wave(i) + 1 <= Wave(next)
      <4>1. i - 1 \in Int /\ next - 1 \in Int /\ (i - 1) + slots \in Int /\ (i - 1) + slots <= next - 1
        BY <3>2, <3>3
      <4>2. ((i - 1) + slots) \div slots = ((i - 1) \div slots) + 1
        BY <3>3, <4>1, DivFacts
      <4>3. ((i - 1) + slots) \div slots <= (next - 1) \div slots
        BY <3>3, <4>1, DivFacts
      <4>4. QED
        BY <4>2, <4>3 DEF Wave
    <3>5. Wave(i) + 1 \in Int /\ Wave(next) \in Int
          /\ 2 * Timeout * (Wave(i) + 1) \in Int /\ 2 * Timeout * Wave(next) \in Int
      <4>1. Wave(i) \in Int /\ Wave(next) \in Int /\ 2 * Timeout * (Wave(i) + 1) \in Int
            /\ 2 * Timeout * Wave(next) \in Int
        BY <3>3, TimeTypes
      <4>2. QED
        BY <4>1
    <3>6. 2 * Timeout * (Wave(i) + 1) <= 2 * Timeout * Wave(next)
      BY <3>3, <3>4, <3>5, TimesMonotone
    <3>7. Elapsed + Rest(i) <= 2 * Timeout * (Wave(i) + 1) /\ Rest(i) >= 1 /\ Rest(i) \in Int
      BY <2>3, <2>4
    <3>8. QED
      BY <2>2, <3>5, <3>6, <3>7
  <2>7. QED
    BY <2>5, <2>6
<1>11. QED
  BY <1>1, <1>4, <1>5, <1>7, <1>8, <1>9, <1>10

-----------------------------------------------------------------------------
(* Extraction: the theorems. *)

\* Every step of an extraction keeps it.
LEMMA ExtractStepKeeps == ExtractInv /\ [ExtractNext]_extractVars => ExtractInv'
<1> SUFFICES ASSUME ExtractInv, [ExtractNext]_extractVars PROVE ExtractInv'
  OBVIOUS
<1>1. CASE Fetching
  BY <1>1, PassKeeps DEF Fetching
<1>2. CASE Spawn
  BY <1>2, SpawnKeeps
<1>3. CASE Join \/ Respond
  BY <1>3, JoinKeeps
<1>4. CASE FillIn
  BY <1>4, FillInKeeps
<1>5. CASE Tick
  BY <1>5, TickKeeps
<1>6. CASE Responded \/ UNCHANGED extractVars
  <2>1. UNCHANGED extractVars
    BY <1>6 DEF Responded
  <2>2. QED
    BY <2>1 DEF extractVars, config, ExtractInv, ExtractTypeOK, Touched, PassesFollow, Phased, InTime, RenderNeverRegresses,
         Elapsed, Ample, Wave, Rest, BatchTimeout, CandidateLimit, Running, Successes, Over, HasURL
<1>7. QED
  BY <1>1, <1>2, <1>3, <1>4, <1>5, <1>6 DEF ExtractNext

\* What has been touched, which passes follow which, where the handler is, and
\* the time that the waves of the top have had, hold together in every state.
THEOREM ExtractInductive == ExtractSpec => []ExtractInv
<1>1. ExtractSpec => ExtractInit /\ [][ExtractNext]_extractVars
  BY PTL DEF ExtractSpec
<1>2. QED
  BY <1>1, InitExtractInv, ExtractStepKeeps, PTL

\* The state has its types, and sem and the fill-in loop bound what runs.
THEOREM ExtractTypeCorrect == ExtractSpec => []ExtractTypeOK
<1>1. ExtractInv => ExtractTypeOK
  BY DEF ExtractInv
<1>2. QED
  BY <1>1, ExtractInductive, PTL

\* Candidates below the top only stand in for results of a top that is over.
THEOREM FillInsReplace == ExtractSpec => []FillInOnlyReplaces
<1>1. ExtractInv => FillInOnlyReplaces
  <2> SUFFICES ASSUME ExtractInv PROVE FillInOnlyReplaces
    OBVIOUS
  <2> USE DEF ExtractInv
  <2>1. ASSUME stage = "spawning", NEW i \in Results, i > limit PROVE fetch[i].pass = "none"
    <3>1. i >= next
      BY <2>1, ExtractionAssumption DEF Phased, ExtractTypeOK, Results
    <3>2. QED
      BY <3>1 DEF Touched, Idle
  <2>2. QED
    BY <2>1 DEF FillInOnlyReplaces, Phased
<1>2. QED
  BY <1>1, ExtractInductive, PTL

\* A deadline that is not before the one BatchTimeout derives from the waves of the
\* top cuts no top result short.
THEOREM TopIsSpared == ExtractSpec => []DeadlineSparesTop
<1>1. ExtractInv => DeadlineSparesTop
  BY DEF ExtractInv, InTime, DeadlineSparesTop
<1>2. QED
  BY <1>1, ExtractInductive, PTL

\* Rendering never costs the content of the raw pass.
THEOREM RenderKeepsRaw == ExtractSpec => []RenderNeverRegresses
<1>1. ExtractInv => RenderNeverRegresses
  BY DEF ExtractInv
<1>2. QED
  BY <1>1, ExtractInductive, PTL

\* When the handler responds, a result of the top is unanswered only if it has no URL.
AnsweredWhenDone == stage = "done" => \A i \in 1 .. limit : HasURL(i) => got[i] # Unanswered

\* A response has, for every top result with a URL, its content or an error.
THEOREM ResponseIsComplete == ExtractSpec => []AnsweredWhenDone
<1>1. ExtractInv => AnsweredWhenDone
  <2> SUFFICES ASSUME ExtractInv, stage = "done", NEW i \in 1 .. limit, HasURL(i) PROVE got[i] # Unanswered
    BY DEF AnsweredWhenDone
  <2> USE DEF ExtractInv
  <2>1. Over(i)
    BY DEF Phased
  <2>2. i \in Results
    BY ExtractionAssumption DEF ExtractTypeOK, Results
  <2>3. QED
    BY <2>1, <2>2 DEF PassesFollow
<1>2. QED
  BY <1>1, ExtractInductive, PTL

=============================================================================
