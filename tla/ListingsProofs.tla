---------------------------- MODULE ListingsProofs ----------------------------
(***************************************************************************)
(* What Paginate returns, for lists and pages of any length: the contract  *)
(* has pages and counts of half a word (uint32), for which the arithmetic  *)
(* of uint64 does not wrap, the pages of a list are a partition of it, and *)
(* those of a list sorted by last update show the rows of their ranks.     *)
(***************************************************************************)
EXTENDS Listings, FiniteSetTheorems, TLAPS

\* The rows before a page, in exact arithmetic.
Before(page, count) == (IF page = 0 THEN 0 ELSE page - 1) * count

\* The end of a page stays below the word: p is the page less one.
LEMMA PageEnds ==
  ASSUME NEW half \in Nat, NEW p \in Nat, NEW count \in Nat,
         p + 2 <= half, count + 1 <= half
  PROVE  p * count \in Nat /\ p * count + count < half * half
<1>1. p * count \in Nat
  OBVIOUS
<1>2. (p + 1) * count <= (half - 1) * count
  OBVIOUS
<1>3. (half - 1) * count <= (half - 1) * (half - 1)
  OBVIOUS
<1>4. (half - 1) * (half - 1) < half * half
  OBVIOUS
<1>5. QED
  BY <1>1, <1>2, <1>3, <1>4

\* Below the word, the remainder is the number.
LEMMA SmallIsItself ==
  ASSUME NEW w \in Nat \ {0}, NEW n \in 0..w - 1
  PROVE  n % w = n
OBVIOUS

\* What Paginate promises: the rows behind the pages before it, at most count
\* of them, in the arithmetic of integers.
THEOREM PagesDoNotWrap ==
  ASSUME NEW half \in Nat, Word = half * half,
         NEW S, NEW items \in Seq(S),
         NEW page \in Nat, page < half, NEW count \in Nat \ {0}, count < half
  PROVE  Paginate(items, page, count) =
           IF Before(page, count) >= Len(items) THEN <<>>
           ELSE SubSeq(items, Before(page, count) + 1,
                       Least(Before(page, count) + count, Len(items)))
<1> DEFINE p == IF page = 0 THEN 0 ELSE page - 1
<1>1. p \in Nat /\ p + 2 <= half /\ count + 1 <= half
  OBVIOUS
<1>2. p * count \in Nat /\ p * count + count < half * half
  BY <1>1, PageEnds
<1>3. Word \in Nat \ {0} /\ p * count < Word /\ p * count + count < Word
  BY <1>2
<1>4. (p * count) % Word = p * count
  BY <1>2, <1>3, SmallIsItself
<1>5. (p * count + count) % Word = p * count + count
  BY <1>2, <1>3, SmallIsItself
<1>6. (IF page = 0 THEN 1 ELSE page) - 1 = p
  OBVIOUS
<1>7. Before(page, count) = p * count
  BY DEF Before
<1>8. QED
  BY <1>4, <1>5, <1>6, <1>7, Zenon DEF Paginate

-----------------------------------------------------------------------------
\* A page shows the rows behind those before it, one after the other: the
\* i-th order on a page is row (page - 1) * count + i of the list.
THEOREM RowsOfAPage ==
  ASSUME NEW half \in Nat, Word = half * half,
         NEW S, NEW items \in Seq(S),
         NEW page \in Nat \ {0}, page < half,
         NEW count \in Nat \ {0}, count < half
  PROVE  /\ Paginate(items, page, count) \in Seq(S)
         /\ Len(Paginate(items, page, count)) <= count
         /\ \A i \in 1..Len(Paginate(items, page, count)) :
               /\ (page - 1) * count + i \in 1..Len(items)
               /\ Paginate(items, page, count)[i] = items[(page - 1) * count + i]
<1> DEFINE before == (page - 1) * count
           end == Least(before + count, Len(items))
<1>1. before \in Nat /\ Len(items) \in Nat
  <2>1. page - 1 \in Nat /\ (page - 1) + 2 <= half /\ count + 1 <= half
    OBVIOUS
  <2>2. QED
    BY <2>1, PageEnds
<1>2. Before(page, count) = before
  BY DEF Before
<1> HIDE DEF before
<1>3. Paginate(items, page, count) =
        IF before >= Len(items) THEN <<>> ELSE SubSeq(items, before + 1, end)
  <2>1. page \in Nat
    OBVIOUS
  <2>2. QED
    BY <1>2, <2>1, PagesDoNotWrap, Zenon
<1>4. CASE before >= Len(items)
  <2>1. Paginate(items, page, count) = <<>>
    BY <1>3, <1>4
  <2>2. <<>> \in Seq(S) /\ Len(<<>>) <= count /\ 1..Len(<<>>) = {}
    OBVIOUS
  <2>3. QED
    BY <2>1, <2>2, Zenon
<1>5. CASE before < Len(items)
  <2>1. Paginate(items, page, count) = SubSeq(items, before + 1, end)
    <3>1. ~(before >= Len(items))
      BY <1>1, <1>5
    <3>2. QED
      BY <1>3, <3>1, Zenon
  <2>2. end \in Nat /\ before < end /\ end <= Len(items) /\ end <= before + count
    BY <1>1, <1>5 DEF Least
  <2> HIDE DEF end
  <2>3. /\ SubSeq(items, before + 1, end) \in Seq(S)
        /\ Len(SubSeq(items, before + 1, end)) = end - before
        /\ \A i \in 1..end - before :
              SubSeq(items, before + 1, end)[i] = items[before + i]
    BY <1>1, <2>2
  <2>4. /\ Len(SubSeq(items, before + 1, end)) <= count
        /\ \A i \in 1..Len(SubSeq(items, before + 1, end)) :
              /\ before + i \in 1..Len(items)
              /\ SubSeq(items, before + 1, end)[i] = items[before + i]
    BY <1>1, <2>2, <2>3
  <2>5. QED
    BY <2>1, <2>3, <2>4, Zenon DEF before
<1>6. QED
  BY <1>1, <1>4, <1>5

\* The rows of a slice are those of the list from where it begins.
LEMMA RowsOfASlice ==
  ASSUME NEW S, NEW items \in Seq(S),
         NEW before \in Nat, NEW end \in Nat,
         before <= end, end <= Len(items)
  PROVE  /\ Len(SubSeq(items, before + 1, end)) = end - before
         /\ \A i \in 1..end - before :
               SubSeq(items, before + 1, end)[i] = items[before + i]
  OBVIOUS

\* No row is left out: row k is on page (k - 1) \div count + 1, the page that
\* division by the size of a page says, at the place the remainder says.
THEOREM EveryRowIsShown ==
  ASSUME NEW half \in Nat, Word = half * half,
         NEW S, NEW items \in Seq(S),
         NEW count \in Nat \ {0}, count < half,
         NEW k \in 1..Len(items), ((k - 1) \div count) + 1 < half
  PROVE  LET page == ((k - 1) \div count) + 1
             i == ((k - 1) % count) + 1
         IN /\ i \in 1..Len(Paginate(items, page, count))
            /\ Paginate(items, page, count)[i] = items[k]
<1> DEFINE d == (k - 1) \div count
           r == (k - 1) % count
<1>1. k \in Nat /\ k >= 1 /\ k <= Len(items) /\ Len(items) \in Nat
  OBVIOUS
<1>2. d \in Nat /\ r \in Nat /\ r < count /\ k - 1 = count * d + r
  BY <1>1
<1> HIDE DEF d, r
<1>3. d + 1 \in Nat \ {0} /\ d + 1 < half /\ (d + 1) - 1 = d
  BY <1>2 DEF d
<1> DEFINE before == d * count
           end == Least(before + count, Len(items))
<1>4. before \in Nat /\ k = before + r + 1
  <2>1. d * count \in Nat /\ d * count = count * d
    BY <1>2
  <2>2. QED
    BY <1>1, <1>2, <2>1
<1>5. Before(d + 1, count) = before
  BY <1>3 DEF Before
<1> HIDE DEF before
<1>6. before < Len(items)
  BY <1>1, <1>2, <1>4
<1>7. Paginate(items, d + 1, count) =
        IF before >= Len(items) THEN <<>> ELSE SubSeq(items, before + 1, end)
  BY <1>3, <1>5, PagesDoNotWrap, Zenon
<1>8. Paginate(items, d + 1, count) = SubSeq(items, before + 1, end)
  <2>1. ~(before >= Len(items))
    BY <1>1, <1>4, <1>6
  <2>2. QED
    BY <1>7, <2>1, Zenon
<1>9. end \in Nat /\ before + r + 1 <= end /\ end <= Len(items)
  BY <1>1, <1>2, <1>4, <1>6 DEF Least
<1> HIDE DEF end
<1>10. before + (r + 1) = k /\ r + 1 \in 1..end - before
  BY <1>1, <1>2, <1>4, <1>9
<1>11. /\ Len(SubSeq(items, before + 1, end)) = end - before
       /\ SubSeq(items, before + 1, end)[r + 1] = items[before + (r + 1)]
  <2>1. before \in Nat /\ end \in Nat /\ before <= end /\ end <= Len(items)
    BY <1>2, <1>4, <1>9
  <2>2. /\ Len(SubSeq(items, before + 1, end)) = end - before
        /\ \A i \in 1..end - before :
              SubSeq(items, before + 1, end)[i] = items[before + i]
    BY <2>1, RowsOfASlice, Zenon
  <2>3. QED
    BY <1>10, <2>2, Zenon
<1>12. QED
  BY <1>8, <1>10, <1>11 DEF d, r

-----------------------------------------------------------------------------
(* The pages of a sorted list.                                             *)

\* The rows of a query are in the list once each, from the last update on.
LEMMA ListedOnce ==
  ASSUME NEW rows, IsFiniteSet(rows), NEW s \in ByLastUpdate(rows)
  PROVE  /\ s \in Seq(rows) /\ Len(s) = Cardinality(rows) /\ Cardinality(rows) \in Nat
         /\ \A i, j \in 1..Len(s) : i # j => s[i] # s[j]
         /\ \A i, j \in 1..Len(s) : i < j => s[i].at >= s[j].at
         /\ \A q \in rows : \E i \in 1..Len(s) : s[i] = q
<1> DEFINE n == Cardinality(rows)
<1>1. n \in Nat
  BY FS_CardinalityType
<1>2. /\ s \in [1..n -> rows]
      /\ \A i, j \in 1..n : i # j => s[i] # s[j]
      /\ \A i, j \in DOMAIN s : i < j => s[i].at >= s[j].at
  BY DEF ByLastUpdate, AnyOrder, Bijection, Injection, IsInjective
<1> HIDE DEF n
<1>3. s \in Seq(rows) /\ Len(s) = n
  BY <1>1, <1>2
<1>6. s \in Surjection(1..n, rows)
  BY DEF ByLastUpdate, AnyOrder, Bijection, n
<1>7. \A q \in rows : \E i \in 1..n : s[i] = q
  BY <1>6 DEF Surjection
<1>8. QED
  BY <1>1, <1>2, <1>3, <1>7 DEF n

\* The first rows of a list without repetitions are as many as they are.
LEMMA FirstRows ==
  ASSUME NEW S, NEW s \in Seq(S), \A i, j \in 1..Len(s) : i # j => s[i] # s[j],
         NEW k \in 0..Len(s), NEW T, \A x : x \in T <=> \E i \in 1..k : x = s[i]
  PROVE  IsFiniteSet(T) /\ Cardinality(T) = k
<1> DEFINE f == [i \in 1..k |-> s[i]]
<1>1. Len(s) \in Nat /\ k \in Nat /\ k <= Len(s)
  OBVIOUS
<1>2. IsFiniteSet(1..k) /\ Cardinality(1..k) = k
  BY <1>1, FS_Interval
<1>3. f \in Surjection(1..k, T)
  BY DEF Surjection
<1>4. f \in Injection(1..k, T)
  BY <1>1 DEF Injection, IsInjective
<1>5. QED
  BY <1>2, <1>3, <1>4, FS_Surjection

\* Row k of the list is the k-th by last update: fewer than k rows are newer,
\* and at least k are as new.
LEMMA RankOfRow ==
  ASSUME NEW rows, IsFiniteSet(rows), \A q \in rows : q.at \in Nat,
         NEW s \in ByLastUpdate(rows), NEW k \in 1..Len(s)
  PROVE  HasRank(s[k], k, rows)
<1>1. /\ s \in Seq(rows)
      /\ \A i, j \in 1..Len(s) : i # j => s[i] # s[j]
      /\ \A i, j \in 1..Len(s) : i < j => s[i].at >= s[j].at
      /\ \A q \in rows : \E i \in 1..Len(s) : s[i] = q
  BY ListedOnce
<1>2. Len(s) \in Nat /\ k \in Nat /\ k - 1 \in 0..Len(s) /\ k \in 0..Len(s)
  BY <1>1
<1>3. \A i \in 1..Len(s) : s[i] \in rows /\ s[i].at \in Nat
  BY <1>1
<1> DEFINE newer == {q \in rows : q.at > s[k].at}
           asNew == {q \in rows : q.at >= s[k].at}
           before == {s[i] : i \in 1..k - 1}
           upTo == {s[i] : i \in 1..k}
<1>4. ASSUME NEW n \in 0..Len(s), NEW T,
             \A x : x \in T <=> \E i \in 1..n : x = s[i]
      PROVE  IsFiniteSet(T) /\ Cardinality(T) = n
  BY <1>1, <1>4, FirstRows
<1>5. /\ IsFiniteSet(before) /\ Cardinality(before) = k - 1
      /\ IsFiniteSet(upTo) /\ Cardinality(upTo) = k
  <2>1. \A x : /\ x \in before <=> \E i \in 1..k - 1 : x = s[i]
               /\ x \in upTo <=> \E i \in 1..k : x = s[i]
    OBVIOUS
  <2> HIDE DEF before, upTo
  <2>2. QED
    BY <1>2, <1>4, <2>1
<1>6. newer \subseteq before
  <2> SUFFICES ASSUME NEW q \in rows, q.at > s[k].at PROVE q \in before
    OBVIOUS
  <2>1. PICK i \in 1..Len(s) : s[i] = q
    BY <1>1
  <2>2. ~(k < i) /\ i # k
    <3>1. s[i].at > s[k].at /\ s[i].at \in Nat /\ s[k].at \in Nat
      BY <1>3, <2>1
    <3>2. k < i => s[k].at >= s[i].at
      BY <1>1, <2>1
    <3>3. QED
      BY <3>1, <3>2
  <2>3. i \in 1..k - 1
    BY <1>2, <2>2
  <2>4. QED
    BY <2>1, <2>3
<1>7. upTo \subseteq asNew
  <2> SUFFICES ASSUME NEW i \in 1..k PROVE s[i] \in asNew
    OBVIOUS
  <2>1. i \in 1..Len(s) /\ (i < k \/ i = k)
    BY <1>2
  <2>2. s[i].at >= s[k].at
    BY <1>1, <1>3, <2>1
  <2>3. QED
    BY <1>3, <2>1, <2>2
<1>8. IsFiniteSet(asNew)
  BY FS_Subset
<1> HIDE DEF newer, asNew, before, upTo
<1>9. Cardinality(newer) <= k - 1 /\ Cardinality(newer) \in Nat
  BY <1>5, <1>6, FS_Subset, FS_CardinalityType
<1>10. k <= Cardinality(asNew) /\ Cardinality(asNew) \in Nat
  BY <1>5, <1>7, <1>8, FS_Subset, FS_CardinalityType
<1>11. QED
  BY <1>2, <1>9, <1>10 DEF HasRank, newer, asNew

\* How many of n rows are left when the pages before this one are shown.
Left(n, before) == IF n > before THEN n - before ELSE 0

\* A page of a sorted query shows the rows of its ranks, each once, and as
\* many as are left: row i of page p is the (p - 1) * count + i-th by last
\* update, whatever the order of rows of one instant.
THEOREM PagesAreByRank ==
  ASSUME NEW half \in Nat, Word = half * half,
         NEW rows, IsFiniteSet(rows), \A q \in rows : q.at \in Nat,
         NEW s \in ByLastUpdate(rows),
         NEW page \in Nat, page < half, NEW count \in Nat \ {0}, count < half
  PROVE  LET shown == Paginate(s, page, count)
             before == Before(page, count)
         IN /\ shown \in Seq(rows)
            /\ Len(shown) = Least(Left(Cardinality(rows), before), count)
            /\ \A i \in 1..Len(shown) : HasRank(shown[i], before + i, rows)
            /\ \A i, j \in 1..Len(shown) : i # j => shown[i] # shown[j]
<1> DEFINE shown == Paginate(s, page, count)
           before == Before(page, count)
           end == Least(before + count, Len(s))
<1>1. /\ s \in Seq(rows) /\ Len(s) = Cardinality(rows) /\ Len(s) \in Nat
      /\ \A i, j \in 1..Len(s) : i # j => s[i] # s[j]
  BY ListedOnce
<1>2. before \in Nat
  <2>1. CASE page = 0
    BY <2>1 DEF Before
  <2>2. CASE page # 0
    <3>1. page - 1 \in Nat /\ (page - 1) + 2 <= half /\ count + 1 <= half
      BY <2>2
    <3>2. (page - 1) * count \in Nat
      BY <3>1, PageEnds
    <3>3. QED
      BY <2>2, <3>2 DEF Before
  <2>3. QED
    BY <2>1, <2>2
<1>3. shown = IF before >= Len(s) THEN <<>> ELSE SubSeq(s, before + 1, end)
  BY <1>1, PagesDoNotWrap, Zenon
<1> HIDE DEF shown, before
<1>4. CASE before >= Len(s)
  <2>1. shown = <<>>
    BY <1>3, <1>4
  <2>2. shown \in Seq(rows) /\ Len(shown) = 0 /\ 1..Len(shown) = {}
    BY <2>1
  <2>3. Left(Cardinality(rows), before) = 0 /\ Least(0, count) = 0
    BY <1>1, <1>2, <1>4 DEF Left, Least
  <2>4. QED
    BY <2>2, <2>3, Zenon DEF shown, before
<1>5. CASE before < Len(s)
  <2>1. shown = SubSeq(s, before + 1, end)
    <3>1. ~(before >= Len(s))
      BY <1>1, <1>2, <1>5
    <3>2. QED
      BY <1>3, <3>1, Zenon
  <2>2. /\ end \in Nat /\ before <= end /\ end <= Len(s)
        /\ end - before = Least(Len(s) - before, count)
    BY <1>1, <1>2, <1>5 DEF Least
  <2> HIDE DEF end
  <2>3. /\ Len(shown) = end - before
        /\ \A i \in 1..end - before : shown[i] = s[before + i]
    BY <1>1, <1>2, <2>1, <2>2, RowsOfASlice, Zenon
  <2>4. shown \in Seq(rows)
    BY <1>1, <1>2, <2>1, <2>2
  <2>5. ASSUME NEW i \in 1..Len(shown)
        PROVE  before + i \in 1..Len(s) /\ shown[i] = s[before + i]
    BY <1>1, <1>2, <2>2, <2>3
  <2>6. ASSUME NEW i \in 1..Len(shown)
        PROVE  HasRank(shown[i], before + i, rows)
    <3>1. PICK k \in 1..Len(s) : k = before + i /\ shown[i] = s[k]
      BY <2>5
    <3>2. HasRank(s[k], k, rows)
      BY RankOfRow
    <3>3. QED
      BY <3>1, <3>2
  <2>7. ASSUME NEW i \in 1..Len(shown), NEW j \in 1..Len(shown), i # j
        PROVE  shown[i] # shown[j]
    <3>1. before + i # before + j
      BY <1>2, <2>2, <2>3, <2>7
    <3>2. QED
      BY <1>1, <2>5, <3>1
  <2>8. Len(shown) = Least(Left(Cardinality(rows), before), count)
    <3>1. Cardinality(rows) > before
      BY <1>1, <1>2, <1>5
    <3>2. Left(Cardinality(rows), before) = Len(s) - before
      BY <1>1, <3>1 DEF Left
    <3>3. QED
      BY <2>2, <2>3, <3>2
  <2>9. QED
    BY <2>4, <2>6, <2>7, <2>8 DEF shown, before
<1>6. before >= Len(s) \/ before < Len(s)
  BY <1>1, <1>2
<1>7. QED
  BY <1>4, <1>5, <1>6, Zenon
=============================================================================
