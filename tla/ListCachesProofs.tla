-------------------------- MODULE ListCachesProofs ---------------------------
(***************************************************************************)
(* The caches of lists, for any orders, receivers, goroutines and sizes:   *)
(* maps and lists agree, and no copy outlives the change that makes it     *)
(* wrong, unless a reader stored it too late.                              *)
(***************************************************************************)
EXTENDS ListCaches, FiniteSetTheorems, SequenceTheorems, WellFoundedInduction,
        TLAPS

\* What every method keeps of a cache whose keys are among K and whose values
\* are at most n: the list has no repetitions and the keys of the map.
Listing(s, K, S) == s \in Seq(K) /\ IsInjective(s) /\ Range(s) = S

Tidy(q, K, n) ==
    /\ q = [items |-> q.items, order |-> q.order]
    /\ Listing(q.order, K, DOMAIN q.items)
    /\ \A k \in DOMAIN q.items : q.items[k] \in [value : 0..n, age : 0..TTL + 1]

KeysOf(n) == {k \in Keys : CacheOf(k) = n}

CachesOK ==
    /\ DOMAIN cache = Caches
    /\ \A n \in Caches : /\ Tidy(cache[n], KeysOf(n), Len(log))
                         /\ Len(cache[n].order) <= MaxSize

\* Open transactions have their place in the log.
Open == {d \in Calls : InTransaction(d)}
CountOK == Len(log) + Cardinality(Open) <= MaxChanges

ReadersOK == \A c \in Calls : pc[c] \in {"query", "fill"} => key[c] \in Keys

\* The lists a change of an order can alter.
Affected(o) == {Owner[o], "returned", "all", o}

\* What the transaction has deleted is not cached, or was stored since.
DeletedOK(c) ==
    \A k \in Affected(change[c].order) : Cached(k) /\ Deleted(c, k) => k \in refilled[c]

WritersOK ==
    \A c \in Calls :
        /\ InTransaction(c) => change[c] \in Changes /\ DeletedOK(c)
        /\ pc[c] = "invalidate" => todo[c] # <<>>
        /\ pc[c] \in {"history", "commit"} => todo[c] = <<>>

\* The inductive invariant.
Inv == TypeOK /\ CachesOK /\ CountOK /\ ReadersOK /\ WritersOK

-----------------------------------------------------------------------------
(* Numbers.                                                                *)

\* A nonempty set of natural numbers has a least element.
LEMMA Least ==
  ASSUME NEW T, T \subseteq Nat, T # {}
  PROVE  \E x \in T : \A y \in T : x <= y
<1> DEFINE R == OpToRel(<, Nat)
<1>1. IsWellFoundedOn(R, Nat)
  BY NatLessThanWellFounded
<1>2. PICK x \in T : \A y \in T : <<y, x>> \notin R
  <2> HIDE DEF R
  <2>1. QED
    BY <1>1, WFMin
<1>3. ASSUME NEW y \in T PROVE x <= y
  <2>1. x \in Nat /\ y \in Nat /\ ~(y < x)
    BY <1>2 DEF OpToRel
  <2>2. QED
    BY <2>1
<1>4. QED
  BY <1>2, <1>3

\* A bounded one has a greatest, which is Max.
LEMMA Greatest ==
  ASSUME NEW n \in Nat, NEW T, T \subseteq 0..n, T # {}
  PROVE  /\ Max(T) \in T
         /\ \A x \in T : x <= Max(T)
<1> DEFINE D == {d \in 0..n : n - d \in T}
<1>1. PICK t \in T : TRUE
  OBVIOUS
<1>2. n - (n - t) = t /\ n - t \in 0..n
  BY <1>1
<1>3. D \subseteq Nat /\ D # {}
  BY <1>2
<1>4. PICK d \in D : \A e \in D : d <= e
  <2> HIDE DEF D
  <2>1. QED
    BY <1>3, Least
<1>5. \A x \in T : n - x \in D
  <2>1. ASSUME NEW x \in T PROVE n - x \in D
    <3>1. x \in 0..n /\ n - (n - x) = x /\ n - x \in 0..n
      OBVIOUS
    <3>2. QED
      BY <3>1
  <2>2. QED
    BY <2>1
<1>6. n - d \in T /\ \A x \in T : n - d >= x
  BY <1>4, <1>5
<1>7. QED
  BY <1>6 DEF Max

-----------------------------------------------------------------------------
(* The list of a cache.                                                    *)

LEMMA RemoveFromList ==
  ASSUME NEW K, NEW S, NEW s, Listing(s, K, S), NEW k \in S
  PROVE  /\ Listing(Remove(s, k), K, S \ {k})
         /\ Len(Remove(s, k)) = Len(s) - 1
<1> DEFINE i == CHOOSE j \in DOMAIN s : s[j] = k
           t == SubSeq(s, 1, i - 1) \o SubSeq(s, i + 1, Len(s))
<1>1. s \in Seq(K) /\ Len(s) \in Nat /\ DOMAIN s = 1..Len(s)
  BY DEF Listing
<1>2. i \in 1..Len(s) /\ s[i] = k
  <2>1. \E j \in DOMAIN s : s[j] = k
    BY DEF Listing, Range
  <2>2. QED
    BY <1>1, <2>1
<1> HIDE DEF i
<1>3. /\ t \in Seq(K) /\ Len(t) = Len(s) - 1
      /\ \A j \in 1..Len(s) - 1 : t[j] = IF j < i THEN s[j] ELSE s[j + 1]
  <2> DEFINE left == SubSeq(s, 1, i - 1)
             right == SubSeq(s, i + 1, Len(s))
  <2>1. /\ left \in Seq(K) /\ Len(left) = i - 1
        /\ \A j \in 1..i - 1 : left[j] = s[j]
    BY <1>1, <1>2
  <2>2. /\ right \in Seq(K) /\ Len(right) = Len(s) - i
        /\ \A j \in 1..Len(s) - i : right[j] = s[i + j]
    <3>1. /\ i + 1 \in Int /\ Len(s) \in Int /\ Len(s) - (i + 1) + 1 = Len(s) - i
          /\ \A j \in i + 1..Len(s) : s[j] \in K
      BY <1>1, <1>2
    <3>2. /\ right \in Seq(K)
          /\ Len(right) = IF i + 1 <= Len(s) THEN Len(s) - (i + 1) + 1 ELSE 0
          /\ \A j \in 1..Len(s) - (i + 1) + 1 : right[j] = s[(i + 1) + j - 1]
      BY <3>1, SubSeqProperties
    <3> HIDE DEF right
    <3>3. ASSUME NEW j \in 1..Len(s) - i PROVE right[j] = s[i + j]
      <4>1. (i + 1) + j - 1 = i + j
        BY <1>1, <1>2
      <4>2. QED
        BY <3>1, <3>2, <4>1
    <3>4. Len(right) = Len(s) - i
      <4>1. Len(s) \in Nat /\ i \in Nat /\ i <= Len(s)
        BY <1>1, <1>2
      <4> HIDE DEF right
      <4>2. QED
        BY <3>2, <4>1
    <3>5. QED
      BY <3>2, <3>3, <3>4
  <2> HIDE DEF left, right
  <2>3. /\ left \o right \in Seq(K) /\ Len(left \o right) = Len(s) - 1
        /\ \A j \in 1..Len(s) - 1 :
              (left \o right)[j] = IF j < i THEN left[j] ELSE right[j - (i - 1)]
    <3>1. /\ left \o right \in Seq(K) /\ Len(left \o right) = Len(left) + Len(right)
          /\ \A j \in 1..Len(left) + Len(right) :
                (left \o right)[j] = IF j <= Len(left) THEN left[j]
                                     ELSE right[j - Len(left)]
      BY <2>1, <2>2, ConcatProperties
    <3>2. Len(left) + Len(right) = Len(s) - 1
      BY <1>1, <1>2, <2>1, <2>2
    <3>3. \A j \in 1..Len(s) - 1 : j <= Len(left) <=> j < i
      BY <1>1, <1>2, <2>1
    <3>4. QED
      BY <2>1, <3>1, <3>2, <3>3
  <2>4. ASSUME NEW j \in 1..Len(s) - 1, ~(j < i) PROVE right[j - (i - 1)] = s[j + 1]
    <3>1. j - (i - 1) \in 1..Len(s) - i /\ i + (j - (i - 1)) = j + 1
      BY <1>1, <1>2, <2>4
    <3>2. QED
      BY <2>2, <3>1
  <2>5. ASSUME NEW j \in 1..Len(s) - 1, j < i PROVE left[j] = s[j]
    BY <1>1, <1>2, <2>1, <2>5
  <2>6. t = left \o right
    BY DEF left, right
  <2> HIDE DEF t
  <2>7. QED
    BY <2>3, <2>4, <2>5, <2>6
<1> HIDE DEF t
<1>4. IsInjective(t)
  <2>1. ASSUME NEW a \in 1..Len(s) - 1, NEW b \in 1..Len(s) - 1, t[a] = t[b] PROVE a = b
    <3>1. \A x, y \in 1..Len(s) : s[x] = s[y] => x = y
      BY <1>1 DEF Listing, IsInjective
    <3>2. QED
      BY <1>1, <1>2, <1>3, <2>1, <3>1
  <2>2. QED
    BY <1>1, <1>3, <2>1 DEF IsInjective
<1>5. Range(t) = S \ {k}
  <2>1. ASSUME NEW a \in 1..Len(s) - 1 PROVE t[a] \in S \ {k}
    <3>1. PICK x \in 1..Len(s) : t[a] = s[x] /\ x # i
      BY <1>1, <1>2, <1>3
    <3>2. s[x] # s[i] /\ s[x] \in Range(s)
      BY <1>1, <1>2, <3>1 DEF Listing, IsInjective, Range
    <3>3. QED
      BY <1>2, <3>1, <3>2 DEF Listing
  <2>2. ASSUME NEW x \in S \ {k} PROVE \E a \in 1..Len(s) - 1 : t[a] = x
    <3>1. PICK j \in 1..Len(s) : s[j] = x
      BY <1>1 DEF Listing, Range
    <3>2. j # i
      BY <1>2, <3>1
    <3>3. CASE j < i
      BY <1>1, <1>2, <1>3, <3>1, <3>3
    <3>4. CASE j > i
      <4>1. j - 1 \in 1..Len(s) - 1 /\ ~(j - 1 < i) /\ (j - 1) + 1 = j
        BY <1>1, <1>2, <3>4
      <4>2. QED
        BY <1>3, <3>1, <4>1
    <3>5. QED
      BY <1>1, <1>2, <3>2, <3>3, <3>4
  <2>3. DOMAIN t = 1..Len(s) - 1
    BY <1>3
  <2>4. QED
    BY <2>1, <2>2, <2>3 DEF Range
<1>6. Remove(s, k) = t
  BY DEF Remove, t, i
<1>7. QED
  BY <1>3, <1>4, <1>5, <1>6 DEF Listing

LEMMA PushOnList ==
  ASSUME NEW K, NEW S, NEW s, Listing(s, K, S), NEW k \in K, k \notin S
  PROVE  /\ Listing(<<k>> \o s, K, S \cup {k})
         /\ Len(<<k>> \o s) = Len(s) + 1
<1> DEFINE t == <<k>> \o s
<1>1. s \in Seq(K) /\ Len(s) \in Nat /\ DOMAIN s = 1..Len(s)
  BY DEF Listing
<1>2. /\ t \in Seq(K) /\ Len(t) = Len(s) + 1 /\ DOMAIN t = 1..Len(s) + 1
      /\ \A j \in 1..Len(s) + 1 : t[j] = IF j = 1 THEN k ELSE s[j - 1]
  BY <1>1
<1> HIDE DEF t
<1>3. \A j \in 1..Len(s) : s[j] \in S
  BY <1>1 DEF Listing, Range
<1>4. IsInjective(t)
  <2>1. \A x, y \in 1..Len(s) : s[x] = s[y] => x = y
    BY <1>1 DEF Listing, IsInjective
  <2>2. ASSUME NEW a \in 1..Len(s) + 1, NEW b \in 1..Len(s) + 1, t[a] = t[b] PROVE a = b
    <3>1. CASE a = 1 \/ b = 1
      BY <1>1, <1>2, <1>3, <2>2, <3>1
    <3>2. CASE a # 1 /\ b # 1
      <4>1. a - 1 \in 1..Len(s) /\ b - 1 \in 1..Len(s) /\ s[a - 1] = s[b - 1]
        BY <1>1, <1>2, <2>2, <3>2
      <4>2. QED
        BY <1>1, <2>1, <4>1
    <3>3. QED
      BY <3>1, <3>2
  <2>3. QED
    BY <1>2, <2>2 DEF IsInjective
<1>5. Range(t) = S \cup {k}
  <2>1. \A a \in 1..Len(s) + 1 : t[a] \in S \cup {k}
    BY <1>1, <1>2, <1>3
  <2>2. ASSUME NEW x \in S PROVE \E a \in 1..Len(s) + 1 : t[a] = x
    <3>1. PICK j \in 1..Len(s) : s[j] = x
      BY <1>1 DEF Listing, Range
    <3>2. j + 1 \in 1..Len(s) + 1 /\ j + 1 # 1 /\ (j + 1) - 1 = j
      BY <1>1
    <3>3. QED
      BY <1>2, <3>1, <3>2
  <2>3. 1 \in 1..Len(s) + 1 /\ t[1] = k
    BY <1>1, <1>2
  <2>4. Range(t) = {t[a] : a \in 1..Len(s) + 1}
    BY <1>2 DEF Range
  <2>5. QED
    BY <2>1, <2>2, <2>3, <2>4
<1>6. QED
  BY <1>2, <1>4, <1>5 DEF Listing, t

LEMMA PrefixOfList ==
  ASSUME NEW K, NEW S, NEW s, Listing(s, K, S), NEW n \in 0..Len(s),
         NEW R, R = {s[i] : i \in 1..n}
  PROVE  /\ Listing(SubSeq(s, 1, n), K, R) /\ Len(SubSeq(s, 1, n)) = n
         /\ R \subseteq S
<1> DEFINE t == SubSeq(s, 1, n)
<1>1. s \in Seq(K) /\ Len(s) \in Nat /\ DOMAIN s = 1..Len(s) /\ n \in Nat
  BY DEF Listing
<1>2. /\ t \in Seq(K) /\ Len(t) = n /\ DOMAIN t = 1..n
      /\ \A j \in 1..n : t[j] = s[j] /\ j \in DOMAIN s
  BY <1>1
<1> HIDE DEF t
<1>3. QED
  BY <1>1, <1>2 DEF Listing, IsInjective, Range, t

-----------------------------------------------------------------------------
(* The methods.                                                            *)

\* Entries of r are entries of q, used or older.
Within(r, q) ==
    \A k \in DOMAIN r.items : k \in DOMAIN q.items /\ r.items[k].value = q.items[k].value

LEMMA NewOrder ==
  ASSUME NEW q, q = [items |-> q.items, order |-> q.order], NEW s
  PROVE  [q EXCEPT !.order = s] = [items |-> q.items, order |-> s]
<1> SUFFICES ASSUME NEW a, NEW b, q = [items |-> a, order |-> b]
             PROVE  [q EXCEPT !.order = s] = [items |-> a, order |-> s]
  BY Zenon
<1> QED
  OBVIOUS

LEMMA NewItems ==
  ASSUME NEW q, q = [items |-> q.items, order |-> q.order], NEW f
  PROVE  [q EXCEPT !.items = f] = [items |-> f, order |-> q.order]
<1> SUFFICES ASSUME NEW a, NEW b, q = [items |-> a, order |-> b]
             PROVE  [q EXCEPT !.items = f] = [items |-> f, order |-> b]
  BY Zenon
<1> QED
  OBVIOUS

LEMMA EmptyIsTidy ==
  ASSUME NEW K, NEW n
  PROVE  Tidy(Empty, K, n) /\ DOMAIN Empty.items = {} /\ Len(Empty.order) = 0
<1>1. /\ <<>> \in Seq(K) /\ Len(<<>>) = 0 /\ DOMAIN <<>> = {}
  OBVIOUS
<1>2. QED
  BY <1>1 DEF Tidy, Empty, Listing, IsInjective, Range

LEMMA RemoveElement ==
  ASSUME NEW K, NEW n, NEW q, Tidy(q, K, n), NEW k \in DOMAIN q.items
  PROVE  /\ Tidy(removeElement(q, k), K, n)
         /\ DOMAIN removeElement(q, k).items = DOMAIN q.items \ {k}
         /\ Len(removeElement(q, k).order) = Len(q.order) - 1
         /\ Within(removeElement(q, k), q)
<1>1. /\ Listing(Remove(q.order, k), K, DOMAIN q.items \ {k})
      /\ Len(Remove(q.order, k)) = Len(q.order) - 1
  BY RemoveFromList DEF Tidy
<1>2. QED
  BY <1>1 DEF Tidy, removeElement, Restrict, Within

LEMMA MovesToFront ==
  ASSUME NEW K, NEW n, NEW q, Tidy(q, K, n), NEW k \in DOMAIN q.items
  PROVE  /\ Tidy(MoveToFront(q, k), K, n)
         /\ MoveToFront(q, k).items = q.items
         /\ Len(MoveToFront(q, k).order) = Len(q.order)
<1> DEFINE rest == Remove(q.order, k)
           list == <<k>> \o rest
<1>1. Listing(rest, K, DOMAIN q.items \ {k}) /\ Len(rest) = Len(q.order) - 1
  BY RemoveFromList DEF Tidy
<1>2. k \in K /\ Len(q.order) \in Nat
  BY DEF Tidy, Listing, Range
<1>3. MoveToFront(q, k) = [items |-> q.items, order |-> list]
  BY NewOrder DEF MoveToFront, Tidy
<1> HIDE DEF rest
<1>4. Listing(list, K, (DOMAIN q.items \ {k}) \cup {k}) /\ Len(list) = Len(rest) + 1
  BY <1>1, <1>2, PushOnList
<1> HIDE DEF list
<1>5. (DOMAIN q.items \ {k}) \cup {k} = DOMAIN q.items /\ Len(rest) + 1 = Len(q.order)
  BY <1>1, <1>2
<1> DEFINE r == MoveToFront(q, k)
<1>6. r.items = q.items /\ r.order = list /\ r = [items |-> r.items, order |-> r.order]
  BY <1>3
<1> HIDE DEF r
<1>7. Tidy(r, K, n) /\ r.items = q.items /\ Len(r.order) = Len(q.order)
  BY <1>4, <1>5, <1>6 DEF Tidy
<1>8. QED
  BY <1>7 DEF r

LEMMA GetKeeps ==
  ASSUME NEW K, NEW n, NEW q, Tidy(q, K, n), NEW k
  PROVE  /\ Tidy(Get(q, k), K, n) /\ Within(Get(q, k), q)
         /\ Len(Get(q, k).order) <= Len(q.order)
<1>1. Len(q.order) \in Nat
  BY DEF Tidy, Listing
<1>2. CASE Hit(q, k)
  BY <1>1, <1>2, MovesToFront DEF Get, Hit, Has, Within
<1>3. CASE ~Hit(q, k) /\ Has(q, k)
  BY <1>1, <1>3, RemoveElement DEF Get, Has
<1>4. CASE ~Hit(q, k) /\ ~Has(q, k)
  BY <1>1, <1>4 DEF Get, Within
<1>5. QED
  BY <1>2, <1>3, <1>4

LEMMA DeleteKeeps ==
  ASSUME NEW K, NEW n, NEW q, Tidy(q, K, n), NEW k
  PROVE  /\ Tidy(Delete(q, k), K, n) /\ Within(Delete(q, k), q)
         /\ Len(Delete(q, k).order) <= Len(q.order)
         /\ k \notin DOMAIN Delete(q, k).items
<1>1. Len(q.order) \in Nat
  BY DEF Tidy, Listing
<1>2. CASE Has(q, k)
  BY <1>1, <1>2, RemoveElement DEF Delete, Has
<1>3. CASE ~Has(q, k)
  BY <1>1, <1>3 DEF Delete, Within, Has
<1>4. QED
  BY <1>2, <1>3

LEMMA OlderKeeps ==
  ASSUME NEW K, NEW n, NEW q, Tidy(q, K, n)
  PROVE  /\ Tidy(Older(q), K, n) /\ Within(Older(q), q)
         /\ Len(Older(q).order) = Len(q.order)
<1> DEFINE older == [k \in DOMAIN q.items |-> Aged(q.items[k])]
<1>1. Older(q) = [items |-> older, order |-> q.order]
  <2>1. Older(q) = [q EXCEPT !.items = older]
    BY DEF Older
  <2> HIDE DEF older
  <2>2. QED
    BY <2>1, NewItems DEF Tidy
<1>2. ASSUME NEW k \in DOMAIN q.items
      PROVE  /\ older[k] \in [value : 0..n, age : 0..TTL + 1]
             /\ older[k].value = q.items[k].value
  BY CacheAssumption DEF Tidy, Aged
<1>3. DOMAIN older = DOMAIN q.items
  OBVIOUS
<1> HIDE DEF older
<1>4. QED
  BY <1>1, <1>2, <1>3 DEF Tidy, Within

LEMMA CleanupKeeps ==
  ASSUME NEW K, NEW n, NEW q, Tidy(q, K, n)
  PROVE  /\ Tidy(CleanupExpired(q), K, n) /\ Within(CleanupExpired(q), q)
         /\ Len(CleanupExpired(q).order) <= Len(q.order)
<1> DEFINE last == Max(FreshAt(q) \cup {0})
           kept == {q.order[i] : i \in 1..last}
           prefix == SubSeq(q.order, 1, last)
<1>1. Listing(q.order, K, DOMAIN q.items) /\ Len(q.order) \in Nat
  BY DEF Tidy, Listing
<1>2. last \in 0..Len(q.order)
  <2>1. FreshAt(q) \cup {0} \subseteq 0..Len(q.order)
    BY <1>1 DEF FreshAt, Listing
  <2>2. QED
    BY <1>1, <2>1, Greatest
<1>4. CleanupExpired(q) = [items |-> Restrict(q.items, kept), order |-> prefix]
  BY DEF CleanupExpired, Keep
<1>3. kept = {q.order[i] : i \in 1..last}
  OBVIOUS
<1> HIDE DEF last, kept
<1>5. Listing(prefix, K, kept) /\ Len(prefix) = last /\ kept \subseteq DOMAIN q.items
  BY <1>1, <1>2, <1>3, PrefixOfList
<1> HIDE DEF prefix
<1>6. QED
  BY <1>1, <1>2, <1>4, <1>5 DEF Tidy, Restrict, Within

LEMMA SetKeeps ==
  ASSUME NEW K, NEW n, NEW q, Tidy(q, K, n), NEW k \in K, NEW v \in 0..n,
         Len(q.order) <= MaxSize
  PROVE  /\ Tidy(Set(q, k, v), K, n)
         /\ Len(Set(q, k, v).order) <= MaxSize
         /\ \A x \in DOMAIN Set(q, k, v).items : x \in DOMAIN q.items \cup {k}
<1>1. Len(q.order) \in Nat /\ MaxSize \in Nat \ {0} /\ TTL \in Nat
  BY CacheAssumption DEF Tidy, Listing
<1> DEFINE stored == [x \in DOMAIN q.items \cup {k} |->
                        IF x = k THEN [value |-> v, age |-> 0] ELSE q.items[x]]
<1>2. /\ DOMAIN stored = DOMAIN q.items \cup {k}
      /\ \A x \in DOMAIN stored : stored[x] \in [value : 0..n, age : 0..TTL + 1]
  BY <1>1 DEF Tidy
<1>3. CASE Has(q, k)
  <2> DEFINE r == MoveToFront(q, k)
  <2>1. Tidy(r, K, n) /\ r.items = q.items /\ Len(r.order) = Len(q.order)
    BY <1>3, MovesToFront DEF Has
  <2> HIDE DEF r
  <2>2. Store(r, k, v) = [items |-> stored, order |-> r.order]
    BY <2>1 DEF Store, Tidy
  <2>3. DOMAIN q.items \cup {k} = DOMAIN q.items
    BY <1>3 DEF Has
  <2>4. Set(q, k, v) = Store(r, k, v)
    BY <1>3 DEF Set, r
  <2> HIDE DEF stored
  <2>5. QED
    BY <1>2, <2>1, <2>2, <2>3, <2>4 DEF Tidy
<1>4. CASE ~Has(q, k)
  <2> DEFINE r == Store(PushFront(q, k), k, v)
  <2>1. /\ Listing(<<k>> \o q.order, K, DOMAIN q.items \cup {k})
        /\ Len(<<k>> \o q.order) = Len(q.order) + 1
    BY <1>4, PushOnList DEF Has, Tidy
  <2>2. r = [items |-> stored, order |-> <<k>> \o q.order]
    <3> DEFINE p == PushFront(q, k)
               f == <<k>> \o q.order
    <3>1. p = [items |-> q.items, order |-> f]
      BY NewOrder DEF PushFront, Tidy
    <3> HIDE DEF p, f
    <3>2. p.items = q.items /\ p.order = f /\ p = [items |-> p.items, order |-> p.order]
      BY <3>1
    <3>3. Store(p, k, v) = [p EXCEPT !.items = stored]
      BY <3>2, Zenon DEF Store
    <3> HIDE DEF stored
    <3>4. Store(p, k, v) = [items |-> stored, order |-> f]
      BY <3>2, <3>3, NewItems
    <3>5. QED
      BY <3>4 DEF p, f
  <2> HIDE DEF stored, r
  <2>3. Tidy(r, K, n) /\ Len(r.order) = Len(q.order) + 1 /\ r.items = stored
    BY <1>2, <2>1, <2>2 DEF Tidy
  <2>4. CASE Len(r.order) > MaxSize
    <3> DEFINE oldest == r.order[Len(r.order)]
    <3>1. oldest \in DOMAIN r.items
      <4>1. Len(r.order) \in DOMAIN r.order
        BY <1>1, <2>3 DEF Tidy, Listing
      <4>2. QED
        BY <2>3, <4>1 DEF Tidy, Listing, Range
    <3> HIDE DEF oldest
    <3>2. Set(q, k, v) = removeElement(r, oldest)
      BY <1>4, <2>4 DEF Set, removeOldest, r, oldest
    <3>3. /\ Tidy(Set(q, k, v), K, n)
          /\ DOMAIN Set(q, k, v).items = DOMAIN r.items \ {oldest}
          /\ Len(Set(q, k, v).order) = Len(r.order) - 1
      BY <2>3, <3>1, <3>2, RemoveElement
    <3>4. Len(r.order) - 1 <= MaxSize
      BY <1>1, <2>3
    <3>5. QED
      BY <1>2, <2>3, <3>3, <3>4
  <2>5. CASE ~(Len(r.order) > MaxSize)
    <3>1. Set(q, k, v) = r
      BY <1>4, <2>5 DEF Set, r
    <3>2. QED
      BY <1>1, <1>2, <2>3, <2>5, <3>1
  <2>6. QED
    BY <2>4, <2>5
<1>5. QED
  BY <1>3, <1>4

-----------------------------------------------------------------------------
(* Steps.                                                                  *)

\* The types of what is not in a cache.
Types ==
    /\ log \in Seq(Changes) /\ Len(log) <= MaxChanges
    /\ pc \in [Calls -> {"idle", "query", "fill", "invalidate", "history", "commit"}]
    /\ key \in [Calls -> Keys \cup {None}]
    /\ snap \in [Calls -> 0..Len(log)]
    /\ change \in [Calls -> Changes \cup {None}]
    /\ todo \in [Calls -> Seq(Keys)]
    /\ refilled \in [Calls -> SUBSET Keys]

LEMMA TypesOfCaches == TypeOK <=> Types /\ \A n \in Caches : \A k \in DOMAIN cache[n].items :
                          /\ k \in Keys /\ CacheOf(k) = n
                          /\ cache[n].items[k] \in [value : 0..Len(log), age : 0..TTL + 1]
BY DEF TypeOK, Types

LEMMA TypesSuffice == Types /\ CachesOK => TypeOK
<1> SUFFICES ASSUME Types, CachesOK, NEW n \in Caches, NEW k \in DOMAIN cache[n].items
             PROVE  /\ k \in Keys /\ CacheOf(k) = n
                    /\ cache[n].items[k] \in [value : 0..Len(log), age : 0..TTL + 1]
  BY TypesOfCaches
<1>1. Tidy(cache[n], KeysOf(n), Len(log))
  BY DEF CachesOK
<1>2. k \in KeysOf(n)
  BY <1>1 DEF Tidy, Listing, Range
<1>3. QED
  BY <1>1, <1>2 DEF Tidy, KeysOf

LEMMA WhereKeysAre == \A k \in Keys : CacheOf(k) \in Caches /\ k \in KeysOf(CacheOf(k))
BY DEF CacheOf, Caches, KeysOf

LEMMA Touched == \A o \in Orders : Affected(o) \subseteq Keys
BY ListAssumption DEF Affected, Keys, ListKeys

\* A step that only lets entries go, or uses them.
LEMMA CachesShrink ==
  ASSUME Inv, \A n \in Caches : Within(cache'[n], cache[n])
  PROVE  \A k \in Keys : Cached(k)' => Cached(k)
BY WhereKeysAre DEF Within, Cached, Has, CacheOf

LEMMA DeletedStays ==
  ASSUME \A k \in Keys : Cached(k)' => Cached(k), WritersOK,
         NEW c \in Calls, InTransaction(c), change'[c] = change[c],
         pc'[c] = pc[c], todo'[c] = todo[c], refilled'[c] = refilled[c]
  PROVE  InTransaction(c)' /\ DeletedOK(c)'
<1>1. change[c].order \in Orders /\ DeletedOK(c)
  BY DEF WritersOK, Changes
<1>2. QED
  BY <1>1, Touched DEF DeletedOK, Deleted, InTransaction

\* Nothing but the caches changes.
LEMMA OnlyCaches ==
  ASSUME Inv, UNCHANGED <<log, pc, reader, writer, refilled>>, CachesOK',
         \A n \in Caches : Within(cache'[n], cache[n])
  PROVE  Inv'
<1>1. Types' /\ CountOK' /\ ReadersOK'
  BY DEF Inv, TypeOK, Types, CountOK, Open, ReadersOK, InTransaction, reader, writer
<1>2. WritersOK'
  BY CachesShrink, DeletedStays DEF Inv, WritersOK, InTransaction, writer
<1>3. TypeOK'
  BY <1>1, TypesSuffice, PTL
<1>4. QED
  BY <1>1, <1>2, <1>3 DEF Inv

LEMMA StepsOfCaches ==
  ASSUME Inv, Cleanup \/ ClearCache \/ Tick
  PROVE  Inv'
<1>1. /\ UNCHANGED <<log, pc, reader, writer, refilled>>
      /\ DOMAIN cache' = Caches
  BY DEF Cleanup, ClearCache, Tick, AllCaches
<1>2. ASSUME NEW n \in Caches
      PROVE  /\ Tidy(cache'[n], KeysOf(n), Len(log)) /\ Len(cache'[n].order) <= MaxSize
             /\ Within(cache'[n], cache[n])
  <2>1. /\ Tidy(cache[n], KeysOf(n), Len(log)) /\ Len(cache[n].order) <= MaxSize
        /\ Len(cache[n].order) \in Nat /\ MaxSize \in Nat
    BY CacheAssumption DEF Inv, CachesOK, Tidy, Listing
  <2>2. CASE Cleanup
    <3> DEFINE q == CleanupExpired(cache[n])
    <3>1. cache'[n] = q
      BY <2>2 DEF Cleanup, AllCaches
    <3>2. /\ Tidy(q, KeysOf(n), Len(log)) /\ Within(q, cache[n])
          /\ Len(q.order) <= Len(cache[n].order)
      BY <2>1, CleanupKeeps
    <3> HIDE DEF q
    <3>3. Len(q.order) \in Nat
      BY <3>2 DEF Tidy, Listing
    <3>4. QED
      BY <2>1, <3>1, <3>2, <3>3
  <2>3. CASE ClearCache
    <3>1. cache'[n] = Empty
      BY <2>3 DEF ClearCache, AllCaches
    <3>2. QED
      BY <2>1, <3>1, EmptyIsTidy DEF Within
  <2>4. CASE Tick
    <3>1. cache'[n] = Older(cache[n])
      BY <2>4 DEF Tick, AllCaches
    <3>2. QED
      BY <2>1, <3>1, OlderKeeps
  <2>5. QED
    BY <2>2, <2>3, <2>4
<1>3. CachesOK' /\ \A n \in Caches : Within(cache'[n], cache[n])
  BY <1>1, <1>2 DEF CachesOK
<1>4. QED
  BY <1>1, <1>3, OnlyCaches

\* One of the caches changes.
LEMMA OneCache ==
  ASSUME Inv, NEW m \in Caches, NEW q, Tidy(q, KeysOf(m), Len(log)), Len(q.order) <= MaxSize,
         cache' = [cache EXCEPT ![m] = q], log' = log
  PROVE  CachesOK'
BY DEF Inv, CachesOK

LEMMA OneShrinks ==
  ASSUME Inv, NEW m \in Caches, NEW q, Within(q, cache[m]), cache' = [cache EXCEPT ![m] = q]
  PROVE  \A k \in Keys : Cached(k)' => Cached(k)
<1>1. \A n \in Caches : Within(cache'[n], cache[n])
  BY DEF Inv, CachesOK, Within
<1>2. QED
  BY <1>1, CachesShrink

LEMMA LengthOf ==
  ASSUME NEW q, NEW K, NEW n, Tidy(q, K, n) PROVE Len(q.order) \in Nat
BY DEF Tidy, Listing

LEMMA StepLookup ==
  ASSUME Inv, NEW c \in Calls, NEW k \in Keys, Lookup(c, k)
  PROVE  Inv'
<1> DEFINE m == CacheOf(k)
           q == Get(cache[m], k)
<1>1. m \in Caches
  BY WhereKeysAre
<1>2. Tidy(cache[m], KeysOf(m), Len(log)) /\ Len(cache[m].order) <= MaxSize
  BY <1>1 DEF Inv, CachesOK
<1>3. cache' = [cache EXCEPT ![m] = q] /\ log' = log
  BY DEF Lookup
<1>4. /\ Tidy(q, KeysOf(m), Len(log)) /\ Within(q, cache[m])
      /\ Len(q.order) <= Len(cache[m].order)
  BY <1>2, GetKeeps
<1> HIDE DEF q
<1>5. Len(q.order) <= MaxSize
  <2>1. Len(q.order) \in Nat /\ Len(cache[m].order) \in Nat /\ MaxSize \in Nat
    BY <1>2, <1>4, LengthOf, CacheAssumption
  <2>2. QED
    BY <1>2, <1>4, <2>1
<1>6. CachesOK'
  BY <1>1, <1>3, <1>4, <1>5, OneCache
<1>7. \A x \in Keys : Cached(x)' => Cached(x)
  BY <1>1, <1>3, <1>4, OneShrinks
<1>8. Types' /\ ReadersOK'
  BY <1>3 DEF Inv, TypeOK, Types, ReadersOK, Lookup, writer
<1>9. \A d \in Calls : InTransaction(d)' <=> InTransaction(d)
  BY DEF Inv, TypeOK, Lookup, InTransaction
<1>10. CountOK'
  BY <1>3, <1>9 DEF Inv, CountOK, Open
<1>11. WritersOK'
  <2>1. ASSUME NEW d \in Calls, InTransaction(d) PROVE DeletedOK(d)' /\ pc'[d] = pc[d]
    <3>1. /\ change'[d] = change[d] /\ todo'[d] = todo[d] /\ refilled'[d] = refilled[d]
          /\ pc'[d] = pc[d]
      BY <2>1 DEF Lookup, writer, InTransaction, Inv, TypeOK
    <3>2. QED
      BY <1>7, <2>1, <3>1, DeletedStays DEF Inv
  <2>2. QED
    BY <1>9, <2>1 DEF Inv, WritersOK, InTransaction, Lookup, writer
<1>12. TypeOK'
  BY <1>6, <1>8, TypesSuffice, PTL
<1>13. QED
  BY <1>6, <1>8, <1>10, <1>11, <1>12 DEF Inv

LEMMA StepsOfReader ==
  ASSUME Inv, NEW c \in Calls, Query(c) \/ QueryFails(c)
  PROVE  Inv'
<1>1. UNCHANGED <<log, cache, writer, refilled>>
  BY DEF Query, QueryFails
<1>2. CachesOK'
  BY <1>1 DEF Inv, CachesOK
<1>3. Len(log) \in Nat
  BY DEF Inv, TypeOK
<1>4. Types' /\ ReadersOK'
  <2>1. /\ pc' \in [Calls -> {"idle", "query", "fill", "invalidate", "history", "commit"}]
        /\ key' \in [Calls -> Keys \cup {None}]
        /\ snap' \in [Calls -> 0..Len(log)]
    <3>1. Len(log) \in 0..Len(log) /\ 0 \in 0..Len(log)
      BY <1>3
    <3>2. CASE Query(c)
      BY <3>1, <3>2 DEF Inv, TypeOK, Query
    <3>3. CASE QueryFails(c)
      BY <3>1, <3>3 DEF Inv, TypeOK, QueryFails, Return
    <3>4. QED
      BY <3>2, <3>3
  <2>2. ReadersOK'
    BY DEF Inv, TypeOK, ReadersOK, Query, QueryFails, Return
  <2>3. QED
    BY <1>1, <2>1, <2>2 DEF Inv, TypeOK, Types, writer
<1>5. \A d \in Calls : InTransaction(d)' <=> InTransaction(d)
  BY DEF Inv, TypeOK, Query, QueryFails, Return, InTransaction
<1>6. CountOK'
  BY <1>1, <1>5 DEF Inv, CountOK, Open
<1>7. WritersOK'
  <2>1. ASSUME NEW d \in Calls, InTransaction(d) PROVE DeletedOK(d)' /\ pc'[d] = pc[d]
    <3>1. /\ change'[d] = change[d] /\ todo'[d] = todo[d] /\ refilled'[d] = refilled[d]
          /\ pc'[d] = pc[d] /\ \A k \in Keys : Cached(k)' => Cached(k)
      BY <1>1, <2>1 DEF Query, QueryFails, Return, writer, InTransaction, Inv, TypeOK, Cached
    <3>2. QED
      BY <2>1, <3>1, DeletedStays DEF Inv
  <2>2. QED
    BY <1>1, <1>5, <2>1 DEF Inv, WritersOK, InTransaction, writer
<1>8. TypeOK'
  BY <1>2, <1>4, TypesSuffice, PTL
<1>9. QED
  BY <1>2, <1>4, <1>6, <1>7, <1>8 DEF Inv

LEMMA StepFill ==
  ASSUME Inv, NEW c \in Calls, Fill(c)
  PROVE  Inv'
<1> DEFINE k == key[c]
           m == CacheOf(k)
           q == Set(cache[m], k, snap[c])
<1>1. k \in Keys /\ m \in Caches /\ k \in KeysOf(m) /\ snap[c] \in 0..Len(log)
  BY WhereKeysAre DEF Inv, ReadersOK, TypeOK, Fill
<1>2. cache' = [cache EXCEPT ![m] = q] /\ UNCHANGED <<log, change, todo>>
  BY DEF Fill, writer
<1>3. Tidy(cache[m], KeysOf(m), Len(log)) /\ Len(cache[m].order) <= MaxSize
  BY <1>1 DEF Inv, CachesOK
<1>4. /\ Tidy(q, KeysOf(m), Len(log)) /\ Len(q.order) <= MaxSize
      /\ \A x \in DOMAIN q.items : x \in DOMAIN cache[m].items \cup {k}
  BY <1>1, <1>3, SetKeeps
<1> HIDE DEF k, m, q
<1>5. CachesOK'
  BY <1>1, <1>2, <1>4, OneCache
<1>6. \A x \in Keys : Cached(x)' => Cached(x) \/ x = k
  BY <1>1, <1>2, <1>4 DEF Inv, CachesOK, Cached, Has, CacheOf
<1>7. /\ pc' = [pc EXCEPT ![c] = "idle"]
      /\ key' = [key EXCEPT ![c] = None]
      /\ snap' = [snap EXCEPT ![c] = 0]
      /\ refilled' = [d \in Calls |-> {x \in refilled[d] \cup {k} : Deleted(d, x) /\ Cached(x)'}]
  BY DEF Fill, Return, k
<1>8. Types' /\ ReadersOK'
  <2>1. refilled' \in [Calls -> SUBSET Keys]
    BY <1>1, <1>7 DEF Inv, TypeOK
  <2>2. Len(log) \in Nat
    BY DEF Inv, TypeOK
  <2>3. /\ pc' \in [Calls -> {"idle", "query", "fill", "invalidate", "history", "commit"}]
        /\ key' \in [Calls -> Keys \cup {None}]
        /\ snap' \in [Calls -> 0..Len(log)]
    BY <1>7, <2>2 DEF Inv, TypeOK
  <2>4. ReadersOK'
    BY <1>7 DEF Inv, TypeOK, ReadersOK
  <2>5. QED
    BY <1>2, <2>1, <2>3, <2>4 DEF Inv, TypeOK, Types
<1>9. \A d \in Calls : /\ InTransaction(d)' <=> InTransaction(d)
                       /\ InTransaction(d) => pc'[d] = pc[d]
  BY <1>7 DEF Inv, TypeOK, Fill, InTransaction
<1>10. CountOK'
  BY <1>2, <1>9 DEF Inv, CountOK, Open
<1>11. WritersOK'
  <2>1. ASSUME NEW d \in Calls, InTransaction(d) PROVE DeletedOK(d)'
    <3>1. ASSUME NEW x \in Affected(change[d].order), Cached(x)', Deleted(d, x)'
          PROVE  x \in refilled'[d]
      <4>1. x \in Keys /\ Deleted(d, x)
        BY <1>2, <2>1, <3>1, Touched DEF Inv, WritersOK, Changes, Deleted
      <4>2. x \in refilled[d] \cup {k}
        BY <1>6, <2>1, <3>1, <4>1 DEF Inv, WritersOK, DeletedOK
      <4>3. QED
        BY <1>7, <3>1, <4>1, <4>2
    <3>2. QED
      BY <1>2, <3>1 DEF DeletedOK
  <2>2. QED
    BY <1>2, <1>7, <1>9, <2>1 DEF Inv, WritersOK, TypeOK
<1>12. TypeOK'
  BY <1>5, <1>8, TypesSuffice, PTL
<1>13. QED
  BY <1>5, <1>8, <1>10, <1>11, <1>12 DEF Inv

LEMMA OpenIsFinite == IsFiniteSet(Open) /\ Cardinality(Open) \in Nat
BY ListAssumption, FS_Subset, FS_CardinalityType DEF Open

LEMMA StepWrite ==
  ASSUME Inv, NEW c \in Calls, NEW o \in Orders, NEW s \in Written, Write(c, o, s)
  PROVE  Inv'
<1>1. UNCHANGED <<log, cache, key, snap>>
  BY DEF Write, reader
<1>2. CachesOK'
  BY <1>1 DEF Inv, CachesOK
<1>3. /\ pc[c] = "idle" /\ pc' = [pc EXCEPT ![c] = "invalidate"]
      /\ change' = [change EXCEPT ![c] = [order |-> o, status |-> s]]
      /\ todo' = [todo EXCEPT ![c] = invalidateOrderCaches(o)]
      /\ refilled' = [refilled EXCEPT ![c] = {}]
  BY DEF Write
<1>4. /\ [order |-> o, status |-> s] \in Changes
      /\ invalidateOrderCaches(o) \in Seq(Keys) /\ invalidateOrderCaches(o) # <<>>
      /\ \A k \in Affected(o) : \E i \in DOMAIN invalidateOrderCaches(o) :
            invalidateOrderCaches(o)[i] = k
  <2>1. Owner[o] \in Keys /\ "returned" \in Keys /\ "all" \in Keys /\ o \in Keys
    BY Touched DEF Affected
  <2>2. QED
    BY <2>1 DEF Changes, invalidateOrderCaches, Affected
<1>5. Types' /\ ReadersOK'
  BY <1>1, <1>3, <1>4 DEF Inv, TypeOK, Types, ReadersOK
<1>6. \A d \in Calls : d # c => (InTransaction(d)' <=> InTransaction(d))
  BY <1>3 DEF Inv, TypeOK, InTransaction
<1>7. InTransaction(c)' /\ ~InTransaction(c)
  BY <1>3 DEF Inv, TypeOK, InTransaction
<1>8. CountOK'
  <2>1. Open' = Open \cup {c} /\ c \notin Open
    BY <1>6, <1>7 DEF Open
  <2>2. Cardinality(Open') = Cardinality(Open) + 1
    BY <2>1, OpenIsFinite, FS_AddElement
  <2>3. Len(log) + Cardinality(Open) < MaxChanges
    BY DEF Write, MayWrite, Open
  <2>4. Len(log) \in Nat /\ MaxChanges \in Nat /\ Cardinality(Open) \in Nat
    BY OpenIsFinite, ListAssumption DEF Inv, TypeOK
  <2>5. QED
    BY <1>1, <2>2, <2>3, <2>4 DEF CountOK
<1>9. WritersOK'
  <2>1. ASSUME NEW d \in Calls, d # c, InTransaction(d) PROVE DeletedOK(d)' /\ pc'[d] = pc[d]
    <3>1. /\ change'[d] = change[d] /\ todo'[d] = todo[d] /\ refilled'[d] = refilled[d]
          /\ pc'[d] = pc[d] /\ \A k \in Keys : Cached(k)' => Cached(k)
      BY <1>1, <1>3, <2>1 DEF Inv, TypeOK, Cached
    <3>2. QED
      BY <2>1, <3>1, DeletedStays DEF Inv
  <2>2. /\ change'[c] = [order |-> o, status |-> s]
        /\ todo'[c] = invalidateOrderCaches(o) /\ pc'[c] = "invalidate"
    BY <1>3 DEF Inv, TypeOK
  <2>3. DeletedOK(c)'
    BY <1>4, <2>2 DEF DeletedOK, Deleted
  <2>4. ASSUME NEW d \in Calls, d # c
        PROVE  /\ InTransaction(d)' => change'[d] \in Changes /\ DeletedOK(d)'
               /\ pc'[d] = "invalidate" => todo'[d] # <<>>
               /\ pc'[d] \in {"history", "commit"} => todo'[d] = <<>>
    BY <1>3, <1>6, <2>1, <2>4 DEF Inv, WritersOK, TypeOK
  <2>5. QED
    BY <1>4, <2>2, <2>3, <2>4 DEF WritersOK
<1>10. TypeOK'
  BY <1>2, <1>5, TypesSuffice, PTL
<1>11. QED
  BY <1>2, <1>5, <1>8, <1>9, <1>10 DEF Inv

\* An entry is deleted on behalf of c; what is left to delete is `rest'.
LEMMA Dropping ==
  ASSUME Inv, NEW c \in Calls, NEW k \in Keys, NEW rest \in Seq(Keys), NEW next,
         Drop(c, k), pc[c] \in {"invalidate", "history"},
         next \in {"invalidate", "history", "commit"},
         UNCHANGED <<log, reader, change>>,
         pc' = [pc EXCEPT ![c] = next], todo' = [todo EXCEPT ![c] = rest],
         next = "invalidate" <=> rest # <<>>,
         \A x \in Keys : x # k /\ Deleted(c, x)' => Deleted(c, x)
  PROVE  Inv'
<1> DEFINE m == CacheOf(k)
           q == Delete(cache[m], k)
<1>1. m \in Caches
  BY WhereKeysAre
<1>2. Tidy(cache[m], KeysOf(m), Len(log)) /\ Len(cache[m].order) <= MaxSize
  BY <1>1 DEF Inv, CachesOK
<1>3. /\ cache' = [cache EXCEPT ![m] = q]
      /\ refilled' = [refilled EXCEPT ![c] = refilled[c] \ {k}]
  BY DEF Drop
<1>4. /\ Tidy(q, KeysOf(m), Len(log)) /\ Within(q, cache[m])
      /\ Len(q.order) <= Len(cache[m].order) /\ k \notin DOMAIN q.items
  BY <1>2, DeleteKeeps
<1> HIDE DEF q
<1>5. Len(q.order) <= MaxSize
  <2>1. Len(q.order) \in Nat /\ Len(cache[m].order) \in Nat /\ MaxSize \in Nat
    BY <1>2, <1>4, LengthOf, CacheAssumption
  <2>2. QED
    BY <1>2, <1>4, <2>1
<1>6. CachesOK'
  BY <1>1, <1>3, <1>4, <1>5, OneCache
<1>7. \A x \in Keys : Cached(x)' => Cached(x)
  BY <1>1, <1>3, <1>4, OneShrinks
<1>8. ~Cached(k)'
  BY <1>1, <1>3, <1>4 DEF Inv, CachesOK, Cached, Has, CacheOf
<1>9. Types' /\ ReadersOK'
  BY <1>3 DEF Inv, TypeOK, Types, ReadersOK, reader
<1>10. /\ \A d \in Calls : InTransaction(d)' <=> InTransaction(d)
       /\ InTransaction(c)
  BY DEF Inv, TypeOK, InTransaction
<1>11. CountOK'
  BY <1>10 DEF Inv, CountOK, Open
<1>12. WritersOK'
  <2>1. ASSUME NEW d \in Calls, d # c, InTransaction(d) PROVE DeletedOK(d)' /\ pc'[d] = pc[d]
    <3>1. /\ change'[d] = change[d] /\ todo'[d] = todo[d] /\ refilled'[d] = refilled[d]
          /\ pc'[d] = pc[d]
      BY <1>3, <2>1 DEF Inv, TypeOK
    <3>2. QED
      BY <1>7, <2>1, <3>1, DeletedStays DEF Inv
  <2>2. DeletedOK(c)'
    <3>1. ASSUME NEW x \in Affected(change[c].order), Cached(x)', Deleted(c, x)'
          PROVE  x \in refilled'[c]
      <4>1. x \in Keys /\ x # k
        BY <1>8, <1>10, <3>1, Touched DEF Inv, WritersOK, Changes
      <4>2. x \in refilled[c]
        BY <1>7, <1>10, <3>1, <4>1 DEF Inv, WritersOK, DeletedOK
      <4>3. QED
        BY <1>3, <4>1, <4>2 DEF Inv, TypeOK
    <3>2. QED
      BY <3>1 DEF DeletedOK
  <2>3. /\ change'[c] \in Changes /\ pc'[c] = next /\ todo'[c] = rest
    BY <1>10 DEF Inv, TypeOK, WritersOK
  <2>4. ASSUME NEW d \in Calls, d # c
        PROVE  /\ InTransaction(d)' => change'[d] \in Changes /\ DeletedOK(d)'
               /\ pc'[d] = "invalidate" => todo'[d] # <<>>
               /\ pc'[d] \in {"history", "commit"} => todo'[d] = <<>>
    BY <1>10, <2>1, <2>4 DEF Inv, WritersOK, TypeOK
  <2>5. QED
    BY <2>2, <2>3, <2>4 DEF WritersOK
<1>13. TypeOK'
  BY <1>6, <1>9, TypesSuffice, PTL
<1>14. QED
  BY <1>6, <1>9, <1>11, <1>12, <1>13 DEF Inv

LEMMA StepInvalidate ==
  ASSUME Inv, NEW c \in Calls, Invalidate(c)
  PROVE  Inv'
<1> DEFINE rest == Tail(todo[c])
           next == IF Len(todo[c]) = 1 THEN "history" ELSE "invalidate"
           k == Head(todo[c])
<1>1. todo[c] \in Seq(Keys) /\ todo[c] # <<>> /\ pc[c] = "invalidate"
  BY DEF Inv, TypeOK, WritersOK, Invalidate
<1>2. /\ k \in Keys /\ rest \in Seq(Keys) /\ Len(rest) = Len(todo[c]) - 1
      /\ Len(todo[c]) \in Nat \ {0} /\ k = todo[c][1]
      /\ \A i \in 1..Len(rest) : rest[i] = todo[c][i + 1]
  BY <1>1
<1>3. rest # <<>> <=> Len(todo[c]) # 1
  <2>1. rest # <<>> <=> Len(rest) # 0
    BY <1>2, EmptySeq
  <2>2. QED
    BY <1>2, <2>1
<1>4. /\ pc' = [pc EXCEPT ![c] = next] /\ todo' = [todo EXCEPT ![c] = rest]
      /\ Drop(c, k) /\ UNCHANGED <<log, reader, change>>
  BY <1>1 DEF Invalidate
<1>5. todo'[c] = rest /\ InTransaction(c)
  BY <1>1, <1>4 DEF Inv, TypeOK, InTransaction
<1>6. next = "invalidate" <=> rest # <<>>
  BY <1>3
<1>7. next \in {"invalidate", "history", "commit"}
  OBVIOUS
<1> HIDE DEF rest, next, k
<1>8. ASSUME NEW x \in Keys, x # k, Deleted(c, x)' PROVE Deleted(c, x)
  <2>1. \A i \in 1..Len(rest) : rest[i] # x
    BY <1>2, <1>5, <1>8 DEF Deleted
  <2>2. ASSUME NEW i \in 1..Len(todo[c]), todo[c][i] = x PROVE FALSE
    <3>1. i # 1
      BY <1>2, <1>8, <2>2
    <3>2. i - 1 \in 1..Len(rest) /\ (i - 1) + 1 = i
      BY <1>2, <3>1
    <3>3. QED
      BY <1>2, <2>1, <2>2, <3>2
  <2>3. QED
    BY <1>1, <1>5, <2>2 DEF Deleted
<1>9. QED
  BY <1>1, <1>2, <1>4, <1>6, <1>7, <1>8, Dropping

LEMMA StepSaveHistory ==
  ASSUME Inv, NEW c \in Calls, SaveHistory(c)
  PROVE  Inv'
<1>1. /\ pc[c] = "history" /\ todo[c] = <<>> /\ change[c].order \in Keys
  BY Touched DEF Inv, WritersOK, SaveHistory, InTransaction, Changes, Affected
<1>2. /\ pc' = [pc EXCEPT ![c] = "commit"] /\ todo' = [todo EXCEPT ![c] = <<>>]
      /\ Drop(c, change[c].order) /\ UNCHANGED <<log, reader, change>>
  BY <1>1 DEF Inv, TypeOK, SaveHistory, writer
<1>3. \A x \in Keys : Deleted(c, x)
  BY <1>1 DEF Deleted, InTransaction
<1>4. <<>> \in Seq(Keys)
  OBVIOUS
<1>5. QED
  BY <1>1, <1>2, <1>3, <1>4, Dropping

LEMMA TidyGrows ==
  ASSUME NEW q, NEW K, NEW n \in Nat, Tidy(q, K, n)
  PROVE  Tidy(q, K, n + 1)
BY DEF Tidy

\* A transaction ends; the log has it or not.
LEMMA Ending ==
  ASSUME Inv, NEW c \in Calls, InTransaction(c), End(c),
         log' = log \/ log' = Append(log, change[c])
  PROVE  Inv'
<1>1. /\ pc' = [pc EXCEPT ![c] = "idle"]
      /\ change' = [change EXCEPT ![c] = None]
      /\ refilled' = [refilled EXCEPT ![c] = {}]
      /\ UNCHANGED <<cache, key, snap, todo>>
  BY DEF End, reader
<1>2. log \in Seq(Changes) /\ Len(log) \in Nat /\ change[c] \in Changes
  BY DEF Inv, TypeOK, WritersOK
<1>3. /\ log' \in Seq(Changes)
      /\ Len(log') \in {Len(log), Len(log) + 1}
  BY <1>2
<1>4. CachesOK'
  <2>1. ASSUME NEW n \in Caches PROVE Tidy(cache[n], KeysOf(n), Len(log'))
    <3>1. Tidy(cache[n], KeysOf(n), Len(log))
      BY DEF Inv, CachesOK
    <3>2. Tidy(cache[n], KeysOf(n), Len(log) + 1)
      BY <1>2, <3>1, TidyGrows
    <3>3. QED
      BY <1>3, <3>1, <3>2
  <2>2. QED
    BY <1>1, <2>1 DEF Inv, CachesOK
<1>5. \A d \in Calls : d # c => pc'[d] = pc[d] /\ (InTransaction(d)' <=> InTransaction(d))
  BY <1>1 DEF Inv, TypeOK, InTransaction
<1>6. pc'[c] = "idle" /\ ~InTransaction(c)'
  BY <1>1 DEF Inv, TypeOK, InTransaction
<1>7. CountOK' /\ Len(log') <= MaxChanges
  <2>1. Open' = Open \ {c} /\ c \in Open
    BY <1>5, <1>6 DEF Open
  <2>2. /\ Cardinality(Open') = Cardinality(Open) - 1
        /\ Cardinality(Open) \in Nat /\ Cardinality(Open) # 0
    BY <2>1, OpenIsFinite, FS_RemoveElement, FS_EmptySet
  <2>3. Len(log) + Cardinality(Open) <= MaxChanges /\ MaxChanges \in Nat
    BY ListAssumption DEF Inv, CountOK
  <2>4. QED
    BY <1>2, <1>3, <2>2, <2>3 DEF CountOK
<1>8. Types' /\ ReadersOK'
  <2>1. snap' \in [Calls -> 0..Len(log')]
    BY <1>1, <1>2, <1>3 DEF Inv, TypeOK
  <2>2. QED
    BY <1>1, <1>3, <1>5, <1>6, <1>7, <2>1 DEF Inv, TypeOK, Types, ReadersOK
<1>9. WritersOK'
  <2>1. ASSUME NEW d \in Calls, d # c, InTransaction(d) PROVE DeletedOK(d)'
    <3>1. /\ change'[d] = change[d] /\ todo'[d] = todo[d] /\ refilled'[d] = refilled[d]
          /\ pc'[d] = pc[d] /\ \A k \in Keys : Cached(k)' => Cached(k)
      BY <1>1, <2>1 DEF Inv, TypeOK, Cached
    <3>2. QED
      BY <2>1, <3>1, DeletedStays DEF Inv
  <2>2. ASSUME NEW d \in Calls, d # c
        PROVE  /\ InTransaction(d)' => change'[d] \in Changes /\ DeletedOK(d)'
               /\ pc'[d] = "invalidate" => todo'[d] # <<>>
               /\ pc'[d] \in {"history", "commit"} => todo'[d] = <<>>
    BY <1>1, <1>5, <2>1, <2>2 DEF Inv, WritersOK, TypeOK
  <2>3. QED
    BY <1>6, <2>2 DEF WritersOK
<1>10. TypeOK'
  BY <1>4, <1>8, TypesSuffice, PTL
<1>11. QED
  BY <1>4, <1>7, <1>8, <1>9, <1>10 DEF Inv

LEMMA InvInit == Init => Inv
<1> SUFFICES ASSUME Init PROVE Inv
  OBVIOUS
<1>1. log \in Seq(Changes) /\ Len(log) = 0
  BY DEF Init
<1>2. \A c \in Calls : ~InTransaction(c)
  BY DEF Init, InTransaction
<1>3. CachesOK
  BY <1>1, EmptyIsTidy, CacheAssumption DEF Init, CachesOK
<1>4. Types
  <2>1. \A S : <<>> \in Seq(S)
    OBVIOUS
  <2>2. 0 \in 0..Len(log) /\ Len(log) <= MaxChanges
    BY <1>1, ListAssumption
  <2>3. QED
    BY <1>1, <2>1, <2>2 DEF Init, Types
<1>5. CountOK
  <2>1. Open = {} /\ Cardinality(Open) = 0
    BY <1>2, FS_EmptySet DEF Open
  <2>2. QED
    BY <1>1, <2>1, ListAssumption DEF CountOK
<1>6. ReadersOK /\ WritersOK
  BY <1>2 DEF Init, ReadersOK, WritersOK
<1>7. QED
  BY <1>3, <1>4, <1>5, <1>6, TypesSuffice DEF Inv

LEMMA InvStep == Inv /\ [Next]_vars => Inv'
<1> SUFFICES ASSUME Inv, [Next]_vars PROVE Inv'
  OBVIOUS
<1>1. CASE \E c \in Calls : \E k \in Keys : Lookup(c, k)
  BY <1>1, StepLookup
<1>2. CASE \E c \in Calls : \E o \in Orders, s \in Written : Write(c, o, s)
  BY <1>2, StepWrite
<1>3. CASE \E c \in Calls : Query(c) \/ QueryFails(c)
  BY <1>3, StepsOfReader
<1>4. CASE \E c \in Calls : Fill(c)
  BY <1>4, StepFill
<1>5. CASE \E c \in Calls : Invalidate(c) \/ SaveHistory(c)
  BY <1>5, StepInvalidate, StepSaveHistory
<1>6. CASE \E c \in Calls : Commit(c) \/ Fail(c)
  BY <1>6, Ending DEF Commit, Fail, InTransaction
<1>7. CASE Cleanup \/ ClearCache \/ Tick
  BY <1>7, StepsOfCaches
<1>8. CASE UNCHANGED vars
  <2>1. /\ UNCHANGED <<log, pc, reader, writer, refilled>> /\ cache' = cache
    BY <1>8 DEF vars, reader, writer
  <2>2. CachesOK' /\ \A n \in Caches : Within(cache'[n], cache[n])
    BY <2>1 DEF Inv, CachesOK, Within
  <2>3. QED
    BY <2>1, <2>2, OnlyCaches
<1>9. QED
  BY <1>1, <1>2, <1>3, <1>4, <1>5, <1>6, <1>7, <1>8 DEF Next, Step

\* The invariant holds for any orders, owners, goroutines and cache sizes.
THEOREM ListsInvariance == Spec => []Inv
BY InvInit, InvStep, PTL DEF Spec

\* Every variable has its type, and what is cached was committed.
THEOREM ListsTypes == Spec => []TypeOK
<1>1. Inv => TypeOK
  BY DEF Inv
<1>2. QED
  BY <1>1, ListsInvariance, PTL

\* The map and the list of a cache agree, whatever lookups, fills, deletions,
\* clean-ups and evictions do.
THEOREM MapAndListAgree == Spec => []CachesAreSound
<1>1. Inv => CachesAreSound
  BY DEF Inv, CachesOK, CachesAreSound, Sound, Tidy, Listing
<1>2. QED
  BY <1>1, ListsInvariance, PTL

-----------------------------------------------------------------------------
(* What a commit makes out of date.                                        *)

\* A change of an order alters only the lists that are deleted for it.
LEMMA OthersAreSame ==
  ASSUME Inv, NEW o \in Orders, NEW s, log' = Append(log, [order |-> o, status |-> s]),
         NEW k \in Keys, k \notin Affected(o)
  PROVE  View(k, Len(log))' = View(k, Len(log))
<1>1. /\ Len(log) \in Nat /\ Len(log') = Len(log) + 1 /\ log'[Len(log) + 1].order = o
      /\ \A i \in 1..Len(log) : log'[i] = log[i]
  BY DEF Inv, TypeOK
<1>2. ASSUME NEW p, p # o PROVE ChangesOf(p, Len(log))' = ChangesOf(p, Len(log))
  <2>1. \A i \in 1..Len(log) + 1 : log'[i].order = p <=> i \in 1..Len(log) /\ log[i].order = p
    BY <1>1, <1>2
  <2>2. ChangesOf(p, Len(log))' = {i \in 1..Len(log) + 1 : log'[i].order = p}
    BY <1>1 DEF ChangesOf
  <2>3. QED
    BY <1>1, <2>1, <2>2 DEF ChangesOf
<1>3. CASE k \in Orders
  BY <1>2, <1>3 DEF View, Affected
<1>4. CASE k \notin Orders
  <2>1. k \in Receivers /\ k # Owner[o] /\ k # "returned"
    BY <1>4 DEF Keys, ListKeys, Affected
  <2>2. Listed(k, Len(log)) = {p \in Orders : ChangesOf(p, Len(log)) # {} /\ Owner[p] = k}
    BY <2>1 DEF Listed
  <2>3. Listed(k, Len(log))' = {p \in Orders : ChangesOf(p, Len(log))' # {} /\ Owner[p] = k}
    BY <2>1 DEF Listed
  <2>4. Listed(k, Len(log))' = Listed(k, Len(log)) /\ o \notin Listed(k, Len(log))
    BY <1>2, <2>1, <2>2, <2>3
  <2>5. /\ View(k, Len(log)) = [p \in Listed(k, Len(log)) |-> Max(ChangesOf(p, Len(log)))]
        /\ View(k, Len(log))' = [p \in Listed(k, Len(log))' |-> Max(ChangesOf(p, Len(log))')]
    BY <1>4 DEF View
  <2>6. QED
    BY <1>2, <2>4, <2>5
<1>5. QED
  BY <1>3, <1>4

\* The only copies a commit makes out of date are those stored after the
\* transaction had deleted them.
THEOREM OldCopiesAreDropped == Spec => NoOldCopySurvives
<1> DEFINE A == \A c \in Calls : pc[c] = "commit" /\ pc'[c] = "idle" /\ log' # log =>
                   \A k \in Keys : Cached(k) /\ View(k, Len(log)) # View(k, Len(log))'
                      => k \in refilled[c]
<1>1. ASSUME Inv, [Next]_vars PROVE A
  <2>1. SUFFICES ASSUME NEW c \in Calls, pc[c] = "commit", pc'[c] = "idle", log' # log,
                        NEW k \in Keys, Cached(k), View(k, Len(log)) # View(k, Len(log))'
                 PROVE  k \in refilled[c]
    OBVIOUS
  <2>2. PICK d \in Calls : Commit(d)
    BY <1>1, <2>1 DEF Next, Step, vars, Lookup, Write, Query, Fill, Invalidate, SaveHistory,
       QueryFails, Fail, Cleanup, ClearCache, Tick, AllCaches
  <2>3. c = d
    BY <1>1, <2>1, <2>2 DEF Inv, TypeOK, Commit, End
  <2>4. /\ log' = Append(log, change[c]) /\ InTransaction(c) /\ change[c] \in Changes
        /\ todo[c] = <<>> /\ DeletedOK(c)
    BY <1>1, <2>1, <2>2, <2>3 DEF Commit, Inv, WritersOK, InTransaction
  <2>5. PICK o \in Orders, s \in Written : change[c] = [order |-> o, status |-> s]
    BY <2>4 DEF Changes
  <2>6. k \in Affected(o)
    BY <1>1, <2>1, <2>4, <2>5, OthersAreSame
  <2>7. Deleted(c, k)
    BY <2>4 DEF Deleted
  <2>8. QED
    BY <2>1, <2>4, <2>5, <2>6, <2>7 DEF DeletedOK
<1>2. Inv /\ [Next]_vars => [A]_vars
  BY <1>1
<1> HIDE DEF A
<1>3. Spec => [][A]_vars
  BY <1>2, ListsInvariance, PTL DEF Spec
<1>4. QED
  BY <1>3 DEF A, NoOldCopySurvives
=============================================================================
