------------------------------ MODULE LRUCache ------------------------------
(***************************************************************************)
(* pkg/cache: the LRU cache with expiry behind the cached repository.      *)
(* Every method runs under one mutex, so a method is an operator from      *)
(* caches to caches, and a step of whoever calls it.                       *)
(*                                                                         *)
(* A cache is a record of its map and its list: `items' holds, by key, the *)
(* value and its age, `order' the keys, the last used first.  An age       *)
(* stands for time.Since(createdAt); it stops at TTL + 1, where all older  *)
(* ones behave alike.                                                      *)
(***************************************************************************)
EXTENDS Integers, Sequences, Functions, FiniteSetsExt

CONSTANTS MaxSize,   \* Config.MaxSize; New replaces 0 by 100
          TTL        \* Config.TTL, in steps of the clock; it is never 0 in main

ASSUME CacheAssumption == MaxSize \in Nat \ {0} /\ TTL \in Nat

Empty == [items |-> <<>>, order |-> <<>>]

Has(cache, k) == k \in DOMAIN cache.items

Expired(cache, k) == cache.items[k].age > TTL

\* list.Remove of the element of k.
Remove(order, k) ==
    LET i == CHOOSE j \in DOMAIN order : order[j] = k
    IN  SubSeq(order, 1, i - 1) \o SubSeq(order, i + 1, Len(order))

removeElement(cache, k) ==
    [items |-> Restrict(cache.items, DOMAIN cache.items \ {k}),
     order |-> Remove(cache.order, k)]

MoveToFront(cache, k) == [cache EXCEPT !.order = <<k>> \o Remove(@, k)]
PushFront(cache, k) == [cache EXCEPT !.order = <<k>> \o @]

\* Get finds a value, and it is not too old.
Hit(cache, k) == Has(cache, k) /\ ~Expired(cache, k)

\* Faulty variant: a hit makes the entry young again.
GetRenews(cache, k) ==
    IF Hit(cache, k) THEN [MoveToFront(cache, k) EXCEPT !.items[k].age = 0]
    ELSE IF Has(cache, k) THEN removeElement(cache, k)
    ELSE cache

\* What Get leaves behind: an expired entry is removed.
Get(cache, k) ==
    IF Hit(cache, k) THEN MoveToFront(cache, k)
    ELSE IF Has(cache, k) THEN removeElement(cache, k)
    ELSE cache

\* Faulty variant: only the list forgets its last element.
removeOldestOfList(cache) == [cache EXCEPT !.order = SubSeq(@, 1, Len(@) - 1)]

removeOldest(cache) == removeElement(cache, cache.order[Len(cache.order)])

\* The entry of the key is new, or renewed.
Store(cache, k, v) ==
    [cache EXCEPT !.items = [x \in DOMAIN @ \cup {k} |->
                               IF x = k THEN [value |-> v, age |-> 0] ELSE @[x]]]

\* Set overwrites the entry of the key, or adds one and lets the last used go.
Set(cache, k, v) ==
    IF Has(cache, k) THEN Store(MoveToFront(cache, k), k, v)
    ELSE LET stored == Store(PushFront(cache, k), k, v)
         IN  IF Len(stored.order) > MaxSize THEN removeOldest(stored) ELSE stored

Delete(cache, k) == IF Has(cache, k) THEN removeElement(cache, k) ELSE cache

\* The entries from place first to place last of the list.
Keep(cache, first, last) ==
    [items |-> Restrict(cache.items, {cache.order[i] : i \in first..last}),
     order |-> SubSeq(cache.order, first, last)]

FreshAt(cache) == {i \in DOMAIN cache.order : ~Expired(cache, cache.order[i])}

\* Faulty variant: the walk begins with the last used entry.
CleanupFromFront(cache) ==
    LET first == Min(FreshAt(cache) \cup {Len(cache.order) + 1})
    IN  Keep(cache, first, Len(cache.order))

\* CleanupExpired walks from the least recently used entry and stops at the
\* first that is not expired.
CleanupExpired(cache) ==
    LET last == Max(FreshAt(cache) \cup {0})
    IN  Keep(cache, 1, last)

\* Time passes.
Aged(item) == [item EXCEPT !.age = IF @ > TTL THEN @ ELSE @ + 1]

Older(cache) == [cache EXCEPT !.items = [k \in DOMAIN @ |-> Aged(@[k])]]

-----------------------------------------------------------------------------
\* The map and the list hold the same keys, each once, and no more than
\* MaxSize of them.
Sound(cache) ==
    /\ Len(cache.order) <= MaxSize
    /\ IsInjective(cache.order)
    /\ Range(cache.order) = DOMAIN cache.items
=============================================================================
