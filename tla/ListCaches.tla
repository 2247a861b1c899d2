----------------------------- MODULE ListCaches -----------------------------
(***************************************************************************)
(* The caches of lists in CachedOrderRepository: receiverCache, with the   *)
(* orders of a receiver, all returned orders and all orders, and           *)
(* historyCache.  Readers fill them after a miss, transactions that change *)
(* an order delete from them before they commit, a ticker removes what has *)
(* expired.  (OrderService has the cache of single orders.)                *)
(*                                                                         *)
(* The tables are the log of committed changes: a row is known by the      *)
(* change that wrote it, and what a query returns by the number of changes *)
(* committed when it ran.                                                  *)
(***************************************************************************)
EXTENDS OrderTypes, LRUCache

CONSTANTS Orders, Receivers,
          Owner,        \* the receiver of each order; it never changes
          Calls,        \* goroutines: one read or one transaction at a time
          Written,      \* the statuses operations write here (a bound)
          MaxChanges,   \* changes committed (a bound)
          None

ASSUME ListAssumption ==
    /\ Owner \in [Orders -> Receivers]
    /\ Written \subseteq Statuses
    /\ IsFiniteSet(Calls) /\ MaxChanges \in Nat
    /\ None \notin Statuses \cup Orders \cup Receivers

VARIABLES log,          \* the committed changes
          cache,        \* the two LRU caches
          pc,           \* where each goroutine is
          key,          \* reader: the list it wants
          snap,         \* reader: the changes its query saw
          change,       \* writer: the change its transaction makes
          todo,         \* writer: the entries invalidateOrderCaches still deletes
          refilled      \* auxiliary: cached entries stored since the writer deleted them

vars == <<log, cache, pc, key, snap, change, todo, refilled>>
reader == <<key, snap>>
writer == <<change, todo>>

ListKeys == Receivers \cup {"returned", "all"}
Keys == ListKeys \cup Orders
Caches == {"receivers", "history"}
CacheOf(k) == IF k \in Orders THEN "history" ELSE "receivers"
Changes == [order : Orders, status : Written]

Cached(k) == Has(cache[CacheOf(k)], k)

InTransaction(c) == pc[c] \in {"invalidate", "history", "commit"}

\* The transaction of c is past deleting the entry of k.
Deleted(c, k) == InTransaction(c) /\ \A i \in DOMAIN todo[c] : todo[c][i] # k

Init ==
    /\ log = <<>>
    /\ cache = [n \in Caches |-> Empty]
    /\ pc = [c \in Calls |-> "idle"]
    /\ key = [c \in Calls |-> None]
    /\ snap = [c \in Calls |-> 0]
    /\ change = [c \in Calls |-> None]
    /\ todo = [c \in Calls |-> <<>>]
    /\ refilled = [c \in Calls |-> {}]

-----------------------------------------------------------------------------
(* What the queries return after the first n changes.                      *)

ChangesOf(o, n) == {i \in 1..n : log[i].order = o}

Status(o, n) == IF ChangesOf(o, n) = {} THEN None ELSE log[Max(ChangesOf(o, n))].status

Listed(k, n) ==
    {o \in Orders :
        /\ ChangesOf(o, n) # {}
        /\ k \in Receivers => Owner[o] = k
        /\ k = "returned" => Status(o, n) \in {ReturnedFromClient, GivenToCourier}}

View(k, n) ==
    IF k \in Orders THEN ChangesOf(k, n)
    ELSE [o \in Listed(k, n) |-> Max(ChangesOf(o, n))]

-----------------------------------------------------------------------------
(* Readers: GetByReceiverID, GetReturnedOrders, GetAllOrders (also for the *)
(* gauges) and GetHistoryByOrderID, which differ in key and query only.    *)

Return(c) ==
    /\ pc' = [pc EXCEPT ![c] = "idle"]
    /\ key' = [key EXCEPT ![c] = None]
    /\ snap' = [snap EXCEPT ![c] = 0]

\* The cache answers, or the reader turns to the database.
Lookup(c, k) ==
    /\ pc[c] = "idle"
    /\ cache' = [cache EXCEPT ![CacheOf(k)] = Get(@, k)]
    /\ IF Hit(cache[CacheOf(k)], k)
         THEN UNCHANGED <<pc, key>>
         ELSE /\ pc' = [pc EXCEPT ![c] = "query"]
              /\ key' = [key EXCEPT ![c] = k]
    /\ UNCHANGED <<log, snap, writer, refilled>>

\* Faulty variant: the query sees what is not committed yet.
QueryDirty(c) ==
    /\ pc[c] = "query"
    /\ snap' = [snap EXCEPT ![c] = Len(log) + Cardinality({d \in Calls : InTransaction(d)})]
    /\ pc' = [pc EXCEPT ![c] = "fill"]
    /\ UNCHANGED <<log, cache, key, writer, refilled>>

\* One SELECT, in no transaction.
Query(c) ==
    /\ pc[c] = "query"
    /\ snap' = [snap EXCEPT ![c] = Len(log)]
    /\ pc' = [pc EXCEPT ![c] = "fill"]
    /\ UNCHANGED <<log, cache, key, writer, refilled>>

\* The error goes to the caller and nothing is stored.
QueryFails(c) ==
    /\ pc[c] = "query"
    /\ Return(c)
    /\ UNCHANGED <<log, cache, writer, refilled>>

Fill(c) ==
    /\ pc[c] = "fill"
    /\ cache' = [cache EXCEPT ![CacheOf(key[c])] = Set(@, key[c], snap[c])]
    /\ refilled' = [d \in Calls |->
                      {k \in refilled[d] \cup {key[c]} : Deleted(d, k) /\ Cached(k)'}]
    /\ Return(c)
    /\ UNCHANGED <<log, writer>>

-----------------------------------------------------------------------------
(* Writers: the transaction of an operation.                               *)

\* SaveOrderInTx or UpdateOrderInTx waits for the row and writes it.
MayWrite(o, s) ==
    /\ \A d \in Calls : InTransaction(d) => change[d].order # o
    /\ Len(log) + Cardinality({d \in Calls : InTransaction(d)}) < MaxChanges
    /\ s = InStorage <=> ChangesOf(o, Len(log)) = {}

\* Faulty variant: the list of returned orders is forgotten.
invalidateSome(o) == <<Owner[o], "all", o>>

\* The entries invalidateOrderCaches deletes, one after the other.
invalidateOrderCaches(o) == <<Owner[o], "returned", "all", o>>

Write(c, o, s) ==
    /\ pc[c] = "idle"
    /\ MayWrite(o, s)
    /\ pc' = [pc EXCEPT ![c] = "invalidate"]
    /\ change' = [change EXCEPT ![c] = [order |-> o, status |-> s]]
    /\ todo' = [todo EXCEPT ![c] = invalidateOrderCaches(o)]
    /\ refilled' = [refilled EXCEPT ![c] = {}]
    /\ UNCHANGED <<log, cache, reader>>

\* An entry is deleted on behalf of c.
Drop(c, k) ==
    /\ cache' = [cache EXCEPT ![CacheOf(k)] = Delete(@, k)]
    /\ refilled' = [refilled EXCEPT ![c] = @ \ {k}]

Invalidate(c) ==
    /\ pc[c] = "invalidate"
    /\ Drop(c, Head(todo[c]))
    /\ todo' = [todo EXCEPT ![c] = Tail(@)]
    /\ pc' = [pc EXCEPT ![c] = IF Len(todo[c]) = 1 THEN "history" ELSE @]
    /\ UNCHANGED <<log, reader, change>>

\* SaveHistoryInTx deletes the history once more.
SaveHistory(c) ==
    /\ pc[c] = "history"
    /\ Drop(c, change[c].order)
    /\ pc' = [pc EXCEPT ![c] = "commit"]
    /\ UNCHANGED <<log, reader, writer>>

End(c) ==
    /\ pc' = [pc EXCEPT ![c] = "idle"]
    /\ change' = [change EXCEPT ![c] = None]
    /\ refilled' = [refilled EXCEPT ![c] = {}]
    /\ UNCHANGED <<cache, reader, todo>>

\* The outbox event is saved and the transaction commits.
Commit(c) ==
    /\ pc[c] = "commit"
    /\ log' = Append(log, change[c])
    /\ End(c)

\* A statement or the commit fails; what was deleted stays deleted.
Fail(c) ==
    /\ pc[c] \in {"history", "commit"}
    /\ End(c)
    /\ UNCHANGED log

-----------------------------------------------------------------------------
(* The ticker of main, the admin server, and time.                         *)

AllCaches(kept) ==
    /\ cache' = kept
    /\ UNCHANGED <<log, pc, reader, writer, refilled>>

\* One cache after the other; no step looks at both, so that they can go
\* together.
Cleanup == AllCaches([n \in Caches |-> CleanupExpired(cache[n])])

ClearCache == AllCaches([n \in Caches |-> Empty])

Tick == AllCaches([n \in Caches |-> Older(cache[n])])

Step(c) == \/ Query(c) \/ Fill(c)
           \/ Invalidate(c) \/ SaveHistory(c) \/ Commit(c)

Next ==
    \/ \E c \in Calls :
          \/ \E k \in Keys : Lookup(c, k)
          \/ \E o \in Orders, s \in Written : Write(c, o, s)
          \/ Step(c) \/ QueryFails(c) \/ Fail(c)
    \/ Cleanup \/ ClearCache \/ Tick

Spec == Init /\ [][Next]_vars

\* Goroutines run, time passes, and the ticker calls CleanupExpired.
FairSpec ==
    /\ Spec
    /\ \A c \in Calls : WF_vars(Step(c))
    /\ WF_vars(Cleanup) /\ WF_vars(Tick)

-----------------------------------------------------------------------------
(* Properties.                                                             *)

\* Every variable has its type, and what is read or cached was committed.
TypeOK ==
    /\ log \in Seq(Changes) /\ Len(log) <= MaxChanges
    /\ \A n \in Caches : \A k \in DOMAIN cache[n].items :
          /\ k \in Keys /\ CacheOf(k) = n
          /\ cache[n].items[k] \in [value : 0..Len(log), age : 0..TTL + 1]
    /\ pc \in [Calls -> {"idle", "query", "fill", "invalidate", "history", "commit"}]
    /\ key \in [Calls -> Keys \cup {None}]
    /\ snap \in [Calls -> 0..Len(log)]
    /\ change \in [Calls -> Changes \cup {None}]
    /\ todo \in [Calls -> Seq(Keys)]
    /\ refilled \in [Calls -> SUBSET Keys]

\* However lookups, fills, deletions, clean-ups and evictions interleave, the
\* map and the list of a cache agree and its capacity holds (LRUCache).
CachesAreSound == \A n \in Caches : Sound(cache[n])

Entry(k) == cache[CacheOf(k)].items[k]
Stale(k) == Cached(k) /\ View(k, Entry(k).value) # View(k, Len(log))

\* The only copies a commit makes out of date are those a reader stored after
\* the transaction had deleted them: invalidateOrderCaches names every list
\* that the change of an order can alter.
NoOldCopySurvives ==
    [][\A c \in Calls : pc[c] = "commit" /\ pc'[c] = "idle" /\ log' # log =>
         \A k \in Keys : Cached(k) /\ View(k, Len(log)) # View(k, Len(log))'
            => k \in refilled[c]]_vars

\* Once no more changes are made, the caches hold only what the tables say: a
\* copy stored too late is not served beyond its TTL, however often it is
\* asked for, and it is removed, although CleanupExpired stops at the first
\* entry that is not expired.
ListsSettle == <>[](\A k \in Keys : ~Stale(k))
=============================================================================
