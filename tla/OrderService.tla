---------------------------- MODULE OrderService ----------------------------
(***************************************************************************)
(* The order operations of internal/app over the cached Postgres           *)
(* repository: AcceptOrder, issueSingle, returnSingle and                  *)
(* ReturnOrderToDelivery, as goroutines that overlap.                      *)
(*                                                                         *)
(* Every operation has the same shape: read the order (through the LRU     *)
(* cache), decide on that copy, change the copy, then write the whole row, *)
(* a history line and an outbox event in one transaction.  The read is not *)
(* part of the transaction and the UPDATE has no condition on the status.  *)
(* A call here is one order of a request: one AcceptOrder, one item of a   *)
(* batch, or one ReturnOrderToDelivery.                                    *)
(***************************************************************************)
EXTENDS OrderTypes, Sequences, FiniteSets

CONSTANTS Orders, Receivers, None,
          Calls,            \* invocations; each happens at most once (a bound)
          Deadlines,        \* values of StorageUntil
          ReturnWindow,     \* the 48 hours of returnSingle
          MaxTime,          \* bound on the clock
          MaxInFlight,      \* calls that may overlap
          CacheEnabled      \* cfg.Cache.Enabled: CachedOrderRepository or not

ASSUME ServiceAssumption ==
    /\ None \notin Receivers \cup Calls \cup Orders
    /\ None \notin [receiver : Receivers, until : Deadlines]
    /\ None \notin [receiver : Receivers, until : Deadlines,
                    status : Statuses, updated : Nat]
    /\ None \notin Entries \cup [type : EventTypes, user : Receivers]
    /\ None \notin {"ok", "rejected", "error", "lost"}
    /\ Deadlines \subseteq Nat
    /\ ReturnWindow \in Nat
    /\ MaxTime \in Nat
    /\ MaxInFlight \in Nat
    /\ CacheEnabled \in BOOLEAN

VARIABLES clock,
          orders,           \* committed rows of table orders
          history,          \* committed rows of order_history, in commit order
          outbox,           \* committed rows of outbox, in commit order
          lock,             \* the transaction that holds the row's lock
          cache,            \* orderCache, by order id
          pc, req,          \* where each call is, and what it was asked
          now,              \* the call's `now' (`currentTime' in AcceptOrder)
          order,            \* the call's local `order', mutated in place
          tx,               \* what the call's open transaction has written
          res,              \* what the call returned
          seen              \* auxiliary: changes committed when the call began

vars == <<clock, orders, history, outbox, lock, cache,
          pc, req, now, order, tx, res, seen>>

tables == <<orders, history, outbox>>

Rows == [receiver : Receivers, until : Deadlines, status : Statuses, updated : Nat]
Events == [type : EventTypes, user : Receivers]

Requests ==
    [op : {"accept"}, order : Orders, receiver : Receivers, until : Deadlines]
    \cup [op : {"issue", "return"}, order : Orders, receiver : Receivers]
    \cup [op : {"courier"}, order : Orders]

NoTx == [row |-> None, entry |-> None, event |-> None]

Oid(c) == req[c].order

InFlight == {c \in Calls : pc[c] \notin {"ready", "done"}}

Init ==
    /\ clock = 0
    /\ orders = [o \in Orders |-> None]
    /\ history = [o \in Orders |-> <<>>]
    /\ outbox = [o \in Orders |-> <<>>]
    /\ lock = [o \in Orders |-> None]
    /\ cache = [o \in Orders |-> None]
    /\ pc = [c \in Calls |-> "ready"]
    /\ req = [c \in Calls |-> None]
    /\ now = [c \in Calls |-> 0]
    /\ order = [c \in Calls |-> None]
    /\ tx = [c \in Calls |-> NoTx]
    /\ res = [c \in Calls |-> None]
    /\ seen = [c \in Calls |-> 0]

\* The call returns r: its locals and its transaction are gone.
Finish(c, r) ==
    /\ pc' = [pc EXCEPT ![c] = "done"]
    /\ res' = [res EXCEPT ![c] = r]
    /\ req' = [req EXCEPT ![c] = None]
    /\ order' = [order EXCEPT ![c] = None]
    /\ tx' = [tx EXCEPT ![c] = NoTx]
    /\ now' = [now EXCEPT ![c] = 0]
    /\ seen' = [seen EXCEPT ![c] = 0]

Goto(c, l) ==
    /\ pc' = [pc EXCEPT ![c] = l]
    /\ UNCHANGED <<req, now, res, seen>>

Release(c) == [o \in Orders |-> IF lock[o] = c THEN None ELSE lock[o]]

-----------------------------------------------------------------------------
(* The steps of a call.                                                    *)

\* The handler calls the operation, which takes its `now' first.
Start(c, r) ==
    /\ pc[c] = "ready"
    /\ Cardinality(InFlight) < MaxInFlight
    /\ req' = [req EXCEPT ![c] = r]
    /\ now' = [now EXCEPT ![c] = clock]
    /\ seen' = [seen EXCEPT ![c] = Len(history[r.order])]
    /\ pc' = [pc EXCEPT ![c] = IF CacheEnabled THEN "lookup" ELSE "query"]
    /\ UNCHANGED <<clock, tables, lock, cache, order, tx, res>>

\* CachedOrderRepository.GetByID asks the cache.
Lookup(c) ==
    /\ pc[c] = "lookup"
    /\ order' = [order EXCEPT ![c] = cache[Oid(c)]]
    /\ Goto(c, IF cache[Oid(c)] = None THEN "query" ELSE "check")
    /\ UNCHANGED <<clock, tables, lock, cache, tx>>

\* OrderRepository.GetByID: a read of the committed row, in no transaction.
Query(c) ==
    /\ pc[c] = "query"
    /\ order' = [order EXCEPT ![c] = orders[Oid(c)]]
    /\ Goto(c, IF CacheEnabled /\ orders[Oid(c)] # None THEN "fill" ELSE "check")
    /\ UNCHANGED <<clock, tables, lock, cache, tx>>

\* The query fails. AcceptOrder takes any error for "no such order".
QueryFails(c) ==
    /\ pc[c] = "query"
    /\ IF req[c].op = "accept"
         THEN Goto(c, "check") /\ UNCHANGED <<order, tx>>
         ELSE Finish(c, "error")
    /\ UNCHANGED <<clock, tables, lock, cache>>

\* The copy read a moment ago enters the cache.
Fill(c) ==
    /\ pc[c] = "fill"
    /\ cache' = [cache EXCEPT ![Oid(c)] = order[c]]
    /\ Goto(c, "check")
    /\ UNCHANGED <<clock, tables, lock, order, tx>>

Reject(c) ==
    /\ Finish(c, "rejected")
    /\ UNCHANGED <<clock, tables, lock, cache>>

Prepare(c, row, next) ==
    /\ order' = [order EXCEPT ![c] = row]
    /\ Goto(c, next)
    /\ UNCHANGED <<clock, tables, lock, cache, tx>>

\* AcceptOrder goes on when it found no order, unless the package rules
\* refuse the weight or cannot be read.
CheckAccept(c) ==
    /\ pc[c] = "check" /\ req[c].op = "accept"
    /\ \/ Reject(c)
       \/ /\ order[c] = None
          /\ Prepare(c, [receiver |-> req[c].receiver, until |-> req[c].until,
                         status |-> InStorage, updated |-> now[c]], "write")

MayIssue(c) ==
    /\ order[c] # None
    /\ order[c].receiver = req[c].receiver
    /\ order[c].status \notin {GivenToClient, ReturnedFromClient}
    /\ now[c] <= order[c].until

CheckIssue(c) ==
    /\ pc[c] = "check" /\ req[c].op = "issue"
    /\ IF MayIssue(c)
         THEN Prepare(c, [order[c] EXCEPT !.status = GivenToClient,
                                          !.updated = now[c]], "write")
         ELSE Reject(c)

\* Faulty variant: the two days are not checked.
MayReturnAnyTime(c) ==
    /\ order[c] # None
    /\ order[c].receiver = req[c].receiver
    /\ order[c].status \notin {InStorage, ReturnedFromClient}

MayReturn(c) ==
    /\ order[c] # None
    /\ order[c].receiver = req[c].receiver
    /\ order[c].status \notin {InStorage, ReturnedFromClient}
    /\ now[c] <= order[c].updated + ReturnWindow

CheckReturn(c) ==
    /\ pc[c] = "check" /\ req[c].op = "return"
    /\ IF MayReturn(c)
         THEN Prepare(c, [order[c] EXCEPT !.status = ReturnedFromClient,
                                          !.updated = now[c]], "write")
         ELSE Reject(c)

\* Faulty variant: only the storage limit is checked, not the status.
MayHandOverExpired(c) ==
    /\ order[c] # None
    /\ clock >= order[c].until

MayHandOver(c) ==
    /\ order[c] # None
    /\ order[c].status \in {InStorage, ReturnedFromClient}
    /\ clock >= order[c].until

HandedOver(status) ==
    IF status = ReturnedFromClient THEN GivenToCourier ELSE ReturnedWithoutClient

CheckCourier(c) ==
    /\ pc[c] = "check" /\ req[c].op = "courier"
    /\ IF MayHandOver(c)
         THEN Prepare(c, [order[c] EXCEPT !.status = HandedOver(@)], "stamp")
         ELSE Reject(c)

\* ReturnOrderToDelivery reads the clock again for LastUpdateTime.
Stamp(c) ==
    /\ pc[c] = "stamp"
    /\ Prepare(c, [order[c] EXCEPT !.updated = clock], "write")

-----------------------------------------------------------------------------
(* The transaction: WithTransaction and the statements of its callback.    *)

\* Faulty variant: an INSERT that overwrites the row it conflicts with.
WriteUpserts(c) ==
    /\ pc[c] = "write"
    /\ lock[Oid(c)] = None
    /\ lock' = [lock EXCEPT ![Oid(c)] = c]
    /\ tx' = [tx EXCEPT ![c].row = order[c]]
    /\ cache' = [cache EXCEPT ![Oid(c)] = None]
    /\ Goto(c, "history")
    /\ UNCHANGED <<clock, tables, order>>

\* Faulty variant: the row enters the cache before the commit, as in Update.
WriteCaches(c) ==
    /\ pc[c] = "write"
    /\ lock[Oid(c)] = None
    /\ IF req[c].op = "accept" /\ orders[Oid(c)] # None
         THEN Reject(c)
         ELSE /\ lock' = [lock EXCEPT ![Oid(c)] = c]
              /\ tx' = [tx EXCEPT ![c].row = order[c]]
              /\ cache' = [cache EXCEPT ![Oid(c)] = order[c]]
              /\ Goto(c, "history")
              /\ UNCHANGED <<clock, tables, order>>

\* Faulty variant: the cached copy is not dropped.
WriteKeepsCopy(c) ==
    /\ pc[c] = "write"
    /\ lock[Oid(c)] = None
    /\ IF req[c].op = "accept" /\ orders[Oid(c)] # None
         THEN Reject(c)
         ELSE /\ lock' = [lock EXCEPT ![Oid(c)] = c]
              /\ tx' = [tx EXCEPT ![c].row = order[c]]
              /\ Goto(c, "history")
              /\ UNCHANGED <<clock, tables, cache, order>>

\* SaveOrderInTx or UpdateOrderInTx: the statement waits for the row's lock,
\* INSERT ... ON CONFLICT DO NOTHING gives up on an existing row, and the
\* cached copy is dropped as soon as the statement succeeds.
Write(c) ==
    /\ pc[c] = "write"
    /\ lock[Oid(c)] = None
    /\ IF req[c].op = "accept" /\ orders[Oid(c)] # None
         THEN Reject(c)
         ELSE /\ lock' = [lock EXCEPT ![Oid(c)] = c]
              /\ tx' = [tx EXCEPT ![c].row = order[c]]
              /\ cache' = [cache EXCEPT ![Oid(c)] = None]
              /\ Goto(c, "history")
              /\ UNCHANGED <<clock, tables, order>>

\* Faulty variant: the line carries the call's first reading of the clock.
SaveHistoryAtStart(c) ==
    /\ pc[c] = "history"
    /\ tx' = [tx EXCEPT ![c].entry = [status |-> order[c].status, at |-> now[c]]]
    /\ Goto(c, "event")
    /\ UNCHANGED <<clock, tables, lock, cache, order>>

SaveHistory(c) ==
    /\ pc[c] = "history"
    /\ tx' = [tx EXCEPT ![c].entry = [status |-> order[c].status,
                                      at |-> order[c].updated]]
    /\ Goto(c, "event")
    /\ UNCHANGED <<clock, tables, lock, cache, order>>

\* Faulty variant: the event of a return to the courier names no receiver.
AddresseeSystem(c) == IF req[c].op = "courier" THEN None ELSE req[c].receiver

\* The receiver an event names: the one of the request, or of the row read
\* by ReturnOrderToDelivery.
Addressee(c) == IF req[c].op = "courier" THEN order[c].receiver ELSE req[c].receiver

\* Faulty variant: an error of outboxRepo.Save is only logged.
SaveEventLossy(c) ==
    /\ pc[c] = "event"
    /\ Goto(c, "commit")
    /\ UNCHANGED <<clock, tables, lock, cache, order, tx>>

SaveEvent(c) ==
    /\ pc[c] = "event"
    /\ tx' = [tx EXCEPT ![c].event = [type |-> EventType(order[c].status),
                                      user |-> Addressee(c)]]
    /\ Goto(c, "commit")
    /\ UNCHANGED <<clock, tables, lock, cache, order>>

WithPending(seq, pending) ==
    IF pending = None THEN seq ELSE Append(seq, pending)

\* The transaction's writes become visible together.
Publish(c) ==
    /\ orders' = [orders EXCEPT ![Oid(c)] = tx[c].row]
    /\ history' = [history EXCEPT ![Oid(c)] = WithPending(@, tx[c].entry)]
    /\ outbox' = [outbox EXCEPT ![Oid(c)] = WithPending(@, tx[c].event)]
    /\ lock' = Release(c)
    /\ UNCHANGED <<clock, cache>>

Commit(c) ==
    /\ pc[c] = "commit"
    /\ Publish(c)
    /\ Finish(c, "ok")

\* The server commits and the reply is lost: Commit returns an error and the
\* deferred Rollback finds no transaction.
CommitReplyLost(c) ==
    /\ pc[c] = "commit"
    /\ Publish(c)
    /\ Finish(c, "error")

\* Faulty variant: no deferred Rollback.
FailKeepsLock(c) ==
    /\ pc[c] \in {"write", "history", "event", "commit"}
    /\ Finish(c, "error")
    /\ UNCHANGED <<clock, tables, lock, cache>>

\* Faulty variant: the error of the transaction is dropped.
FailSilently(c) ==
    /\ pc[c] \in {"write", "history", "event", "commit"}
    /\ lock' = Release(c)
    /\ Finish(c, "ok")
    /\ UNCHANGED <<clock, tables, cache>>

\* BeginTx, a statement or the commit fails, or the request's two seconds
\* are over: the deferred Rollback undoes the transaction.
Fail(c) ==
    /\ pc[c] \in {"write", "history", "event", "commit"}
    /\ lock' = Release(c)
    /\ Finish(c, "error")
    /\ UNCHANGED <<clock, tables, cache>>

-----------------------------------------------------------------------------
(* The environment.                                                        *)

Tick ==
    /\ clock < MaxTime
    /\ clock' = clock + 1
    /\ UNCHANGED <<tables, lock, cache, pc, req, now, order, tx, res, seen>>

\* LRU eviction, the TTL, /cache/clear or /cache/cleanup.
Evict(o) ==
    /\ cache[o] # None
    /\ cache' = [cache EXCEPT ![o] = None]
    /\ UNCHANGED <<clock, tables, lock, pc, req, now, order, tx, res, seen>>

\* The service process dies and starts again: Postgres rolls back the
\* transactions of its connections, and the cache starts empty.
Crash ==
    /\ InFlight # {}
    /\ pc' = [c \in Calls |-> IF c \in InFlight THEN "done" ELSE pc[c]]
    /\ res' = [c \in Calls |-> IF c \in InFlight THEN "lost" ELSE res[c]]
    /\ lock' = [o \in Orders |-> None]
    /\ cache' = [o \in Orders |-> None]
    /\ order' = [c \in Calls |-> None]
    /\ tx' = [c \in Calls |-> NoTx]
    /\ now' = [c \in Calls |-> 0]
    /\ seen' = [c \in Calls |-> 0]
    /\ req' = [c \in Calls |-> IF c \in InFlight THEN None ELSE req[c]]
    /\ UNCHANGED <<clock, tables>>

\* Every call of the instance has returned and the clock is at its bound.
Finished ==
    /\ \A c \in Calls : pc[c] = "done"
    /\ clock = MaxTime
    /\ UNCHANGED vars

Check(c) == CheckAccept(c) \/ CheckIssue(c) \/ CheckReturn(c) \/ CheckCourier(c)

\* What the goroutine of a call does when nothing fails.
Step(c) ==
    \/ Lookup(c) \/ Query(c) \/ Fill(c) \/ Check(c) \/ Stamp(c)
    \/ Write(c) \/ SaveHistory(c) \/ SaveEvent(c) \/ Commit(c)

Next ==
    \/ \E c \in Calls :
          \/ \E r \in Requests : Start(c, r)
          \/ Step(c)
          \/ QueryFails(c) \/ CommitReplyLost(c) \/ Fail(c)
    \/ \E o \in Orders : Evict(o)
    \/ Tick \/ Crash \/ Finished

Spec == Init /\ [][Next]_vars

-----------------------------------------------------------------------------
(* Properties.                                                             *)

Labels == {"ready", "lookup", "query", "fill", "check", "stamp", "write",
           "history", "event", "commit", "done"}

\* Every variable has its type.
TypeOK ==
    /\ clock \in 0..MaxTime
    /\ orders \in [Orders -> Rows \cup {None}]
    /\ history \in [Orders -> Seq(Entries)]
    /\ outbox \in [Orders -> Seq(Events)]
    /\ lock \in [Orders -> Calls \cup {None}]
    /\ cache \in [Orders -> Rows \cup {None}]
    /\ pc \in [Calls -> Labels]
    /\ req \in [Calls -> Requests \cup {None}]
    /\ now \in [Calls -> 0..MaxTime]
    /\ order \in [Calls -> Rows \cup {None}]
    /\ tx \in [Calls -> [row : Rows \cup {None}, entry : Entries \cup {None},
                         event : Events \cup {None}]]
    /\ res \in [Calls -> {None, "ok", "rejected", "error", "lost"}]
    /\ seen \in [Calls -> Nat]

Last(s) == s[Len(s)]

\* A committed row always carries the status and the time of the last line
\* of its history, and an order without a row has no history: the UPDATE of
\* the row and the INSERT of the line never come apart, whatever fails or
\* overlaps (WithTransaction).
RowMatchesHistory ==
    \A o \in Orders :
        IF orders[o] = None
          THEN history[o] = <<>>
          ELSE /\ history[o] # <<>>
               /\ Last(history[o]) = [status |-> orders[o].status,
                                      at |-> orders[o].updated]

\* Every committed change has exactly one outbox event, of its own type and
\* in commit order, and no event stands for a change that was rolled back.
OneEventPerChange ==
    \A o \in Orders :
        /\ Len(outbox[o]) = Len(history[o])
        /\ \A i \in 1..Len(outbox[o]) :
              outbox[o][i].type = EventType(history[o][i].status)

\* Whoever an event is addressed to is the receiver the order was accepted
\* for, although the operations take the name from the request.
EventsNameTheReceiver ==
    \A o \in Orders : \A i \in 1..Len(outbox[o]) :
        orders[o] # None /\ outbox[o][i].user = orders[o].receiver

\* An order enters storage once, as the first line of its history, however
\* many couriers hand it in at the same time and although AcceptOrder takes
\* a failed read for an absent order.
AcceptedOnce ==
    \A o \in Orders : \A i \in 1..Len(history[o]) :
        history[o][i].status = InStorage <=> i = 1

\* The row is one the order has had: its terms, with a line of its history.
IsVersion(o, row) ==
    /\ orders[o] # None
    /\ row.receiver = orders[o].receiver
    /\ row.until = orders[o].until
    /\ \E i \in 1..Len(history[o]) :
          history[o][i] = [status |-> row.status, at |-> row.updated]

\* What the cache holds, and what a call decides on, is a version of the
\* order that was committed: never a row of a transaction that may yet be
\* rolled back, and never a mixture of two versions.
KnownVersions ==
    /\ \A o \in Orders : cache[o] # None => IsVersion(o, cache[o])
    /\ \A c \in Calls : pc[c] \in {"fill", "check"} /\ order[c] # None
                           => IsVersion(Oid(c), order[c])

\* A row is locked by a call exactly while that call is inside its
\* transaction: no error path leaves a lock behind (the deferred Rollback).
LockedInsideTransaction ==
    \A c \in Calls, o \in Orders :
        lock[o] = c <=> pc[c] \in {"history", "event", "commit"} /\ Oid(c) = o

Lines == UNION {{o} \X DOMAIN history[o] : o \in Orders}
Told(answers) == {c \in Calls : res[c] \in answers}

\* There are never more calls that were told of success than changes in the
\* tables, nor more changes than calls that were told of success or of an
\* error, or told nothing: an answer OK is never given for a transaction that
\* was rolled back or whose commit failed (WithTransaction returns the error
\* of Commit), and a call that was rejected has changed nothing.
SuccessIsRecorded ==
    /\ Cardinality(Told({"ok"})) <= Cardinality(Lines)
    /\ Cardinality(Lines) <= Cardinality(Told({"ok", "error", "lost"}))

\* Every committed change was lawful for a version the order had, or gave out
\* or took back an order that was with the courier (Revive, which the
\* documents refuse), and when calls do not overlap (MaxInFlight = 1) it was so
\* for the order's last version: the service implements the ledger.  It does
\* not exclude that a change overwrites one that overlapped it (README,
\* section 5).
Ledger == INSTANCE OrderLedger WITH
            terms <- [o \in Orders |->
                        IF orders[o] = None THEN None
                        ELSE [receiver |-> orders[o].receiver,
                              until |-> orders[o].until]],
            ledger <- history,
            notices <- outbox,
            Times <- 0..MaxTime,
            Sequential <- (MaxInFlight = 1)

ImplementsLedger == Ledger!Spec

-----------------------------------------------------------------------------
(* What the documents and tests say of the orders' lives, and the code     *)
(* does not keep.                                                          *)

\* docs/homework-1: an order that goes back to the courier is removed, so
\* that nothing happens to it afterwards: nobody issues it (docs/homework-3:
\* an order that is not in the pick-up point is not issued) and no client, to
\* whom it was not issued, returns it.
GoneWithTheCourier ==
    \A o \in Orders : \A i \in 2..Len(history[o]) :
        history[o][i - 1].status \notin CourierStatuses

\* issue_orders_test, for calls that do not race with the issue: a call that
\* began when the order was given, and found no change since, does not give
\* it again.
GivenIsSeenAsGiven ==
    [][\A c \in Calls :
         pc[c] = "commit" /\ pc'[c] = "done" /\ history' # history /\ req[c].op = "issue"
            => ~ /\ seen[c] > 0
                 /\ \A i \in seen[c]..Len(history[Oid(c)]) :
                       history[Oid(c)][i].status = GivenToClient]_vars
=============================================================================
