------------------------- MODULE OrderServiceProofs -------------------------
(***************************************************************************)
(* Theorems about OrderService for every set of orders, receivers and      *)
(* calls, any number of overlapping calls, with or without the cache.      *)
(***************************************************************************)
EXTENDS OrderService, FiniteSetTheorems, TLAPS

-----------------------------------------------------------------------------
(* The inductive invariant.                                                *)

InTx == {"history", "event", "commit"}

\* What a call that is about to write knows of the row it wants to write.
AcceptDecided(c) ==
    /\ pc[c] # "stamp"
    /\ order[c].status = InStorage
    /\ order[c].receiver = req[c].receiver
    /\ order[c].updated \in 0..MaxTime
    /\ pc[c] \in InTx => orders[Oid(c)] = None

\* The version a change was decided on, for a call that still has to stamp
\* it and for one that has.
GroundsToHandOver(c) ==
    /\ req[c].op = "courier"
    /\ clock >= order[c].until
    /\ \E i \in 1..Len(history[Oid(c)]) :
          \/ /\ history[Oid(c)][i].status = InStorage
             /\ order[c].status = ReturnedWithoutClient
          \/ /\ history[Oid(c)][i].status = ReturnedFromClient
             /\ order[c].status = GivenToCourier

\* The ledger lets the change rest on the version.
Warranted(e, s, at, until) ==
    Ledger!Lawful(e, s, at, until) \/ Ledger!Revival(e, s, at, until)

GroundsToMove(c) ==
    /\ order[c].updated \in 0..MaxTime
    /\ \E i \in 1..Len(history[Oid(c)]) :
          Warranted(history[Oid(c)][i], order[c].status,
                        order[c].updated, order[c].until)

MoveDecided(c) ==
    /\ orders[Oid(c)] # None
    /\ order[c].receiver = orders[Oid(c)].receiver
    /\ order[c].until = orders[Oid(c)].until
    /\ req[c].op # "courier" => req[c].receiver = order[c].receiver
    /\ order[c].status # InStorage
    /\ IF pc[c] = "stamp" THEN GroundsToHandOver(c) ELSE GroundsToMove(c)

Decided(c) ==
    /\ order[c] \in Rows
    /\ IF req[c].op = "accept" THEN AcceptDecided(c) ELSE MoveDecided(c)

\* What a call's transaction has written so far.
Pending(c) ==
    [row |-> IF pc[c] \in InTx THEN order[c] ELSE None,
     entry |-> IF pc[c] \in InTx \ {"history"}
                 THEN [status |-> order[c].status, at |-> order[c].updated]
                 ELSE None,
     event |-> IF pc[c] = "commit"
                 THEN [type |-> EventType(order[c].status), user |-> Addressee(c)]
                 ELSE None]

CallOK(c) ==
    /\ pc[c] \notin {"ready", "done"} => req[c] \in Requests
    /\ pc[c] \in {"ready", "lookup", "query", "done"} => order[c] = None
    /\ pc[c] = "fill" => order[c] # None
    /\ pc[c] \in {"stamp", "write"} \cup InTx => Decided(c)
    /\ tx[c] = Pending(c)

CallsOK == \A c \in Calls : CallOK(c)

TablesOK ==
    RowMatchesHistory /\ OneEventPerChange /\ EventsNameTheReceiver /\ AcceptedOnce

Inv == TypeOK /\ LockedInsideTransaction /\ TablesOK /\ KnownVersions /\ CallsOK

-----------------------------------------------------------------------------
(* Type correctness.                                                       *)

\* The fields a request has, by operation.
LEMMA RequestFields ==
    ASSUME NEW r \in Requests
    PROVE  /\ r.order \in Orders
           /\ r.op \in {"accept", "issue", "return", "courier"}
           /\ r.op = "accept" => r.until \in Deadlines
           /\ r.op # "courier" => r.receiver \in Receivers
BY DEF Requests

\* The event types are the values of EventType.
LEMMA EventTypeIsType ==
    ASSUME NEW s \in Statuses
    PROVE  EventType(s) \in EventTypes
BY DEF EventType, EventTypes, Statuses, CourierStatuses, InStorage, GivenToClient,
       ReturnedFromClient, ReturnedWithoutClient, GivenToCourier

\* Every step keeps the types.
LEMMA TypeStep ==
    ASSUME Inv, [Next]_vars
    PROVE  TypeOK'
<1> USE ServiceAssumption DEF Inv
<1>1. CASE UNCHANGED vars
  BY <1>1 DEF vars, TypeOK, tables
<1>2. ASSUME NEW c \in Calls, NEW r \in Requests, Start(c, r)
      PROVE  TypeOK'
  BY <1>2, RequestFields DEF Start, TypeOK, tables, Labels
<1>3. ASSUME NEW c \in Calls, Lookup(c) \/ Query(c) \/ Fill(c)
      PROVE  TypeOK'
  <2>1. req[c] \in Requests /\ Oid(c) \in Orders
    BY <1>3, RequestFields DEF Lookup, Query, Fill, CallsOK, CallOK, Oid
  <2>2. CASE Lookup(c)
    <3>1. cache[Oid(c)] \in Rows \cup {None}
      BY <2>1 DEF TypeOK
    <3> QED
      BY <2>2, <3>1 DEF Lookup, Goto, TypeOK, tables, Labels
  <2>3. CASE Query(c)
    <3>1. orders[Oid(c)] \in Rows \cup {None}
      BY <2>1 DEF TypeOK
    <3> QED
      BY <2>3, <3>1 DEF Query, Goto, TypeOK, tables, Labels
  <2>4. CASE Fill(c)
    BY <2>1, <2>4 DEF Fill, Goto, TypeOK, tables, Labels
  <2> QED
    BY <1>3, <2>2, <2>3, <2>4
<1>4. ASSUME NEW c \in Calls, QueryFails(c)
      PROVE  TypeOK'
  <2>1. CASE req[c].op = "accept"
    BY <1>4, <2>1 DEF QueryFails, Goto, TypeOK, tables, Labels
  <2>2. CASE req[c].op # "accept"
    <3>1. Finish(c, "error") /\ UNCHANGED <<clock, tables, lock, cache>>
      BY <1>4, <2>2 DEF QueryFails
    <3> QED
      BY <3>1 DEF Finish, TypeOK, tables, Labels, NoTx
  <2> QED
    BY <2>1, <2>2
<1>5. ASSUME NEW c \in Calls, Reject(c) PROVE TypeOK'
  BY <1>5 DEF Reject, Finish, TypeOK, tables, Labels, NoTx
<1>6. ASSUME NEW c \in Calls, NEW row \in Rows, NEW l \in Labels, Prepare(c, row, l)
      PROVE  TypeOK'
  BY <1>6 DEF Prepare, Goto, TypeOK, tables
<1>7. ASSUME NEW c \in Calls, Check(c) \/ Stamp(c)
      PROVE  TypeOK'
  <2>1. req[c] \in Requests
    BY <1>7 DEF Check, CheckAccept, CheckIssue, CheckReturn, CheckCourier, Stamp,
                CallsOK, CallOK
  <2>2. now[c] \in Nat /\ clock \in Nat /\ order[c] \in Rows \cup {None}
    BY DEF TypeOK
  <2>3. CASE CheckAccept(c)
    <3>1. [receiver |-> req[c].receiver, until |-> req[c].until,
           status |-> InStorage, updated |-> now[c]] \in Rows
      BY <2>1, <2>2, <2>3, RequestFields DEF CheckAccept, Rows, Statuses
    <3> QED
      BY <2>3, <3>1, <1>5, <1>6 DEF CheckAccept, Labels
  <2>4. CASE CheckIssue(c)
    <3>1. MayIssue(c) => [order[c] EXCEPT !.status = GivenToClient,
                                          !.updated = now[c]] \in Rows
      BY <2>2 DEF MayIssue, Rows, Statuses
    <3> QED
      BY <2>4, <3>1, <1>5, <1>6 DEF CheckIssue, Labels
  <2>5. CASE CheckReturn(c)
    <3>1. MayReturn(c) => [order[c] EXCEPT !.status = ReturnedFromClient,
                                           !.updated = now[c]] \in Rows
      BY <2>2 DEF MayReturn, Rows, Statuses
    <3> QED
      BY <2>5, <3>1, <1>5, <1>6 DEF CheckReturn, Labels
  <2>6. CASE CheckCourier(c)
    <3>1. MayHandOver(c) => [order[c] EXCEPT !.status = HandedOver(@)] \in Rows
      BY <2>2 DEF MayHandOver, HandedOver, Rows, Statuses
    <3> QED
      BY <2>6, <3>1, <1>5, <1>6 DEF CheckCourier, Labels
  <2>7. CASE Stamp(c)
    <3>1. [order[c] EXCEPT !.updated = clock] \in Rows
      BY <2>2, <2>7 DEF Stamp, CallsOK, CallOK, Decided, Rows
    <3> QED
      BY <2>7, <3>1, <1>6 DEF Stamp, Labels
  <2> QED
    BY <1>7, <2>3, <2>4, <2>5, <2>6, <2>7 DEF Check
<1>8. ASSUME NEW c \in Calls, Write(c) PROVE TypeOK'
  <2>1. order[c] \in Rows /\ Oid(c) \in Orders
    BY <1>8, RequestFields DEF Write, CallsOK, CallOK, Decided, Oid
  <2>2. CASE Reject(c)
    BY <2>2, <1>5
  <2>3. CASE ~(req[c].op = "accept" /\ orders[Oid(c)] # None)
    <3>1. /\ lock' = [lock EXCEPT ![Oid(c)] = c]
          /\ tx' = [tx EXCEPT ![c].row = order[c]]
          /\ cache' = [cache EXCEPT ![Oid(c)] = None]
          /\ Goto(c, "history")
          /\ UNCHANGED <<clock, tables, order>>
      BY <1>8, <2>3 DEF Write
    <3> QED
      BY <2>1, <3>1 DEF Goto, TypeOK, tables, Labels
  <2> QED BY <1>8, <2>2, <2>3 DEF Write
<1>9. ASSUME NEW c \in Calls, SaveHistory(c) PROVE TypeOK'
  <2>1. [status |-> order[c].status, at |-> order[c].updated] \in Entries
    BY <1>9 DEF SaveHistory, CallsOK, CallOK, Decided, InTx, Rows, Entries
  <2> QED
    BY <1>9, <2>1 DEF SaveHistory, Goto, TypeOK, tables, Labels
<1>10. ASSUME NEW c \in Calls, SaveEvent(c) PROVE TypeOK'
  <2>1. order[c] \in Rows /\ req[c] \in Requests
    BY <1>10 DEF SaveEvent, CallsOK, CallOK, Decided, InTx
  <2>2. EventType(order[c].status) \in EventTypes /\ Addressee(c) \in Receivers
    BY <2>1, EventTypeIsType, RequestFields DEF Addressee, Rows
  <2> QED
    BY <1>10, <2>2 DEF SaveEvent, Goto, TypeOK, tables, Labels, Events
<1>11. ASSUME NEW c \in Calls, Commit(c) \/ CommitReplyLost(c)
       PROVE  TypeOK'
  <2>1. Oid(c) \in Orders
    BY <1>11, RequestFields DEF Commit, CommitReplyLost, CallsOK, CallOK, Oid
  <2>2. lock' \in [Orders -> Calls \cup {None}]
    BY <1>11 DEF Commit, CommitReplyLost, Publish, Release, TypeOK
  <2>3. Publish(c) /\ \E r \in {"ok", "error"} : Finish(c, r)
    BY <1>11 DEF Commit, CommitReplyLost
  <2>4. /\ tx[c].row \in Rows \cup {None}
        /\ tx[c].entry \in Entries \cup {None}
        /\ tx[c].event \in Events \cup {None}
    BY DEF TypeOK
  <2>5. /\ WithPending(history[Oid(c)], tx[c].entry) \in Seq(Entries)
        /\ WithPending(outbox[Oid(c)], tx[c].event) \in Seq(Events)
    BY <2>1, <2>4 DEF WithPending, TypeOK
  <2>6. /\ orders' \in [Orders -> Rows \cup {None}]
        /\ history' \in [Orders -> Seq(Entries)]
        /\ outbox' \in [Orders -> Seq(Events)]
    BY <2>3, <2>4, <2>5 DEF Publish, TypeOK
  <2>7. clock' \in 0..MaxTime /\ cache' \in [Orders -> Rows \cup {None}]
    BY <2>3 DEF Publish, TypeOK
  <2> QED
    BY <2>2, <2>3, <2>6, <2>7 DEF Finish, TypeOK, Labels, NoTx
<1>12. ASSUME NEW c \in Calls, Fail(c) PROVE TypeOK'
  BY <1>12 DEF Fail, Release, Finish, TypeOK, tables, Labels, NoTx
<1>13. ASSUME NEW o \in Orders, Evict(o) PROVE TypeOK'
  BY <1>13 DEF Evict, TypeOK, tables
<1>14. CASE Tick
  BY <1>14 DEF Tick, TypeOK, tables
<1>15. CASE Crash
  BY <1>15 DEF Crash, TypeOK, tables, Labels, NoTx
<1> QED
  BY <1>1, <1>2, <1>3, <1>4, <1>7, <1>8, <1>9, <1>10, <1>11, <1>12, <1>13, <1>14, <1>15
     DEF Next, Step, Finished

-----------------------------------------------------------------------------
(* The row locks.                                                          *)

\* A call's steps outside its transaction leave the locks and every call's
\* standing towards its transaction alone.
LEMMA OutsideTransaction ==
    ASSUME Inv, NEW c \in Calls,
           \/ \E r \in Requests : Start(c, r)
           \/ Lookup(c) \/ Query(c) \/ QueryFails(c) \/ Fill(c) \/ Check(c) \/ Stamp(c)
           \/ Write(c) /\ Reject(c)
    PROVE  /\ lock' = lock
           /\ pc[c] \notin InTx /\ pc'[c] \notin InTx
           /\ \A d \in Calls \ {c} : pc'[d] = pc[d] /\ req'[d] = req[d]
<1> USE DEF Inv, TypeOK, InTx
<1>1. CASE \E r \in Requests : Start(c, r)
  BY <1>1 DEF Start
<1>2. CASE Lookup(c) \/ Query(c) \/ Fill(c) \/ Stamp(c)
  BY <1>2 DEF Lookup, Query, Fill, Stamp, Prepare, Goto
<1>3. ASSUME Reject(c), pc[c] \notin InTx
      PROVE  /\ lock' = lock
             /\ pc'[c] \notin InTx
             /\ \A d \in Calls \ {c} : pc'[d] = pc[d] /\ req'[d] = req[d]
  BY <1>3 DEF Reject, Finish
<1>4. CASE QueryFails(c)
  BY <1>4 DEF QueryFails, Goto, Finish
<1>5. ASSUME NEW row, NEW l \in {"stamp", "write"}, Prepare(c, row, l)
      PROVE  /\ lock' = lock
             /\ pc'[c] \notin InTx
             /\ \A d \in Calls \ {c} : pc'[d] = pc[d] /\ req'[d] = req[d]
  BY <1>5 DEF Prepare, Goto
<1>6. CASE Check(c)
  BY <1>3, <1>5, <1>6 DEF Check, CheckAccept, CheckIssue, CheckReturn, CheckCourier
<1>7. CASE Write(c) /\ Reject(c)
  BY <1>3, <1>7 DEF Write
<1> QED
  BY <1>1, <1>2, <1>4, <1>6, <1>7

\* Every step keeps the locks with the calls inside a transaction.
LEMMA LockStep ==
    ASSUME Inv, [Next]_vars
    PROVE  LockedInsideTransaction'
<1> USE ServiceAssumption DEF Inv, TypeOK, LockedInsideTransaction, InTx
<1>1. CASE UNCHANGED vars
  BY <1>1 DEF vars, Oid
<1>2. ASSUME NEW c \in Calls,
             \/ \E r \in Requests : Start(c, r)
             \/ Lookup(c) \/ Query(c) \/ QueryFails(c) \/ Fill(c) \/ Check(c) \/ Stamp(c)
             \/ Write(c) /\ Reject(c)
      PROVE  LockedInsideTransaction'
  <2>1. /\ lock' = lock /\ pc[c] \notin InTx /\ pc'[c] \notin InTx
        /\ \A d \in Calls \ {c} : pc'[d] = pc[d] /\ req'[d] = req[d]
    BY <1>2, OutsideTransaction
  <2>2. ASSUME NEW d \in Calls, NEW o \in Orders
        PROVE  lock'[o] = d <=> pc'[d] \in InTx /\ Oid(d)' = o
    <3>1. CASE d = c
      BY <2>1, <3>1
    <3>2. CASE d # c
      BY <2>1, <3>2 DEF Oid
    <3> QED
      BY <3>1, <3>2
  <2> QED
    BY <2>2
<1>3. ASSUME NEW c \in Calls, Write(c), ~Reject(c)
      PROVE  LockedInsideTransaction'
  <2>1. /\ pc[c] = "write" /\ lock[Oid(c)] = None
        /\ lock' = [lock EXCEPT ![Oid(c)] = c]
        /\ Goto(c, "history")
    BY <1>3 DEF Write
  <2>2. Oid(c) \in Orders
    BY <2>1, RequestFields DEF CallsOK, CallOK, Oid
  <2> QED
    BY <2>1, <2>2 DEF Goto, Oid
<1>4. ASSUME NEW c \in Calls, SaveHistory(c) \/ SaveEvent(c)
      PROVE  LockedInsideTransaction'
  BY <1>4 DEF SaveHistory, SaveEvent, Goto, Oid
<1>5. ASSUME NEW c \in Calls, Commit(c) \/ CommitReplyLost(c) \/ Fail(c)
      PROVE  LockedInsideTransaction'
  <2>1. lock' = Release(c) /\ \E r \in {"ok", "error"} : Finish(c, r)
    BY <1>5 DEF Commit, CommitReplyLost, Publish, Fail
  <2>2. /\ lock' = [o \in Orders |-> IF lock[o] = c THEN None ELSE lock[o]]
        /\ pc'[c] = "done"
        /\ \A d \in Calls \ {c} : pc'[d] = pc[d] /\ req'[d] = req[d]
    BY <2>1 DEF Release, Finish
  <2>3. ASSUME NEW d \in Calls, NEW o \in Orders
        PROVE  lock'[o] = d <=> pc'[d] \in InTx /\ Oid(d)' = o
    <3>1. CASE d = c
      BY <2>2, <3>1
    <3>2. CASE d # c
      BY <2>2, <3>2 DEF Oid
    <3> QED
      BY <3>1, <3>2
  <2> QED
    BY <2>3
<1>6. ASSUME NEW o \in Orders, Evict(o) PROVE LockedInsideTransaction'
  BY <1>6 DEF Evict, Oid
<1>7. CASE Tick
  BY <1>7 DEF Tick, Oid
<1>8. CASE Crash
  BY <1>8 DEF Crash, InFlight
<1> QED
  BY <1>1, <1>2, <1>3, <1>4, <1>5, <1>6, <1>7, <1>8 DEF Next, Step, Finished

-----------------------------------------------------------------------------
(* What a commit does to the tables.                                       *)

\* The call commits what its transaction holds.
Commits(c) ==
    /\ pc[c] = "commit"
    /\ Publish(c)
    /\ \E r \in {"ok", "error"} : Finish(c, r)

\* The tables change in no other way.
LEMMA OnlyCommitsChangeTables ==
    ASSUME [Next]_vars
    PROVE  UNCHANGED tables \/ \E c \in Calls : Commits(c)
<1>1. ASSUME NEW c \in Calls, Check(c) \/ Stamp(c)
      PROVE  UNCHANGED tables
  BY <1>1 DEF Check, CheckAccept, CheckIssue, CheckReturn, CheckCourier, Stamp,
              Reject, Prepare
<1>2. ASSUME NEW c \in Calls, Commit(c) \/ CommitReplyLost(c)
      PROVE  Commits(c)
  BY <1>2 DEF Commit, CommitReplyLost, Commits
<1>3. ASSUME NEW c \in Calls,
             \/ \E r \in Requests : Start(c, r)
             \/ Lookup(c) \/ Query(c) \/ QueryFails(c) \/ Fill(c)
             \/ Write(c) \/ SaveHistory(c) \/ SaveEvent(c) \/ Fail(c)
      PROVE  UNCHANGED tables
  BY <1>3 DEF Start, Lookup, Query, QueryFails, Fill, Write, Reject,
              SaveHistory, SaveEvent, Fail
<1> QED
  BY <1>1, <1>2, <1>3 DEF Next, Step, Evict, Tick, Crash, Finished, vars, tables

\* A commit writes the row the call decided on, and appends its entry and
\* its event.
LEMMA CommitEffect ==
    ASSUME Inv, NEW c \in Calls, Commits(c)
    PROVE  /\ req[c] \in Requests /\ Oid(c) \in Orders /\ Decided(c)
           /\ orders' = [orders EXCEPT ![Oid(c)] = order[c]]
           /\ history' = [history EXCEPT ![Oid(c)] =
                Append(@, [status |-> order[c].status, at |-> order[c].updated])]
           /\ outbox' = [outbox EXCEPT ![Oid(c)] =
                Append(@, [type |-> EventType(order[c].status), user |-> Addressee(c)])]
           /\ [status |-> order[c].status, at |-> order[c].updated] \in Entries
           /\ [type |-> EventType(order[c].status), user |-> Addressee(c)] \in Events
<1> DEFINE entry == [status |-> order[c].status, at |-> order[c].updated]
           event == [type |-> EventType(order[c].status), user |-> Addressee(c)]
<1>1. /\ req[c] \in Requests /\ Oid(c) \in Orders /\ Decided(c)
      /\ tx[c] = [row |-> order[c], entry |-> entry, event |-> event]
  BY RequestFields DEF Commits, Inv, CallsOK, CallOK, Pending, InTx, Oid
<1>2. entry \in Entries
  BY <1>1 DEF Decided, Rows, Entries
<1>3. event \in Events
  BY <1>1, RequestFields, EventTypeIsType DEF Decided, Rows, Addressee, Events
<1>4. entry # None /\ event # None
  BY <1>2, <1>3, ServiceAssumption DEF Events
<1>5. \A s : WithPending(s, entry) = Append(s, entry) /\ WithPending(s, event) = Append(s, event)
  BY <1>4 DEF WithPending
<1>6. tx[c].row = order[c] /\ tx[c].entry = entry /\ tx[c].event = event
  BY <1>1
<1> HIDE DEF entry, event
<1>7. /\ orders' = [orders EXCEPT ![Oid(c)] = order[c]]
      /\ history' = [history EXCEPT ![Oid(c)] = Append(@, entry)]
      /\ outbox' = [outbox EXCEPT ![Oid(c)] = Append(@, event)]
  BY <1>5, <1>6 DEF Commits, Publish
<1> QED
  BY <1>1, <1>2, <1>3, <1>7 DEF entry, event

-----------------------------------------------------------------------------
(* The tables agree with each other.                                       *)

\* The first line and the terms of an order that has a row.
LEMMA CommitOnExisting ==
    ASSUME Inv, NEW c \in Calls, Commits(c)
    PROVE  LET o == Oid(c) IN
           /\ orders[o] = None =>
                /\ history[o] = <<>> /\ outbox[o] = <<>>
                /\ order[c].status = InStorage
           /\ orders[o] # None =>
                /\ order[c].status # InStorage
                /\ order[c].receiver = orders[o].receiver
                /\ order[c].until = orders[o].until
           /\ Addressee(c) = order[c].receiver
<1> DEFINE o == Oid(c)
<1>1. req[c] \in Requests /\ o \in Orders /\ Decided(c) /\ pc[c] = "commit"
  BY CommitEffect DEF Commits
<1>2. history[o] \in Seq(Entries) /\ outbox[o] \in Seq(Events)
  BY <1>1 DEF Inv, TypeOK
<1>3. CASE req[c].op = "accept"
  <2>1. AcceptDecided(c) /\ orders[o] = None
    BY <1>1, <1>3 DEF Decided, AcceptDecided, InTx
  <2>2. history[o] = <<>> /\ Len(outbox[o]) = Len(history[o])
    BY <1>1, <2>1 DEF Inv, TablesOK, RowMatchesHistory, OneEventPerChange
  <2>3. outbox[o] = <<>>
    BY <1>2, <2>2
  <2> QED
    BY <1>3, <2>1, <2>2, <2>3 DEF AcceptDecided, Addressee
<1>4. CASE req[c].op # "accept"
  BY <1>1, <1>4 DEF Decided, MoveDecided, Addressee
<1> QED
  BY <1>3, <1>4

\* Every step keeps row, history and outbox in agreement.
LEMMA TablesStep ==
    ASSUME Inv, [Next]_vars
    PROVE  TablesOK'
<1>1. CASE UNCHANGED tables
  BY <1>1 DEF Inv, TablesOK, RowMatchesHistory, OneEventPerChange,
              EventsNameTheReceiver, AcceptedOnce, Last, tables
<1>2. ASSUME NEW c \in Calls, Commits(c)
      PROVE  TablesOK'
  <2> DEFINE o == Oid(c)
             entry == [status |-> order[c].status, at |-> order[c].updated]
             event == [type |-> EventType(order[c].status), user |-> Addressee(c)]
  <2>1. /\ o \in Orders /\ order[c] \in Rows
        /\ orders' = [orders EXCEPT ![o] = order[c]]
        /\ history' = [history EXCEPT ![o] = Append(@, entry)]
        /\ outbox' = [outbox EXCEPT ![o] = Append(@, event)]
        /\ entry \in Entries /\ event \in Events
    BY <1>2, CommitEffect DEF Decided
  <2>2. /\ orders[o] = None =>
             /\ history[o] = <<>> /\ outbox[o] = <<>>
             /\ entry.status = InStorage
        /\ orders[o] # None =>
             entry.status # InStorage /\ order[c].receiver = orders[o].receiver
        /\ event.user = order[c].receiver
        /\ entry.status = order[c].status /\ entry.at = order[c].updated
        /\ event.type = EventType(entry.status)
    BY <1>2, CommitOnExisting
  <2>3. /\ orders \in [Orders -> Rows \cup {None}]
        /\ history \in [Orders -> Seq(Entries)]
        /\ outbox \in [Orders -> Seq(Events)]
    BY DEF Inv, TypeOK
  <2>4. /\ orders'[o] = order[c] /\ order[c] # None
        /\ history'[o] = Append(history[o], entry)
        /\ outbox'[o] = Append(outbox[o], event)
    BY <2>1, <2>3, ServiceAssumption DEF Rows
  <2>5. \A p \in Orders \ {o} :
           orders'[p] = orders[p] /\ history'[p] = history[p] /\ outbox'[p] = outbox[p]
    BY <2>1, <2>3
  <2>6. /\ Len(history'[o]) = Len(history[o]) + 1 /\ Len(history[o]) \in Nat
        /\ \A i \in 1..Len(history[o]) : history'[o][i] = history[o][i]
        /\ history'[o][Len(history[o]) + 1] = entry
    BY <2>1, <2>3, <2>4
  <2>7. /\ Len(outbox'[o]) = Len(outbox[o]) + 1 /\ Len(outbox[o]) \in Nat
        /\ \A i \in 1..Len(outbox[o]) : outbox'[o][i] = outbox[o][i]
        /\ outbox'[o][Len(outbox[o]) + 1] = event
    BY <2>1, <2>3, <2>4
  <2> HIDE DEF o, entry, event
  <2>8. RowMatchesHistory'
    <3>1. ASSUME NEW p \in Orders, p # o
          PROVE  IF orders'[p] = None THEN history'[p] = <<>>
                 ELSE /\ history'[p] # <<>>
                      /\ Last(history'[p]) = [status |-> orders'[p].status,
                                              at |-> orders'[p].updated]
      BY <2>5, <3>1 DEF Inv, TablesOK, RowMatchesHistory
    <3>2. history'[o] # <<>> /\ Last(history'[o]) = entry
      BY <2>6 DEF Last
    <3>3. entry = [status |-> orders'[o].status, at |-> orders'[o].updated]
      BY <2>4 DEF entry
    <3> QED
      BY <2>4, <3>1, <3>2, <3>3 DEF RowMatchesHistory, Last
  <2>9. OneEventPerChange'
    <3>1. Len(outbox[o]) = Len(history[o])
          /\ \A i \in 1..Len(outbox[o]) : outbox[o][i].type = EventType(history[o][i].status)
      BY <2>1 DEF Inv, TablesOK, OneEventPerChange
    <3>2. \A i \in 1..Len(outbox'[o]) : i \in 1..Len(outbox[o]) \/ i = Len(outbox[o]) + 1
      BY <2>7
    <3>3. \A i \in 1..Len(outbox'[o]) : outbox'[o][i].type = EventType(history'[o][i].status)
      BY <2>2, <2>6, <2>7, <3>1, <3>2
    <3> QED
      BY <2>5, <2>6, <2>7, <3>1, <3>3 DEF Inv, TablesOK, OneEventPerChange
  <2>10. EventsNameTheReceiver'
    <3>1. ASSUME NEW i \in 1..Len(outbox'[o])
          PROVE  orders'[o] # None /\ outbox'[o][i].user = orders'[o].receiver
      <4>1. CASE i = Len(outbox[o]) + 1
        BY <2>2, <2>4, <2>7, <4>1
      <4>2. CASE i \in 1..Len(outbox[o])
        BY <2>1, <2>2, <2>4, <2>7, <4>2 DEF Inv, TablesOK, EventsNameTheReceiver
      <4> QED
        BY <2>7, <4>1, <4>2
    <3> QED
      BY <2>5, <3>1 DEF Inv, TablesOK, EventsNameTheReceiver
  <2>11. AcceptedOnce'
    <3>1. ASSUME NEW i \in 1..Len(history'[o])
          PROVE  history'[o][i].status = InStorage <=> i = 1
      <4>1. CASE i = Len(history[o]) + 1
        <5>1. orders[o] = None <=> Len(history[o]) = 0
          BY <2>1, <2>2, <2>3 DEF Inv, TablesOK, RowMatchesHistory
        <5> QED
          BY <2>2, <2>6, <4>1, <5>1
      <4>2. CASE i \in 1..Len(history[o])
        BY <2>1, <2>6, <4>2 DEF Inv, TablesOK, AcceptedOnce
      <4> QED
        BY <2>6, <4>1, <4>2
    <3> QED
      BY <2>5, <3>1 DEF Inv, TablesOK, AcceptedOnce
  <2> QED
    BY <2>8, <2>9, <2>10, <2>11 DEF TablesOK
<1> QED
  BY <1>1, <1>2, OnlyCommitsChangeTables

-----------------------------------------------------------------------------
(* What calls and the cache know stays true.                               *)

\* A row once there keeps its terms, and histories only grow.
LEMMA HistoryGrows ==
    ASSUME Inv, [Next]_vars, NEW o \in Orders, orders[o] # None
    PROVE  /\ orders'[o] # None
           /\ orders'[o].receiver = orders[o].receiver
           /\ orders'[o].until = orders[o].until
           /\ \A i \in 1..Len(history[o]) :
                 i \in 1..Len(history'[o]) /\ history'[o][i] = history[o][i]
<1>1. CASE UNCHANGED tables
  BY <1>1 DEF tables
<1>2. ASSUME NEW c \in Calls, Commits(c), o = Oid(c)
      PROVE  /\ orders'[o] # None
             /\ orders'[o].receiver = orders[o].receiver
             /\ orders'[o].until = orders[o].until
             /\ \A i \in 1..Len(history[o]) :
                   i \in 1..Len(history'[o]) /\ history'[o][i] = history[o][i]
  <2> DEFINE entry == [status |-> order[c].status, at |-> order[c].updated]
  <2>1. /\ order[c] \in Rows /\ entry \in Entries
        /\ orders' = [orders EXCEPT ![o] = order[c]]
        /\ history' = [history EXCEPT ![o] = Append(@, entry)]
    BY <1>2, CommitEffect DEF Decided
  <2>2. order[c].receiver = orders[o].receiver /\ order[c].until = orders[o].until
    BY <1>2, CommitOnExisting
  <2>3. history[o] \in Seq(Entries) /\ orders \in [Orders -> Rows \cup {None}]
        /\ history \in [Orders -> Seq(Entries)]
    BY DEF Inv, TypeOK
  <2>4. orders'[o] = order[c] /\ history'[o] = Append(history[o], entry)
    BY <2>1, <2>3
  <2> HIDE DEF entry
  <2>5. \A i \in 1..Len(history[o]) :
           i \in 1..Len(history'[o]) /\ history'[o][i] = history[o][i]
    BY <2>1, <2>3, <2>4
  <2> QED
    BY <2>1, <2>2, <2>4, <2>5, ServiceAssumption DEF Rows
<1>3. ASSUME NEW c \in Calls, Commits(c), o # Oid(c)
      PROVE  orders'[o] = orders[o] /\ history'[o] = history[o]
  <2> DEFINE entry == [status |-> order[c].status, at |-> order[c].updated]
  <2>1. /\ orders' = [orders EXCEPT ![Oid(c)] = order[c]]
        /\ history' = [history EXCEPT ![Oid(c)] = Append(@, entry)]
    BY <1>3, CommitEffect
  <2>2. /\ orders \in [Orders -> Rows \cup {None}]
        /\ history \in [Orders -> Seq(Entries)]
    BY DEF Inv, TypeOK
  <2> HIDE DEF entry
  <2> QED
    BY <1>3, <2>1, <2>2
<1>4. CASE \E c \in Calls : Commits(c)
  <2>1. PICK c \in Calls : Commits(c)
    BY <1>4
  <2>2. CASE o = Oid(c)
    BY <1>2, <2>1, <2>2
  <2>3. CASE o # Oid(c)
    <3>1. orders'[o] = orders[o] /\ history'[o] = history[o]
      BY <1>3, <2>1, <2>3
    <3> QED
      BY <3>1
  <2> QED
    BY <2>2, <2>3
<1> QED
  BY <1>1, <1>4, OnlyCommitsChangeTables

\* A version stays a version.
LEMMA VersionsKept ==
    ASSUME Inv, [Next]_vars, NEW o \in Orders, NEW row, IsVersion(o, row)
    PROVE  /\ orders'[o] # None
           /\ row.receiver = orders'[o].receiver
           /\ row.until = orders'[o].until
           /\ \E i \in 1..Len(history'[o]) :
                 history'[o][i] = [status |-> row.status, at |-> row.updated]
BY HistoryGrows DEF IsVersion

\* The committed row is a version.
LEMMA RowIsVersion ==
    ASSUME Inv, NEW o \in Orders, orders[o] # None
    PROVE  IsVersion(o, orders[o])
<1>1. /\ history[o] # <<>>
      /\ history[o][Len(history[o])] = [status |-> orders[o].status,
                                        at |-> orders[o].updated]
  BY DEF Inv, TablesOK, RowMatchesHistory, Last
<1>2. Len(history[o]) \in 1..Len(history[o])
  BY <1>1 DEF Inv, TypeOK
<1> QED
  BY <1>1, <1>2 DEF IsVersion

\* What the cache and the copies hold after a step was a version before it.
LEMMA NewlyKnown ==
    ASSUME Inv, [Next]_vars
    PROVE  /\ \A o \in Orders : cache'[o] # None => IsVersion(o, cache'[o])
           /\ \A d \in Calls :
                 pc'[d] \in {"fill", "check"} /\ order'[d] # None
                    => /\ req'[d] = req[d]
                       /\ Oid(d) \in Orders
                       /\ IsVersion(Oid(d), order'[d])
<1> USE DEF Inv, TypeOK
<1> DEFINE CacheKnown == \A o \in Orders : cache'[o] # None => IsVersion(o, cache'[o])
           Known(d) == pc'[d] \in {"fill", "check"} /\ order'[d] # None
                          => /\ req'[d] = req[d]
                             /\ Oid(d) \in Orders
                             /\ IsVersion(Oid(d), order'[d])
<1>1. \A o \in Orders : cache[o] # None => IsVersion(o, cache[o])
  BY DEF KnownVersions
<1>2. ASSUME NEW d \in Calls, pc[d] \notin {"ready", "done"}
      PROVE  req[d] \in Requests /\ Oid(d) \in Orders
  BY <1>2, RequestFields DEF CallsOK, CallOK, Oid
<1>3. ASSUME NEW d \in Calls, pc'[d] = pc[d], req'[d] = req[d], order'[d] = order[d]
      PROVE  Known(d)
  BY <1>2, <1>3 DEF KnownVersions
<1>4. ASSUME NEW c \in Calls, NEW l, NEW row, Prepare(c, row, l), l \notin {"fill", "check"}
      PROVE  CacheKnown /\ \A d \in Calls : Known(d)
  <2>1. /\ cache' = cache /\ pc' = [pc EXCEPT ![c] = l] /\ req' = req
        /\ order' = [order EXCEPT ![c] = row]
    BY <1>4 DEF Prepare, Goto
  <2>2. ASSUME NEW d \in Calls PROVE Known(d)
    <3>1. CASE d = c
      BY <1>4, <2>1, <3>1
    <3>2. CASE d # c
      BY <1>3, <2>1, <3>2
    <3> QED BY <3>1, <3>2
  <2> QED
    BY <1>1, <2>1, <2>2
<1>5. ASSUME NEW c \in Calls, NEW r, Finish(c, r), NEW d \in Calls
      PROVE  Known(d)
  <2>1. /\ pc' = [pc EXCEPT ![c] = "done"] /\ req' = [req EXCEPT ![c] = None]
        /\ order' = [order EXCEPT ![c] = None]
    BY <1>5 DEF Finish
  <2>2. CASE d = c
    BY <2>1, <2>2
  <2>3. CASE d # c
    BY <1>3, <2>1, <2>3
  <2> QED BY <2>2, <2>3
<1>6. ASSUME NEW c \in Calls, NEW r, Finish(c, r), cache' = cache
      PROVE  CacheKnown /\ \A d \in Calls : Known(d)
  BY <1>1, <1>5, <1>6
<1> HIDE DEF Known
<1>7. ASSUME cache' = cache, pc' = pc, req' = req, order' = order
      PROVE  CacheKnown /\ \A d \in Calls : Known(d)
  <2>1. ASSUME NEW d \in Calls PROVE Known(d)
    BY <1>3, <1>7
  <2> QED
    BY <1>1, <1>7, <2>1
<1>8. ASSUME NEW c \in Calls, NEW r \in Requests, Start(c, r)
      PROVE  CacheKnown /\ \A d \in Calls : Known(d)
  <2>1. /\ cache' = cache /\ order' = order
        /\ pc' = [pc EXCEPT ![c] = IF CacheEnabled THEN "lookup" ELSE "query"]
        /\ req' = [req EXCEPT ![c] = r]
    BY <1>8 DEF Start
  <2>2. ASSUME NEW d \in Calls PROVE Known(d)
    <3>1. CASE d = c
      BY <2>1, <3>1 DEF Known
    <3>2. CASE d # c
      BY <1>3, <2>1, <3>2
    <3> QED BY <3>1, <3>2
  <2> QED
    BY <1>1, <2>1, <2>2
<1>9. ASSUME NEW c \in Calls, Lookup(c) \/ Query(c)
      PROVE  CacheKnown /\ \A d \in Calls : Known(d)
  <2>1. cache' = cache /\ req' = req /\ Oid(c) \in Orders
    BY <1>2, <1>9 DEF Lookup, Query, Goto
  <2>2. order'[c] # None => IsVersion(Oid(c), order'[c])
    <3>1. CASE Lookup(c)
      BY <1>1, <2>1, <3>1 DEF Lookup
    <3>2. CASE Query(c)
      BY <2>1, <3>2, RowIsVersion DEF Query
    <3> QED BY <1>9, <3>1, <3>2
  <2>3. \A d \in Calls \ {c} : pc'[d] = pc[d] /\ order'[d] = order[d]
    BY <1>9 DEF Lookup, Query, Goto
  <2>4. ASSUME NEW d \in Calls PROVE Known(d)
    <3>1. CASE d = c
      BY <2>1, <2>2, <3>1 DEF Known
    <3>2. CASE d # c
      BY <1>3, <2>1, <2>3, <3>2
    <3> QED BY <3>1, <3>2
  <2> QED
    BY <1>1, <2>1, <2>4
<1>10. ASSUME NEW c \in Calls, QueryFails(c)
       PROVE  CacheKnown /\ \A d \in Calls : Known(d)
  <2>1. CASE Finish(c, "error")
    BY <1>6, <1>10, <2>1 DEF QueryFails
  <2>2. CASE Goto(c, "check") /\ UNCHANGED <<order, tx>>
    <3>1. /\ cache' = cache /\ req' = req /\ order' = order /\ order[c] = None
          /\ \A d \in Calls \ {c} : pc'[d] = pc[d]
      BY <1>10, <2>2 DEF QueryFails, Goto, CallsOK, CallOK
    <3>2. ASSUME NEW d \in Calls PROVE Known(d)
      <4>1. CASE d = c
        BY <3>1, <4>1 DEF Known
      <4>2. CASE d # c
        BY <1>3, <3>1, <4>2
      <4> QED BY <4>1, <4>2
    <3> QED
      BY <1>1, <3>1, <3>2
  <2> QED
    BY <1>10, <2>1, <2>2 DEF QueryFails
<1>11. ASSUME NEW c \in Calls, Fill(c)
       PROVE  CacheKnown /\ \A d \in Calls : Known(d)
  <2>1. /\ Oid(c) \in Orders /\ order[c] # None /\ IsVersion(Oid(c), order[c])
        /\ cache' = [cache EXCEPT ![Oid(c)] = order[c]]
        /\ req' = req /\ order' = order
        /\ \A d \in Calls \ {c} : pc'[d] = pc[d]
    BY <1>2, <1>11 DEF Fill, Goto, CallsOK, CallOK, KnownVersions
  <2>2. CacheKnown
    BY <1>1, <2>1
  <2>3. ASSUME NEW d \in Calls PROVE Known(d)
    <3>1. CASE d = c
      BY <2>1, <3>1 DEF Known
    <3>2. CASE d # c
      BY <1>3, <2>1, <3>2
    <3> QED BY <3>1, <3>2
  <2> QED
    BY <2>2, <2>3
<1>12. ASSUME NEW c \in Calls, Check(c) \/ Stamp(c)
       PROVE  CacheKnown /\ \A d \in Calls : Known(d)
  <2>1. CASE Reject(c)
    BY <1>6, <2>1 DEF Reject
  <2>2. CASE \E row : Prepare(c, row, "write") \/ Prepare(c, row, "stamp")
    BY <1>4, <2>2
  <2>3. CASE CheckAccept(c)
    BY <2>1, <2>2, <2>3 DEF CheckAccept
  <2>4. CASE CheckIssue(c)
    BY <2>1, <2>2, <2>4 DEF CheckIssue
  <2>5. CASE CheckReturn(c)
    BY <2>1, <2>2, <2>5 DEF CheckReturn
  <2>6. CASE CheckCourier(c)
    BY <2>1, <2>2, <2>6 DEF CheckCourier
  <2>7. CASE Stamp(c)
    BY <2>2, <2>7 DEF Stamp
  <2> QED
    BY <1>12, <2>3, <2>4, <2>5, <2>6, <2>7 DEF Check
<1>13. ASSUME NEW c \in Calls, Write(c) \/ SaveHistory(c) \/ SaveEvent(c)
       PROVE  CacheKnown /\ \A d \in Calls : Known(d)
  <2>1. CASE Reject(c)
    BY <1>6, <2>1 DEF Reject
  <2>2. CASE ~Reject(c)
    <3>1. /\ cache' = cache \/ cache' = [cache EXCEPT ![Oid(c)] = None]
          /\ \E l \in {"history", "event", "commit"} : Goto(c, l)
          /\ order' = order
      BY <1>13, <2>2 DEF Write, SaveHistory, SaveEvent
    <3>2. /\ req' = req /\ pc'[c] \notin {"fill", "check"}
          /\ \A d \in Calls \ {c} : pc'[d] = pc[d]
      BY <3>1 DEF Goto
    <3>3. CacheKnown
      BY <1>1, <3>1
    <3>4. ASSUME NEW d \in Calls PROVE Known(d)
      <4>1. CASE d = c
        BY <3>2, <4>1 DEF Known
      <4>2. CASE d # c
        BY <1>3, <3>1, <3>2, <4>2
      <4> QED BY <4>1, <4>2
    <3> QED
      BY <3>3, <3>4
  <2> QED
    BY <2>1, <2>2
<1>14. ASSUME NEW c \in Calls, Commit(c) \/ CommitReplyLost(c) \/ Fail(c)
       PROVE  CacheKnown /\ \A d \in Calls : Known(d)
  BY <1>6, <1>14 DEF Commit, CommitReplyLost, Publish, Fail
<1>15. ASSUME NEW o \in Orders, Evict(o)
       PROVE  CacheKnown /\ \A d \in Calls : Known(d)
  BY <1>1, <1>3, <1>15 DEF Evict
<1>16. ASSUME Tick
       PROVE  CacheKnown /\ \A d \in Calls : Known(d)
  <2>1. cache' = cache /\ pc' = pc /\ req' = req /\ order' = order
    BY <1>16 DEF Tick
  <2> QED
    BY <1>7, <2>1
<1>19. ASSUME UNCHANGED vars
       PROVE  CacheKnown /\ \A d \in Calls : Known(d)
  <2>1. cache' = cache /\ pc' = pc /\ req' = req /\ order' = order
    BY <1>19 DEF vars
  <2> QED
    BY <1>7, <2>1
<1>17. ASSUME Crash
       PROVE  CacheKnown /\ \A d \in Calls : Known(d)
  <2>1. /\ cache' = [o \in Orders |-> None]
        /\ order' = [d \in Calls |-> None]
    BY <1>17 DEF Crash
  <2> QED
    BY <2>1 DEF Known
<1> HIDE DEF CacheKnown
<1>18. CacheKnown /\ \A d \in Calls : Known(d)
  BY <1>8, <1>9, <1>10, <1>11, <1>12, <1>13, <1>14, <1>15, <1>16, <1>17, <1>19
     DEF Next, Step, Finished
<1> QED
  BY <1>18 DEF CacheKnown, Known

\* Nothing is known that was never committed.
LEMMA VersionsStep ==
    ASSUME Inv, [Next]_vars
    PROVE  KnownVersions'
<1>1. ASSUME NEW o \in Orders, cache'[o] # None
      PROVE  IsVersion(o, cache[o])'
  BY <1>1, NewlyKnown, VersionsKept DEF IsVersion
<1>2. ASSUME NEW d \in Calls, pc'[d] \in {"fill", "check"}, order'[d] # None
      PROVE  IsVersion(Oid(d), order[d])'
  <2>1. req'[d] = req[d] /\ Oid(d) \in Orders /\ IsVersion(Oid(d), order'[d])
    BY <1>2, NewlyKnown
  <2>2. Oid(d)' = Oid(d)
    BY <2>1 DEF Oid
  <2> DEFINE o == Oid(d)
             row == order'[d]
  <2>3. /\ orders'[o] # None
        /\ row.receiver = orders'[o].receiver
        /\ row.until = orders'[o].until
        /\ \E i \in 1..Len(history'[o]) :
              history'[o][i] = [status |-> row.status, at |-> row.updated]
    <3> HIDE DEF o, row
    <3> QED BY <2>1, VersionsKept DEF o, row
  <2> QED
    BY <2>2, <2>3 DEF IsVersion
<1> QED
  BY <1>1, <1>2 DEF KnownVersions

-----------------------------------------------------------------------------
(* What the calls know.                                                    *)

\* The clock never goes back.
LEMMA ClockAdvances ==
    ASSUME Inv, [Next]_vars
    PROVE  clock' \in Nat /\ clock' >= clock
<1>1. clock \in Nat
  BY DEF Inv, TypeOK
<1>2. clock' = clock \/ clock' = clock + 1
  <2>1. ASSUME NEW c \in Calls, Check(c) \/ Stamp(c)
        PROVE  clock' = clock
    BY <2>1 DEF Check, CheckAccept, CheckIssue, CheckReturn, CheckCourier, Stamp,
                Reject, Prepare
  <2>2. ASSUME NEW c \in Calls,
               \/ \E r \in Requests : Start(c, r)
               \/ Lookup(c) \/ Query(c) \/ QueryFails(c) \/ Fill(c)
               \/ Write(c) \/ SaveHistory(c) \/ SaveEvent(c)
               \/ Commit(c) \/ CommitReplyLost(c) \/ Fail(c)
        PROVE  clock' = clock
    BY <2>2 DEF Start, Lookup, Query, QueryFails, Fill, Write, Reject, SaveHistory,
                SaveEvent, Commit, CommitReplyLost, Publish, Fail
  <2> QED
    BY <2>1, <2>2 DEF Next, Step, Evict, Tick, Crash, Finished, vars
<1> QED
  BY <1>1, <1>2

\* A call that has decided keeps its grounds while others work: the lock
\* keeps the row absent for an accept in its transaction, and histories only
\* grow.
LEMMA DecidedKept ==
    ASSUME Inv, [Next]_vars, NEW d \in Calls, Decided(d),
           pc[d] \in {"stamp", "write"} \cup InTx,
           pc'[d] = pc[d], req'[d] = req[d], order'[d] = order[d]
    PROVE  Decided(d)'
<1> DEFINE o == Oid(d)
<1>1. req[d] \in Requests /\ o \in Orders /\ order[d] \in Rows
  BY RequestFields DEF Inv, CallsOK, CallOK, Oid, Decided, InTx
<1>2. Oid(d)' = o
  BY DEF Oid
<1>3. CASE req[d].op = "accept"
  <2>1. AcceptDecided(d)
    BY <1>3 DEF Decided
  <2>2. ASSUME pc[d] \in InTx
        PROVE  orders'[o] = None
    <3>1. lock[o] = d /\ orders[o] = None
      BY <1>1, <2>1, <2>2 DEF Inv, LockedInsideTransaction, AcceptDecided, InTx
    <3>2. ASSUME NEW c \in Calls, Commits(c)
          PROVE  Oid(c) # o
      <4>1. pc[c] = "commit" /\ pc'[c] = "done"
        BY <3>2 DEF Commits, Finish, Inv, TypeOK
      <4>2. c # d
        BY <4>1
      <4>3. Oid(c) \in Orders => lock[Oid(c)] = c
        BY <4>1 DEF Inv, LockedInsideTransaction
      <4> QED
        BY <1>1, <3>1, <4>2, <4>3
    <3>3. CASE UNCHANGED tables
      BY <3>1, <3>3 DEF tables
    <3>4. ASSUME NEW c \in Calls, Commits(c)
          PROVE  orders'[o] = None
      <4>1. orders' = [orders EXCEPT ![Oid(c)] = order[c]] /\ Oid(c) # o
        BY <3>2, <3>4, CommitEffect
      <4>2. orders \in [Orders -> Rows \cup {None}]
        BY DEF Inv, TypeOK
      <4> QED
        BY <1>1, <3>1, <4>1, <4>2
    <3> QED
      BY <3>3, <3>4, OnlyCommitsChangeTables
  <2>3. AcceptDecided(d)'
    BY <1>2, <2>1, <2>2 DEF AcceptDecided
  <2> QED
    BY <1>1, <1>3, <2>3 DEF Decided
<1>4. CASE req[d].op # "accept"
  <2>1. MoveDecided(d)
    BY <1>4 DEF Decided
  <2>2. /\ orders[o] # None
        /\ order[d].receiver = orders[o].receiver
        /\ order[d].until = orders[o].until
        /\ req[d].op # "courier" => req[d].receiver = order[d].receiver
        /\ order[d].status # InStorage
    BY <2>1 DEF MoveDecided
  <2>3. /\ orders'[o] # None
        /\ orders'[o].receiver = orders[o].receiver
        /\ orders'[o].until = orders[o].until
        /\ \A i \in 1..Len(history[o]) :
              i \in 1..Len(history'[o]) /\ history'[o][i] = history[o][i]
    BY <1>1, <2>2, HistoryGrows
  <2>4. CASE pc[d] = "stamp"
    <3>1. GroundsToHandOver(d)
      BY <2>1, <2>4 DEF MoveDecided
    <3>2. clock' >= clock /\ clock \in Nat /\ clock' \in Nat
      BY ClockAdvances DEF Inv, TypeOK
    <3>3. clock' >= order[d].until
      BY <1>1, <3>1, <3>2, ServiceAssumption DEF GroundsToHandOver, Rows
    <3>4. GroundsToHandOver(d)'
      BY <1>2, <2>3, <3>1, <3>3 DEF GroundsToHandOver
    <3> QED
      BY <1>1, <1>2, <1>4, <2>2, <2>3, <2>4, <3>4 DEF Decided, MoveDecided
  <2>5. CASE pc[d] # "stamp"
    <3>1. GroundsToMove(d)
      BY <2>1, <2>5 DEF MoveDecided
    <3>2. GroundsToMove(d)'
      BY <1>2, <2>3, <3>1 DEF GroundsToMove, Warranted, Ledger!Lawful, Ledger!Revival
    <3> QED
      BY <1>1, <1>2, <1>4, <2>2, <2>3, <2>5, <3>2 DEF Decided, MoveDecided
  <2> QED
    BY <2>4, <2>5
<1> QED
  BY <1>3, <1>4

\* A call that a step leaves alone stays as it is.
LEMMA Bystander ==
    ASSUME Inv, [Next]_vars, NEW d \in Calls,
           pc'[d] = pc[d], req'[d] = req[d], order'[d] = order[d], tx'[d] = tx[d]
    PROVE  CallOK(d)'
<1>1. CallOK(d)
  BY DEF Inv, CallsOK
<1>2. Pending(d)' = Pending(d)
  BY DEF Pending, Addressee
<1>3. pc[d] \in {"stamp", "write"} \cup InTx => Decided(d)'
  BY <1>1, DecidedKept DEF CallOK
<1> QED
  BY <1>1, <1>2, <1>3 DEF CallOK

\* A call that has returned holds nothing.
LEMMA FinishOK ==
    ASSUME Inv, NEW c \in Calls, NEW r, Finish(c, r)
    PROVE  /\ CallOK(c)'
           /\ \A d \in Calls \ {c} :
                 pc'[d] = pc[d] /\ req'[d] = req[d] /\ order'[d] = order[d] /\ tx'[d] = tx[d]
<1>1. pc'[c] = "done" /\ order'[c] = None /\ tx'[c] = NoTx
  BY DEF Finish, Inv, TypeOK
<1>2. CallOK(c)'
  BY <1>1 DEF CallOK, Pending, InTx, NoTx
<1> QED
  BY <1>2 DEF Finish, Inv, TypeOK

\* Only one call moves.
LEMMA OneMoves ==
    ASSUME Inv, [Next]_vars, NEW c \in Calls, CallOK(c)',
           \A d \in Calls \ {c} :
              pc'[d] = pc[d] /\ req'[d] = req[d] /\ order'[d] = order[d] /\ tx'[d] = tx[d]
    PROVE  CallsOK'
BY Bystander DEF CallsOK

\* A call that prepares a row it may write has decided.
LEMMA PrepareOK ==
    ASSUME Inv, [Next]_vars, NEW c \in Calls, pc[c] \in {"check", "stamp"},
           NEW row \in Rows, NEW l \in {"stamp", "write"}, Prepare(c, row, l),
           Decided(c)'
    PROVE  CallsOK'
<1>1. /\ pc'[c] = l /\ req'[c] = req[c] /\ order'[c] = row /\ tx'[c] = tx[c]
      /\ \A d \in Calls \ {c} :
            pc'[d] = pc[d] /\ req'[d] = req[d] /\ order'[d] = order[d] /\ tx'[d] = tx[d]
  BY DEF Prepare, Goto, Inv, TypeOK
<1>2. CallOK(c)
  BY DEF Inv, CallsOK
<1>3. Pending(c)' = NoTx /\ tx[c] = NoTx
  BY <1>1, <1>2 DEF CallOK, Pending, NoTx, InTx
<1>4. CallOK(c)'
  BY <1>1, <1>2, <1>3, ServiceAssumption DEF CallOK, Rows, InTx
<1> QED
  BY <1>1, <1>4, OneMoves

\* The steps up to the decision.
LEMMA ReadingStep ==
    ASSUME Inv, [Next]_vars, NEW c \in Calls,
           \/ \E r \in Requests : Start(c, r)
           \/ Lookup(c) \/ Query(c) \/ QueryFails(c) \/ Fill(c)
    PROVE  CallsOK'
<1> USE DEF InTx
<1>1. CallOK(c)
  BY DEF Inv, CallsOK
<1>2. ASSUME NEW l \in {"lookup", "query", "fill", "check"},
             pc[c] \in {"ready", "lookup", "query", "fill"},
             pc'[c] = l, tx'[c] = tx[c], req'[c] \in Requests,
             l \in {"lookup", "query"} => order'[c] = None,
             l = "fill" => order'[c] # None
      PROVE  CallOK(c)'
  <2>1. Pending(c)' = NoTx /\ tx[c] = NoTx
    BY <1>1, <1>2 DEF CallOK, Pending, NoTx
  <2> QED
    BY <1>2, <2>1 DEF CallOK
<1>3. CASE QueryFails(c) /\ Finish(c, "error")
  BY <1>3, FinishOK, OneMoves
<1>4. CASE ~(QueryFails(c) /\ Finish(c, "error"))
  <2>1. \A d \in Calls \ {c} :
           pc'[d] = pc[d] /\ req'[d] = req[d] /\ order'[d] = order[d] /\ tx'[d] = tx[d]
    BY <1>4 DEF Start, Lookup, Query, QueryFails, Fill, Goto, Inv, TypeOK
  <2>2. ASSUME NEW r \in Requests, Start(c, r)
        PROVE  CallOK(c)'
    <3>1. /\ pc[c] = "ready" /\ pc'[c] \in {"lookup", "query"} /\ req'[c] = r
          /\ tx'[c] = tx[c] /\ order'[c] = order[c] /\ order[c] = None
      BY <1>1, <2>2 DEF Start, CallOK, Inv, TypeOK
    <3> QED
      BY <1>2, <3>1
  <2>3. ASSUME Lookup(c) PROVE CallOK(c)'
    <3>1. /\ pc[c] = "lookup" /\ req'[c] = req[c] /\ req[c] \in Requests /\ tx'[c] = tx[c]
          /\ order'[c] = cache[Oid(c)]
          /\ pc'[c] = IF cache[Oid(c)] = None THEN "query" ELSE "check"
      BY <1>1, <2>3 DEF Lookup, Goto, CallOK, Inv, TypeOK
    <3> QED
      BY <1>2, <3>1
  <2>4. ASSUME Query(c) PROVE CallOK(c)'
    <3>1. /\ pc[c] = "query" /\ req'[c] = req[c] /\ req[c] \in Requests /\ tx'[c] = tx[c]
          /\ order'[c] = orders[Oid(c)]
          /\ pc'[c] = IF CacheEnabled /\ orders[Oid(c)] # None THEN "fill" ELSE "check"
      BY <1>1, <2>4 DEF Query, Goto, CallOK, Inv, TypeOK
    <3> QED
      BY <1>2, <3>1
  <2>5. ASSUME QueryFails(c) PROVE CallOK(c)'
    <3>1. /\ pc[c] = "query" /\ req'[c] = req[c] /\ req[c] \in Requests /\ tx'[c] = tx[c]
          /\ pc'[c] = "check"
      BY <1>1, <1>4, <2>5 DEF QueryFails, Goto, CallOK, Inv, TypeOK
    <3> QED
      BY <1>2, <3>1
  <2>6. ASSUME Fill(c) PROVE CallOK(c)'
    <3>1. /\ pc[c] = "fill" /\ req'[c] = req[c] /\ req[c] \in Requests /\ tx'[c] = tx[c]
          /\ pc'[c] = "check"
      BY <1>1, <2>6 DEF Fill, Goto, CallOK, Inv, TypeOK
    <3> QED
      BY <1>2, <3>1
  <2>7. CallOK(c)'
    BY <2>2, <2>3, <2>4, <2>5, <2>6
  <2> QED
    BY <2>1, <2>7, OneMoves
<1> QED
  BY <1>3, <1>4

\* The grounds the checks establish are those of the ledger.
LEMMA WarrantedGrounds ==
    ASSUME NEW e, NEW s, NEW at, NEW until,
           \/ /\ s = GivenToClient
              /\ e.status \in {InStorage} \cup CourierStatuses
              /\ at <= until
           \/ /\ s = ReturnedFromClient
              /\ e.status \in {GivenToClient} \cup CourierStatuses
              /\ at <= e.at + ReturnWindow
           \/ /\ s = ReturnedWithoutClient
              /\ e.status = InStorage
              /\ at >= until
           \/ /\ s = GivenToCourier
              /\ e.status = ReturnedFromClient
              /\ at >= until
    PROVE  Warranted(e, s, at, until)
BY DEF Warranted, Ledger!Lawful, Ledger!Revival, InStorage, GivenToClient, ReturnedFromClient,
       ReturnedWithoutClient, GivenToCourier, CourierStatuses,
       Ledger!InStorage, Ledger!GivenToClient, Ledger!ReturnedFromClient,
       Ledger!ReturnedWithoutClient, Ledger!GivenToCourier, Ledger!CourierStatuses

\* The decision of a call rests on the version it has read.
LEMMA DecisionStep ==
    ASSUME Inv, [Next]_vars, NEW c \in Calls, Check(c) \/ Stamp(c)
    PROVE  CallsOK'
<1> DEFINE o == Oid(c)
<1>1. /\ req[c] \in Requests /\ o \in Orders /\ order[c] \in Rows \cup {None}
      /\ pc[c] \in {"check", "stamp"}
  BY RequestFields DEF Check, CheckAccept, CheckIssue, CheckReturn, CheckCourier, Stamp,
                       Inv, CallsOK, CallOK, Oid, TypeOK
<1>2. /\ clock \in 0..MaxTime /\ now[c] \in 0..MaxTime
      /\ clock \in Nat /\ now[c] \in Nat
  BY ServiceAssumption DEF Inv, TypeOK
<1>3. ASSUME Reject(c) PROVE CallsOK'
  BY <1>3, FinishOK, OneMoves DEF Reject
<1>4. ASSUME NEW row \in Rows, NEW l \in {"stamp", "write"}, Prepare(c, row, l)
      PROVE  /\ orders' = orders /\ history' = history /\ clock' = clock
             /\ pc'[c] = l /\ req'[c] = req[c] /\ order'[c] = row /\ Oid(c)' = o
  BY <1>4 DEF Prepare, Goto, Oid, tables, Inv, TypeOK
<1>5. ASSUME pc[c] = "check", order[c] # None
      PROVE  /\ orders[o] # None
             /\ order[c].receiver = orders[o].receiver
             /\ order[c].until = orders[o].until
             /\ \E i \in 1..Len(history[o]) :
                   /\ history[o][i].status = order[c].status
                   /\ history[o][i].at = order[c].updated
  <2>1. IsVersion(o, order[c])
    BY <1>1, <1>5 DEF Inv, KnownVersions
  <2> QED
    BY <2>1 DEF IsVersion
<1>6. CASE CheckAccept(c)
  <2> DEFINE row == [receiver |-> req[c].receiver, until |-> req[c].until,
                     status |-> InStorage, updated |-> now[c]]
  <2>1. row \in Rows
    BY <1>1, <1>2, <1>6, RequestFields DEF CheckAccept, Rows, Statuses
  <2>2. ASSUME Prepare(c, row, "write") PROVE CallsOK'
    <3>1. pc'[c] = "write" /\ req'[c] = req[c] /\ order'[c] = row
      BY <1>4, <2>1, <2>2
    <3>2. Decided(c)'
      BY <1>2, <1>6, <2>1, <3>1 DEF CheckAccept, Decided, AcceptDecided, InTx
    <3> QED
      BY <1>1, <2>1, <2>2, <3>2, PrepareOK
  <2> QED
    BY <1>3, <1>6, <2>2 DEF CheckAccept
<1>7. CASE CheckIssue(c)
  <2> DEFINE row == [order[c] EXCEPT !.status = GivenToClient, !.updated = now[c]]
  <2>1. ASSUME MayIssue(c), Prepare(c, row, "write") PROVE CallsOK'
    <3>1. /\ order[c] \in Rows /\ order[c] # None /\ pc[c] = "check" /\ req[c].op = "issue"
          /\ order[c].receiver = req[c].receiver
          /\ order[c].status \in {InStorage} \cup CourierStatuses
          /\ now[c] <= order[c].until
      BY <1>1, <1>7, <2>1 DEF MayIssue, CheckIssue, Rows, Statuses, CourierStatuses
    <3>2. /\ row \in Rows /\ row.receiver = order[c].receiver /\ row.until = order[c].until
          /\ row.status = GivenToClient /\ row.updated = now[c]
      BY <1>2, <3>1 DEF Rows, Statuses
    <3> HIDE DEF row
    <3>3. /\ orders' = orders /\ history' = history
          /\ pc'[c] = "write" /\ req'[c] = req[c] /\ order'[c] = row /\ Oid(c)' = o
      BY <1>4, <2>1, <3>2
    <3>4. GroundsToMove(c)'
      BY <1>2, <1>5, <3>1, <3>2, <3>3, WarrantedGrounds DEF GroundsToMove
    <3>5. Decided(c)'
      BY <1>5, <3>1, <3>2, <3>3, <3>4
         DEF Decided, MoveDecided, InStorage, GivenToClient
    <3> QED
      BY <1>1, <2>1, <3>2, <3>5, PrepareOK
  <2> QED
    BY <1>3, <1>7, <2>1 DEF CheckIssue
<1>8. CASE CheckReturn(c)
  <2> DEFINE row == [order[c] EXCEPT !.status = ReturnedFromClient, !.updated = now[c]]
  <2>1. ASSUME MayReturn(c), Prepare(c, row, "write") PROVE CallsOK'
    <3>1. /\ order[c] \in Rows /\ order[c] # None /\ pc[c] = "check" /\ req[c].op = "return"
          /\ order[c].receiver = req[c].receiver
          /\ order[c].status \in {GivenToClient} \cup CourierStatuses
          /\ now[c] <= order[c].updated + ReturnWindow
      BY <1>1, <1>8, <2>1 DEF MayReturn, CheckReturn, Rows, Statuses, CourierStatuses
    <3>2. /\ row \in Rows /\ row.receiver = order[c].receiver /\ row.until = order[c].until
          /\ row.status = ReturnedFromClient /\ row.updated = now[c]
      BY <1>2, <3>1 DEF Rows, Statuses
    <3> HIDE DEF row
    <3>3. /\ orders' = orders /\ history' = history
          /\ pc'[c] = "write" /\ req'[c] = req[c] /\ order'[c] = row /\ Oid(c)' = o
      BY <1>4, <2>1, <3>2
    <3>4. GroundsToMove(c)'
      BY <1>2, <1>5, <3>1, <3>2, <3>3, WarrantedGrounds DEF GroundsToMove
    <3>5. Decided(c)'
      BY <1>5, <3>1, <3>2, <3>3, <3>4
         DEF Decided, MoveDecided, InStorage, ReturnedFromClient
    <3> QED
      BY <1>1, <2>1, <3>2, <3>5, PrepareOK
  <2> QED
    BY <1>3, <1>8, <2>1 DEF CheckReturn
<1>9. CASE CheckCourier(c)
  <2> DEFINE row == [order[c] EXCEPT !.status = HandedOver(@)]
  <2>1. ASSUME MayHandOver(c), Prepare(c, row, "stamp") PROVE CallsOK'
    <3>1. /\ order[c] \in Rows /\ order[c] # None /\ pc[c] = "check" /\ req[c].op = "courier"
          /\ order[c].status \in {InStorage, ReturnedFromClient}
          /\ clock >= order[c].until
      BY <1>1, <1>9, <2>1 DEF MayHandOver, CheckCourier
    <3>2. /\ row \in Rows /\ row.receiver = order[c].receiver /\ row.until = order[c].until
          /\ order[c].status = InStorage => row.status = ReturnedWithoutClient
          /\ order[c].status = ReturnedFromClient => row.status = GivenToCourier
          /\ row.status # InStorage
      BY <3>1 DEF Rows, Statuses, HandedOver, InStorage, ReturnedFromClient,
                  ReturnedWithoutClient, GivenToCourier
    <3> HIDE DEF row
    <3>3. /\ orders' = orders /\ history' = history /\ clock' = clock
          /\ pc'[c] = "stamp" /\ req'[c] = req[c] /\ order'[c] = row /\ Oid(c)' = o
      BY <1>4, <2>1, <3>2
    <3>4. GroundsToHandOver(c)'
      BY <1>5, <3>1, <3>2, <3>3 DEF GroundsToHandOver
    <3>5. Decided(c)'
      BY <1>5, <3>1, <3>2, <3>3, <3>4 DEF Decided, MoveDecided
    <3> QED
      BY <1>1, <2>1, <3>2, <3>5, PrepareOK
  <2> QED
    BY <1>3, <1>9, <2>1 DEF CheckCourier
<1>10. CASE Stamp(c)
  <2> DEFINE row == [order[c] EXCEPT !.updated = clock]
  <2>1. pc[c] = "stamp" /\ Prepare(c, row, "write")
    BY <1>10 DEF Stamp
  <2>2. Decided(c)
    BY <2>1 DEF Inv, CallsOK, CallOK
  <2>3. /\ order[c] \in Rows /\ req[c].op = "courier"
        /\ MoveDecided(c) /\ GroundsToHandOver(c)
    BY <2>1, <2>2 DEF Decided, AcceptDecided, MoveDecided, GroundsToHandOver
  <2>4. /\ row \in Rows /\ row.receiver = order[c].receiver /\ row.until = order[c].until
        /\ row.status = order[c].status /\ row.updated = clock
    BY <1>2, <2>3 DEF Rows
  <2> HIDE DEF row
  <2>5. /\ orders' = orders /\ history' = history
        /\ pc'[c] = "write" /\ req'[c] = req[c] /\ order'[c] = row /\ Oid(c)' = o
    BY <1>4, <2>1, <2>4
  <2>6. GroundsToMove(c)'
    BY <1>2, <2>3, <2>4, <2>5, WarrantedGrounds DEF GroundsToHandOver, GroundsToMove
  <2>7. Decided(c)'
    BY <2>3, <2>4, <2>5, <2>6 DEF Decided, MoveDecided
  <2> QED
    BY <1>1, <2>1, <2>4, <2>7, PrepareOK
<1> QED
  BY <1>6, <1>7, <1>8, <1>9, <1>10 DEF Check

\* The steps of a transaction.
LEMMA TransactionStep ==
    ASSUME Inv, [Next]_vars, NEW c \in Calls,
           \/ Write(c) \/ SaveHistory(c) \/ SaveEvent(c)
           \/ Commit(c) \/ CommitReplyLost(c) \/ Fail(c)
    PROVE  CallsOK'
<1>1. CallOK(c) /\ pc[c] \in {"write"} \cup InTx
  BY DEF Inv, CallsOK, Write, SaveHistory, SaveEvent, Commit, CommitReplyLost, Fail, InTx
<1>2. /\ req[c] \in Requests /\ Oid(c) \in Orders /\ Decided(c) /\ order[c] \in Rows
      /\ tx[c] = Pending(c)
  BY <1>1, RequestFields DEF CallOK, Oid, Decided, InTx
<1>3. ASSUME Reject(c) \/ Commit(c) \/ CommitReplyLost(c) \/ Fail(c)
      PROVE  CallsOK'
  BY <1>3, FinishOK, OneMoves DEF Reject, Commit, CommitReplyLost, Fail
<1>4. ASSUME NEW l \in InTx, Goto(c, l), UNCHANGED <<clock, tables, order>>,
             tx'[c] = Pending(c)', \A d \in Calls \ {c} : tx'[d] = tx[d],
             pc[c] = "write" /\ req[c].op = "accept" => orders[Oid(c)] = None
      PROVE  CallsOK'
  <2>1. /\ pc'[c] = l /\ req' = req /\ order' = order /\ orders' = orders
        /\ history' = history /\ clock' = clock
        /\ \A d \in Calls \ {c} : pc'[d] = pc[d]
    BY <1>4 DEF Goto, tables, Inv, TypeOK
  <2>2. Decided(c)'
    <3>1. CASE req[c].op = "accept"
      <4>1. orders[Oid(c)] = None /\ AcceptDecided(c)
        BY <1>1, <1>2, <1>4, <3>1 DEF Decided, AcceptDecided
      <4>2. AcceptDecided(c)'
        BY <2>1, <4>1 DEF AcceptDecided, Oid, InTx
      <4> QED
        BY <1>2, <2>1, <3>1, <4>2 DEF Decided
    <3>2. CASE req[c].op # "accept"
      <4>1. MoveDecided(c) /\ GroundsToMove(c)
        BY <1>1, <1>2, <3>2 DEF Decided, MoveDecided, InTx
      <4>2. GroundsToMove(c)'
        BY <2>1, <4>1 DEF GroundsToMove, Oid, Warranted, Ledger!Lawful, Ledger!Revival
      <4>3. MoveDecided(c)'
        BY <2>1, <4>1, <4>2 DEF MoveDecided, Oid, InTx
      <4> QED
        BY <1>2, <2>1, <3>2, <4>3 DEF Decided
    <3> QED
      BY <3>1, <3>2
  <2>3. CallOK(c)'
    BY <1>2, <1>4, <2>1, <2>2 DEF CallOK, InTx
  <2> QED
    BY <1>4, <2>1, <2>3, OneMoves
<1>5. tx \in [Calls -> [row : Rows \cup {None}, entry : Entries \cup {None},
                        event : Events \cup {None}]]
  BY DEF Inv, TypeOK
<1>6. CASE Write(c) /\ ~Reject(c)
  <2>1. /\ pc[c] = "write" /\ Goto(c, "history") /\ UNCHANGED <<clock, tables, order>>
        /\ tx' = [tx EXCEPT ![c].row = order[c]]
        /\ req[c].op = "accept" => orders[Oid(c)] = None
    BY <1>6 DEF Write
  <2>2. tx[c] = [row |-> None, entry |-> None, event |-> None]
    BY <1>2, <2>1 DEF Pending, InTx
  <2>3. tx'[c] = [row |-> order[c], entry |-> None, event |-> None]
    BY <1>5, <2>1, <2>2
  <2>4. pc'[c] = "history" /\ order'[c] = order[c]
    BY <2>1 DEF Goto, Inv, TypeOK
  <2>5. Pending(c)' = [row |-> order[c], entry |-> None, event |-> None]
    BY <2>4 DEF Pending, InTx
  <2> QED
    BY <1>4, <1>5, <2>1, <2>3, <2>5 DEF InTx
<1>7. CASE SaveHistory(c)
  <2> DEFINE entry == [status |-> order[c].status, at |-> order[c].updated]
  <2>1. /\ pc[c] = "history" /\ Goto(c, "event") /\ UNCHANGED <<clock, tables, order>>
        /\ tx' = [tx EXCEPT ![c].entry = entry]
    BY <1>7 DEF SaveHistory
  <2>2. tx[c] = [row |-> order[c], entry |-> None, event |-> None]
    BY <1>2, <2>1 DEF Pending, InTx
  <2>3. pc'[c] = "event" /\ order'[c] = order[c]
    BY <2>1 DEF Goto, Inv, TypeOK
  <2>4. Pending(c)' = [row |-> order[c], entry |-> entry, event |-> None]
    BY <2>3 DEF Pending, InTx
  <2> HIDE DEF entry
  <2>5. tx'[c] = [row |-> order[c], entry |-> entry, event |-> None]
    BY <1>5, <2>1, <2>2
  <2> QED
    BY <1>4, <1>5, <2>1, <2>4, <2>5 DEF InTx
<1>8. CASE SaveEvent(c)
  <2> DEFINE entry == [status |-> order[c].status, at |-> order[c].updated]
             event == [type |-> EventType(order[c].status), user |-> Addressee(c)]
  <2>1. /\ pc[c] = "event" /\ Goto(c, "commit") /\ UNCHANGED <<clock, tables, order>>
        /\ tx' = [tx EXCEPT ![c].event = event]
    BY <1>8 DEF SaveEvent
  <2>2. tx[c] = [row |-> order[c], entry |-> entry, event |-> None]
    BY <1>2, <2>1 DEF Pending, InTx
  <2>3. pc'[c] = "commit" /\ order'[c] = order[c] /\ Addressee(c)' = Addressee(c)
    BY <2>1 DEF Goto, Inv, TypeOK, Addressee
  <2>4. Pending(c)' = [row |-> order[c], entry |-> entry, event |-> event]
    BY <2>3 DEF Pending, InTx
  <2> HIDE DEF entry, event
  <2>5. tx'[c] = [row |-> order[c], entry |-> entry, event |-> event]
    BY <1>5, <2>1, <2>2
  <2> QED
    BY <1>4, <1>5, <2>1, <2>4, <2>5 DEF InTx
<1> QED
  BY <1>3, <1>6, <1>7, <1>8

\* Every step keeps what is known of the calls.
LEMMA CallsStep ==
    ASSUME Inv, [Next]_vars
    PROVE  CallsOK'
<1>1. ASSUME pc' = pc, req' = req, order' = order, tx' = tx
      PROVE  CallsOK'
  BY <1>1, Bystander DEF CallsOK
<1>2. CASE UNCHANGED vars
  BY <1>1, <1>2 DEF vars
<1>3. ASSUME NEW o \in Orders, Evict(o) PROVE CallsOK'
  BY <1>1, <1>3 DEF Evict
<1>4. CASE Tick
  BY <1>1, <1>4 DEF Tick
<1>5. CASE Crash
  <2>1. ASSUME NEW d \in Calls PROVE CallOK(d)'
    <3>1. pc'[d] \in {"ready", "done"} /\ order'[d] = None /\ tx'[d] = NoTx
      BY <1>5 DEF Crash, InFlight
    <3> QED
      BY <3>1 DEF CallOK, Pending, InTx, NoTx
  <2> QED
    BY <2>1 DEF CallsOK
<1> QED
  BY <1>2, <1>3, <1>4, <1>5, ReadingStep, DecisionStep, TransactionStep
     DEF Next, Step, Finished

-----------------------------------------------------------------------------
(* The theorems.                                                           *)

\* The initial state satisfies the invariant.
LEMMA InitInv == Init => Inv
<1> SUFFICES ASSUME Init PROVE Inv
  OBVIOUS
<1>1. TypeOK
  BY ServiceAssumption DEF Init, TypeOK, Labels, NoTx
<1>2. LockedInsideTransaction
  BY ServiceAssumption DEF Init, LockedInsideTransaction
<1>3. TablesOK
  BY DEF Init, TablesOK, RowMatchesHistory, OneEventPerChange, EventsNameTheReceiver,
         AcceptedOnce
<1>4. KnownVersions
  BY DEF Init, KnownVersions
<1>5. CallsOK
  BY DEF Init, CallsOK, CallOK, Pending, InTx, NoTx
<1> QED
  BY <1>1, <1>2, <1>3, <1>4, <1>5 DEF Inv

\* The conjuncts of Inv hold in every state of every behaviour.
THEOREM Invariance == Spec => []Inv
<1>1. Inv /\ [Next]_vars => Inv'
  BY TypeStep, LockStep, TablesStep, VersionsStep, CallsStep DEF Inv
<1> QED
  BY <1>1, InitInv, PTL DEF Spec

\* Every variable keeps its type, whatever fails, crashes or overlaps.
THEOREM TypeCorrect == Spec => []TypeOK
<1>1. Inv => TypeOK
  BY DEF Inv
<1> QED
  BY <1>1, Invariance, PTL

\* The row of an order agrees with its history: the last line is the row's.
THEOREM RowsMatch == Spec => []RowMatchesHistory
<1>1. Inv => RowMatchesHistory
  BY DEF Inv, TablesOK
<1> QED
  BY <1>1, Invariance, PTL

\* History and outbox agree: every line has one event, of its type.
THEOREM EventsMatch == Spec => []OneEventPerChange
<1>1. Inv => OneEventPerChange
  BY DEF Inv, TablesOK
<1> QED
  BY <1>1, Invariance, PTL

\* Events are addressed to the receiver the order was accepted for.
THEOREM EventsAddressed == Spec => []EventsNameTheReceiver
<1>1. Inv => EventsNameTheReceiver
  BY DEF Inv, TablesOK
<1> QED
  BY <1>1, Invariance, PTL

\* An order is accepted once, however many accepts race and whatever reads
\* fail.
THEOREM AcceptedAtMostOnce == Spec => []AcceptedOnce
<1>1. Inv => AcceptedOnce
  BY DEF Inv, TablesOK
<1> QED
  BY <1>1, Invariance, PTL

\* The cache and the calls' copies are committed versions.
THEOREM OnlyCommittedIsKnown == Spec => []KnownVersions
<1>1. Inv => KnownVersions
  BY DEF Inv
<1> QED
  BY <1>1, Invariance, PTL

\* A row lock is held exactly inside a transaction.
THEOREM LocksAreReleased == Spec => []LockedInsideTransaction
<1>1. Inv => LockedInsideTransaction
  BY DEF Inv
<1> QED
  BY <1>1, Invariance, PTL

-----------------------------------------------------------------------------
(* The service implements the ledger.                                      *)

\* The terms of an order, as the ledger sees them.
TermsOf(row) ==
    IF row = None THEN None ELSE [receiver |-> row.receiver, until |-> row.until]

\* The ledger and the service name events alike.
LEMMA SameEventType ==
    ASSUME NEW s \in Statuses
    PROVE  Ledger!EventType(s) = EventType(s)
BY DEF Statuses, EventType, InStorage, GivenToClient, ReturnedFromClient,
       ReturnedWithoutClient, GivenToCourier, CourierStatuses,
       Ledger!EventType, Ledger!InStorage, Ledger!GivenToClient,
       Ledger!ReturnedFromClient, Ledger!ReturnedWithoutClient,
       Ledger!GivenToCourier, Ledger!CourierStatuses

\* What a commit does, in the ledger's terms.
LEMMA CommitRecords ==
    ASSUME Inv, NEW c \in Calls, Commits(c)
    PROVE  LET o == Oid(c)
               s == order[c].status
               at == order[c].updated IN
           /\ o \in Orders /\ s \in Ledger!Statuses /\ at \in 0..MaxTime
           /\ orders' = [orders EXCEPT ![o] = order[c]] /\ order[c] \in Rows
           /\ history' = [history EXCEPT ![o] = Append(@, [status |-> s, at |-> at])]
           /\ outbox' = [outbox EXCEPT ![o] =
                Append(@, [type |-> Ledger!EventType(s), user |-> order[c].receiver])]
           /\ order[c].until \in Deadlines /\ order[c].receiver \in Receivers
           /\ orders[o] = None => s = Ledger!InStorage
           /\ orders[o] # None =>
                /\ order[c].receiver = orders[o].receiver
                /\ order[c].until = orders[o].until
                /\ \E i \in 1..Len(history[o]) :
                      Warranted(history[o][i], s, at, orders[o].until)
<1>1. /\ Decided(c) /\ order[c] \in Rows /\ pc[c] = "commit"
      /\ req[c] \in Requests /\ Oid(c) \in Orders
  BY CommitEffect DEF Decided, Commits
<1>2. order[c].status \in Ledger!Statuses
  BY <1>1 DEF Rows, Statuses, InStorage, GivenToClient, ReturnedFromClient,
              ReturnedWithoutClient, GivenToCourier,
              Ledger!Statuses, Ledger!InStorage, Ledger!GivenToClient,
              Ledger!ReturnedFromClient, Ledger!ReturnedWithoutClient,
              Ledger!GivenToCourier
<1>3. /\ order[c].updated \in 0..MaxTime
      /\ orders[Oid(c)] # None =>
           \E i \in 1..Len(history[Oid(c)]) :
              Warranted(history[Oid(c)][i], order[c].status,
                            order[c].updated, orders[Oid(c)].until)
  BY <1>1 DEF Decided, AcceptDecided, MoveDecided, GroundsToMove, InTx
<1>4. /\ EventType(order[c].status) = Ledger!EventType(order[c].status)
      /\ Addressee(c) = order[c].receiver
  BY <1>1, SameEventType, CommitOnExisting DEF Rows
<1>5. orders[Oid(c)] = None => order[c].status = Ledger!InStorage
  BY CommitOnExisting DEF InStorage, Ledger!InStorage
<1>6. order[c].until \in Deadlines /\ order[c].receiver \in Receivers
  BY <1>1 DEF Rows
<1> QED
  BY <1>1, <1>2, <1>3, <1>4, <1>5, <1>6, CommitEffect, CommitOnExisting

\* Every step of the service is a step of the ledger or leaves it alone, when
\* the ledger lets a change rest on an earlier version.
LEMMA LedgerStep ==
    ASSUME MaxInFlight # 1, Inv, [Next]_vars
    PROVE  [Ledger!Next]_Ledger!vars
<1> DEFINE terms == [o \in Orders |-> TermsOf(orders[o])]
<1>1. CASE UNCHANGED tables
  BY <1>1 DEF tables, Ledger!vars
<1>2. ASSUME NEW c \in Calls, Commits(c), NEW o, NEW s, NEW at, NEW t,
             o = Oid(c), s = order[c].status, at = order[c].updated,
             t = [receiver |-> order[c].receiver, until |-> order[c].until]
      PROVE  Ledger!Next
  <2>1. /\ o \in Orders /\ s \in Ledger!Statuses /\ at \in 0..MaxTime
        /\ orders' = [orders EXCEPT ![o] = order[c]] /\ order[c] \in Rows
        /\ history' = [history EXCEPT ![o] = Append(@, [status |-> s, at |-> at])]
        /\ outbox' = [outbox EXCEPT ![o] =
             Append(@, [type |-> Ledger!EventType(s), user |-> order[c].receiver])]
        /\ order[c].until \in Deadlines /\ order[c].receiver \in Receivers
    BY <1>2, CommitRecords
  <2>2. /\ orders[o] = None => s = Ledger!InStorage
        /\ orders[o] # None =>
             /\ order[c].receiver = orders[o].receiver
             /\ order[c].until = orders[o].until
             /\ \E i \in 1..Len(history[o]) :
                   Warranted(history[o][i], s, at, orders[o].until)
    BY <1>2, CommitRecords
  <2>3. orders \in [Orders -> Rows \cup {None}] /\ order[c] # None
    BY <2>1, ServiceAssumption DEF Inv, TypeOK, Rows
  <2>4. t \in Ledger!Terms
    BY <1>2, <2>1 DEF Ledger!Terms
  <2>5. t # None
    BY <1>2, <2>1, ServiceAssumption
  <2>6. terms' = [terms EXCEPT ![o] = t]
    BY <1>2, <2>1, <2>3 DEF TermsOf
  <2>7. terms'[o].receiver = order[c].receiver
    BY <1>2, <2>1, <2>6
  <2>8. Ledger!Record(o, s, at)
    BY <2>1, <2>3, <2>7 DEF Ledger!Record, TermsOf
  <2>9. CASE orders[o] = None
    <3>1. Ledger!Accept(o, t, at)
      BY <2>1, <2>2, <2>6, <2>8, <2>9 DEF Ledger!Accept, TermsOf
    <3> QED
      BY <2>1, <2>4, <3>1 DEF Ledger!Next
  <2>10. CASE orders[o] # None
    <3>1. terms' = terms
      BY <1>2, <2>1, <2>2, <2>3, <2>6, <2>10 DEF TermsOf
    <3>2. t.until = orders[o].until /\ terms[o] = t
      BY <1>2, <2>1, <2>2, <2>3, <2>10 DEF TermsOf
    <3>3. \E i \in Ledger!Grounds(o) :
             Warranted(history[o][i], s, at, terms[o].until)
      <4>1. Ledger!Grounds(o) = 1..Len(history[o])
        BY DEF Ledger!Grounds
      <4>2. \E i \in 1..Len(history[o]) :
               Warranted(history[o][i], s, at, orders[o].until)
        BY <2>2, <2>10
      <4> QED
        BY <3>2, <4>1, <4>2
    <3>4. Ledger!InOrder(o, at)
      BY DEF Ledger!InOrder
    <3>5. Ledger!Change(o, s, at)
      BY <2>5, <2>8, <3>1, <3>2, <3>4 DEF Ledger!Change, TermsOf
    <3>6. Ledger!Move(o, s, at) \/ Ledger!Revive(o, s, at)
      BY <3>3, <3>5 DEF Warranted, Ledger!Move, Ledger!Revive, TermsOf
    <3> QED
      BY <2>1, <3>6 DEF Ledger!Next
  <2> QED
    BY <2>9, <2>10
<1>3. ASSUME NEW c \in Calls, Commits(c)
      PROVE  Ledger!Next
  BY <1>2, <1>3
<1> QED
  BY <1>1, <1>3, OnlyCommitsChangeTables

\* However many calls overlap, fail or crash, what is committed is a history
\* a ledger that is not Sequential allows: every change was lawful for a version
\* the order had, or a revival of an order that was with the courier.
THEOREM OverlapRefinement ==
    ASSUME MaxInFlight # 1
    PROVE  Spec => ImplementsLedger
<1>1. Init => Ledger!Init
  BY DEF Init, Ledger!Init
<1>2. Inv /\ [Next]_vars => [Ledger!Next]_Ledger!vars
  BY LedgerStep
<1> QED
  BY <1>1, <1>2, Invariance, PTL DEF Spec, ImplementsLedger, Ledger!Spec

-----------------------------------------------------------------------------
(* Calls one at a time.                                                    *)

\* What a call that is alone knows: nothing has changed since it began, so
\* that its copy is the row, and its decision rests on the last change.
AloneOK(c) ==
    LET row == orders[Oid(c)] IN
    /\ now[c] <= clock
    /\ row # None => row.updated <= now[c]
    /\ pc[c] \in {"fill", "check"} /\ order[c] # None => order[c] = row
    /\ pc[c] = "stamp" =>
         /\ row.status \in {InStorage, ReturnedFromClient}
         /\ order[c].status = HandedOver(row.status)
         /\ clock >= order[c].until
    /\ pc[c] \in {"write"} \cup InTx =>
         /\ order[c].updated \in now[c]..clock
         /\ req[c].op # "accept" =>
              Warranted([status |-> row.status, at |-> row.updated],
                            order[c].status, order[c].updated, order[c].until)
    /\ pc[c] \in InTx => cache[Oid(c)] = None

\* The cache is not behind the table, and no change lies in the future.
SerialOK ==
    /\ \A c, d \in InFlight : c = d
    /\ \A o \in Orders : orders[o] # None => orders[o].updated <= clock
    /\ \A o \in Orders : cache[o] # None => cache[o] = orders[o]
    /\ \A c \in InFlight : AloneOK(c)

\* A call that begins when none may overlap finds itself alone.
LEMMA NobodyElse ==
    ASSUME MaxInFlight = 1, SerialOK, Cardinality(InFlight) < MaxInFlight
    PROVE  InFlight = {}
<1> SUFFICES ASSUME NEW c \in InFlight PROVE FALSE
  OBVIOUS
<1>1. InFlight = {c}
  BY DEF SerialOK
<1>2. Cardinality({c}) = 1
  BY FS_Singleton
<1> QED
  BY <1>1, <1>2

\* A step of one call, alone, that changes no table.
LEMMA AloneStep ==
    ASSUME Inv, SerialOK, NEW c \in Calls, InFlight \subseteq {c},
           UNCHANGED <<clock, tables>>,
           \A d \in Calls \ {c} : pc'[d] = pc[d],
           \A o \in Orders : cache'[o] \in {None, cache[o], orders[o]},
           pc'[c] \notin {"ready", "done"} => AloneOK(c)'
    PROVE  SerialOK'
<1>1. InFlight' \subseteq {c}
  BY DEF InFlight
<1>2. \A d \in InFlight' : AloneOK(d)'
  BY <1>1 DEF InFlight
<1>3. orders' = orders
  BY DEF tables
<1> QED
  BY <1>1, <1>2, <1>3 DEF SerialOK

\* What a call in flight is and has.
LEMMA InFlightFacts ==
    ASSUME Inv, SerialOK, NEW c \in Calls, pc[c] \notin {"ready", "done"}
    PROVE  /\ InFlight \subseteq {c} /\ AloneOK(c) /\ CallOK(c)
           /\ req[c] \in Requests /\ Oid(c) \in Orders
           /\ now[c] \in 0..MaxTime /\ clock \in 0..MaxTime
           /\ now[c] \in Nat /\ clock \in Nat /\ now[c] <= clock
           /\ orders[Oid(c)] \in Rows \cup {None} /\ order[c] \in Rows \cup {None}
<1>1. c \in InFlight
  BY DEF InFlight
<1>2. InFlight \subseteq {c} /\ AloneOK(c)
  BY <1>1 DEF SerialOK
<1>3. CallOK(c) /\ req[c] \in Requests
  BY DEF Inv, CallsOK, CallOK
<1>4. Oid(c) \in Orders
  BY <1>3, RequestFields DEF Oid
<1>5. now[c] \in Nat /\ clock \in Nat
  BY ServiceAssumption DEF Inv, TypeOK
<1> QED
  BY <1>2, <1>3, <1>4, <1>5 DEF Inv, TypeOK, AloneOK

\* The reads: the copy is the row, whether it comes from the cache or not.
LEMMA SerialReading ==
    ASSUME MaxInFlight = 1, Inv, SerialOK, NEW c \in Calls,
           \/ \E r \in Requests : Start(c, r)
           \/ Lookup(c) \/ Query(c) \/ QueryFails(c) \/ Fill(c)
    PROVE  SerialOK'
<1> USE DEF Inv, TypeOK
<1>1. CASE \E r \in Requests : Start(c, r)
  <2>1. PICK r \in Requests : Start(c, r)
    BY <1>1
  <2>2. /\ UNCHANGED <<clock, tables, cache, order>> /\ now'[c] = clock /\ req'[c] = r
        /\ \A d \in Calls \ {c} : pc'[d] = pc[d]
        /\ pc'[c] \in {"lookup", "query"}
    BY <2>1 DEF Start
  <2>3. InFlight = {}
    BY <2>1, NobodyElse DEF Start
  <2>4. Oid(c)' \in Orders /\ orders' = orders /\ clock \in Nat
    BY <2>2, RequestFields, ServiceAssumption DEF Oid, tables
  <2>5. AloneOK(c)'
    BY <2>2, <2>4 DEF AloneOK, SerialOK, InTx
  <2> QED
    BY <2>2, <2>3, <2>5, AloneStep
<1>2. ASSUME pc[c] \in {"lookup", "query", "fill"}, NEW l \in {"query", "fill", "check"},
             Goto(c, l), UNCHANGED <<clock, tables>>,
             order'[c] \in {None, orders[Oid(c)]},
             \A o \in Orders : cache'[o] \in {None, cache[o], orders[o]}
      PROVE  SerialOK'
  <2>1. InFlight \subseteq {c} /\ AloneOK(c)
    BY <1>2, InFlightFacts
  <2>2. /\ pc'[c] = l /\ now'[c] = now[c] /\ Oid(c)' = Oid(c) /\ orders' = orders
        /\ \A d \in Calls \ {c} : pc'[d] = pc[d]
    BY <1>2 DEF Goto, Oid, tables
  <2>3. AloneOK(c)'
    BY <1>2, <2>1, <2>2 DEF AloneOK, InTx
  <2> QED
    BY <1>2, <2>1, <2>2, <2>3, AloneStep
<1>3. CASE Lookup(c)
  <2>1. Oid(c) \in Orders
    BY <1>3, InFlightFacts DEF Lookup
  <2>2. order'[c] \in {None, orders[Oid(c)]}
    BY <1>3, <2>1 DEF Lookup, SerialOK
  <2>3. \E l \in {"query", "fill", "check"} : Goto(c, l)
    BY <1>3 DEF Lookup
  <2> QED
    BY <1>2, <1>3, <2>2, <2>3 DEF Lookup
<1>4. CASE Query(c)
  <2>1. \E l \in {"query", "fill", "check"} : Goto(c, l)
    BY <1>4 DEF Query
  <2> QED
    BY <1>2, <1>4, <2>1 DEF Query
<1>5. CASE QueryFails(c)
  <2>1. CASE Finish(c, "error")
    <3>1. pc'[c] = "done" /\ \A d \in Calls \ {c} : pc'[d] = pc[d]
      BY <2>1 DEF Finish
    <3> QED
      BY <1>5, <3>1, InFlightFacts, AloneStep DEF QueryFails
  <2>2. CASE Goto(c, "check") /\ UNCHANGED <<order, tx>>
    <3>1. order[c] = None
      BY <1>5, InFlightFacts DEF QueryFails, CallOK
    <3> QED
      BY <1>2, <1>5, <2>2, <3>1 DEF QueryFails
  <2> QED
    BY <1>5, <2>1, <2>2 DEF QueryFails
<1>6. CASE Fill(c)
  <2>1. order[c] = orders[Oid(c)] /\ Oid(c) \in Orders
    BY <1>6, InFlightFacts DEF Fill, CallOK, AloneOK
  <2> QED
    BY <1>2, <1>6, <2>1 DEF Fill
<1> QED
  BY <1>1, <1>3, <1>4, <1>5, <1>6

\* The decision: the row as it is warrants it.
LEMMA SerialDecision ==
    ASSUME Inv, SerialOK, NEW c \in Calls, Check(c) \/ Stamp(c)
    PROVE  SerialOK'
<1> USE DEF Inv, TypeOK
<1> DEFINE row == orders[Oid(c)]
<1>1. /\ pc[c] \in {"check", "stamp"} /\ InFlight \subseteq {c} /\ AloneOK(c) /\ CallOK(c)
      /\ now[c] \in Nat /\ clock \in Nat /\ now[c] <= clock
      /\ row \in Rows \cup {None} /\ order[c] \in Rows \cup {None}
  BY InFlightFacts DEF Check, CheckAccept, CheckIssue, CheckReturn, CheckCourier, Stamp
<1>2. CASE Reject(c)
  <2>1. pc'[c] = "done" /\ \A d \in Calls \ {c} : pc'[d] = pc[d]
    BY <1>2 DEF Reject, Finish
  <2> QED
    BY <1>1, <1>2, <2>1, AloneStep DEF Reject
<1>3. ASSUME NEW new \in Rows, NEW l \in {"stamp", "write"}, Prepare(c, new, l),
             l = "stamp" => /\ row.status \in {InStorage, ReturnedFromClient}
                            /\ new.status = HandedOver(row.status)
                            /\ clock >= new.until,
             l = "write" => /\ new.updated \in now[c]..clock
                            /\ req[c].op # "accept" =>
                                 Warranted([status |-> row.status, at |-> row.updated],
                                               new.status, new.updated, new.until)
      PROVE  SerialOK'
  <2>1. /\ pc'[c] = l /\ order'[c] = new /\ now'[c] = now[c] /\ req'[c] = req[c]
        /\ UNCHANGED <<clock, tables, cache>> /\ orders' = orders /\ Oid(c)' = Oid(c)
        /\ \A d \in Calls \ {c} : pc'[d] = pc[d]
    BY <1>3 DEF Prepare, Goto, Oid, tables
  <2>2. now[c] <= clock /\ (row # None => row.updated <= now[c])
    BY <1>1 DEF AloneOK
  <2>3. AloneOK(c)'
    BY <1>3, <2>1, <2>2 DEF AloneOK, InTx, Warranted, Ledger!Lawful, Ledger!Revival
  <2> QED
    BY <1>1, <2>1, <2>3, AloneStep
<1>4. pc[c] = "check" /\ order[c] # None => order[c] = row
  BY <1>1 DEF AloneOK
<1> HIDE DEF row
<1>5. CASE CheckAccept(c)
  <2> DEFINE new == [receiver |-> req[c].receiver, until |-> req[c].until,
                     status |-> InStorage, updated |-> now[c]]
  <2>1. new \in Rows
    BY <1>1, <1>5, RequestFields DEF CheckAccept, Rows, Statuses, CallOK
  <2>2. new.updated \in now[c]..clock
    BY <1>1
  <2>3. req[c].op = "accept" /\ (Reject(c) \/ Prepare(c, new, "write"))
    BY <1>5 DEF CheckAccept
  <2> HIDE DEF new
  <2> QED
    BY <1>2, <1>3, <2>1, <2>2, <2>3
<1>6. CASE CheckIssue(c) /\ MayIssue(c)
  <2> DEFINE new == [order[c] EXCEPT !.status = GivenToClient, !.updated = now[c]]
  <2>1. /\ order[c] \in Rows /\ order[c] = row
        /\ row.status \in {InStorage} \cup CourierStatuses /\ now[c] <= row.until
    BY <1>1, <1>4, <1>6 DEF CheckIssue, MayIssue, Rows, Statuses, CourierStatuses
  <2>2. /\ new \in Rows /\ new.until = row.until
        /\ new.status = GivenToClient /\ new.updated = now[c]
    BY <1>1, <2>1 DEF Rows, Statuses
  <2>3. Prepare(c, new, "write")
    BY <1>6 DEF CheckIssue
  <2> HIDE DEF new
  <2>4. Warranted([status |-> row.status, at |-> row.updated],
                      new.status, new.updated, new.until)
    BY <2>1, <2>2, WarrantedGrounds
  <2> QED
    BY <1>1, <1>3, <2>2, <2>3, <2>4
<1>7. CASE CheckReturn(c) /\ MayReturn(c)
  <2> DEFINE new == [order[c] EXCEPT !.status = ReturnedFromClient, !.updated = now[c]]
  <2>1. /\ order[c] \in Rows /\ order[c] = row
        /\ row.status \in {GivenToClient} \cup CourierStatuses
        /\ now[c] <= row.updated + ReturnWindow
    BY <1>1, <1>4, <1>7 DEF CheckReturn, MayReturn, Rows, Statuses, CourierStatuses
  <2>2. /\ new \in Rows /\ new.until = row.until
        /\ new.status = ReturnedFromClient /\ new.updated = now[c]
    BY <1>1, <2>1 DEF Rows, Statuses
  <2>3. Prepare(c, new, "write")
    BY <1>7 DEF CheckReturn
  <2> HIDE DEF new
  <2>4. Warranted([status |-> row.status, at |-> row.updated],
                      new.status, new.updated, new.until)
    BY <2>1, <2>2, WarrantedGrounds
  <2> QED
    BY <1>1, <1>3, <2>2, <2>3, <2>4
<1>8. CASE CheckCourier(c) /\ MayHandOver(c)
  <2> DEFINE new == [order[c] EXCEPT !.status = HandedOver(@)]
  <2>1. /\ order[c] \in Rows /\ order[c] = row
        /\ row.status \in {InStorage, ReturnedFromClient} /\ clock >= row.until
    BY <1>1, <1>4, <1>8 DEF CheckCourier, MayHandOver
  <2>2. /\ new \in Rows /\ new.until = row.until /\ new.status = HandedOver(row.status)
    BY <2>1 DEF Rows, Statuses, HandedOver
  <2>3. Prepare(c, new, "stamp")
    BY <1>8 DEF CheckCourier
  <2> HIDE DEF new
  <2> QED
    BY <1>3, <2>1, <2>2, <2>3
<1>9. CASE Stamp(c)
  <2> DEFINE new == [order[c] EXCEPT !.updated = clock]
  <2>1. pc[c] = "stamp" /\ Prepare(c, new, "write")
    BY <1>9 DEF Stamp
  <2>2. /\ order[c] \in Rows
        /\ row.status \in {InStorage, ReturnedFromClient}
        /\ order[c].status = HandedOver(row.status) /\ clock >= order[c].until
    BY <1>1, <2>1 DEF CallOK, Decided, AloneOK, row
  <2>3. /\ new \in Rows /\ new.until = order[c].until
        /\ new.status = order[c].status /\ new.updated = clock
    BY <1>1, <2>2 DEF Rows
  <2> HIDE DEF new
  <2>4. Warranted([status |-> row.status, at |-> row.updated],
                      new.status, new.updated, new.until)
    BY <2>2, <2>3, WarrantedGrounds DEF HandedOver, InStorage, ReturnedFromClient
  <2>5. new.updated \in now[c]..clock
    BY <1>1, <2>3
  <2> QED
    BY <1>3, <2>1, <2>3, <2>4, <2>5
<1> QED
  BY <1>2, <1>5, <1>6, <1>7, <1>8, <1>9 DEF Check, CheckIssue, CheckReturn, CheckCourier

\* The transaction: its first statement drops the cached copy, so that none
\* is left behind by the commit.
LEMMA SerialTransaction ==
    ASSUME Inv, SerialOK, NEW c \in Calls,
           Write(c) \/ SaveHistory(c) \/ SaveEvent(c) \/ Fail(c)
    PROVE  SerialOK'
<1> USE DEF Inv, TypeOK
<1>1. /\ pc[c] \in {"write"} \cup InTx /\ InFlight \subseteq {c} /\ AloneOK(c)
      /\ Oid(c) \in Orders
  BY InFlightFacts DEF Write, SaveHistory, SaveEvent, Fail, InTx
<1>2. CASE Reject(c) \/ Fail(c)
  <2>1. /\ pc'[c] = "done" /\ \A d \in Calls \ {c} : pc'[d] = pc[d]
        /\ UNCHANGED <<clock, tables, cache>>
    BY <1>2 DEF Reject, Fail, Finish
  <2> QED
    BY <1>1, <2>1, AloneStep
<1>3. ASSUME NEW l \in InTx, Goto(c, l), UNCHANGED <<clock, tables, order>>,
             cache' = IF pc[c] = "write" THEN [cache EXCEPT ![Oid(c)] = None] ELSE cache
      PROVE  SerialOK'
  <2>1. /\ pc'[c] = l /\ req'[c] = req[c] /\ now'[c] = now[c] /\ Oid(c)' = Oid(c)
        /\ orders' = orders /\ order'[c] = order[c]
        /\ \A d \in Calls \ {c} : pc'[d] = pc[d]
    BY <1>3 DEF Goto, Oid, tables
  <2>2. cache'[Oid(c)] = None /\ \A o \in Orders : cache'[o] \in {None, cache[o]}
    BY <1>1, <1>3 DEF AloneOK
  <2>3. AloneOK(c)'
    BY <1>1, <1>3, <2>1, <2>2 DEF AloneOK, InTx, Warranted, Ledger!Lawful, Ledger!Revival
  <2> QED
    BY <1>1, <1>3, <2>1, <2>2, <2>3, AloneStep
<1>4. CASE Write(c) /\ ~Reject(c)
  BY <1>3, <1>4 DEF Write, InTx
<1>5. CASE SaveHistory(c) \/ SaveEvent(c)
  BY <1>3, <1>5 DEF SaveHistory, SaveEvent, InTx
<1> QED
  BY <1>2, <1>4, <1>5

\* The commit of the only call: what is cached are rows of other orders.
LEMMA SerialCommit ==
    ASSUME Inv, SerialOK, NEW c \in Calls, Commits(c)
    PROVE  SerialOK'
<1> USE DEF Inv, TypeOK
<1>1. /\ pc[c] = "commit" /\ InFlight \subseteq {c} /\ AloneOK(c) /\ Oid(c) \in Orders
      /\ clock \in Nat
  BY InFlightFacts DEF Commits
<1>2. orders' = [orders EXCEPT ![Oid(c)] = order[c]]
  BY CommitEffect
<1>3. /\ UNCHANGED <<clock, cache>> /\ pc'[c] = "done"
      /\ \A d \in Calls \ {c} : pc'[d] = pc[d]
  BY DEF Commits, Publish, Finish
<1>4. cache[Oid(c)] = None /\ order[c].updated <= clock
  BY <1>1 DEF AloneOK, InTx
<1>5. InFlight' = {}
  <2> SUFFICES ASSUME NEW d \in InFlight' PROVE FALSE
    OBVIOUS
  <2>1. d \in Calls /\ pc'[d] \notin {"ready", "done"}
    BY DEF InFlight
  <2>2. d # c /\ d \in InFlight
    BY <1>3, <2>1 DEF InFlight
  <2> QED
    BY <1>1, <2>2
<1>6. \A o \in Orders : orders'[o] # None => orders'[o].updated <= clock
  BY <1>1, <1>2, <1>4 DEF SerialOK
<1>7. \A o \in Orders : cache[o] # None => cache[o] = orders'[o]
  BY <1>1, <1>2, <1>4 DEF SerialOK
<1> QED
  BY <1>3, <1>5, <1>6, <1>7 DEF SerialOK

\* The environment: the clock, evictions and crashes.
LEMMA SerialEnvironment ==
    ASSUME Inv, SerialOK,
           (\E o \in Orders : Evict(o)) \/ Tick \/ Crash \/ UNCHANGED vars
    PROVE  SerialOK'
<1> USE DEF Inv, TypeOK
<1>1. CASE Crash
  <2>1. /\ UNCHANGED <<clock, tables>> /\ cache' = [o \in Orders |-> None]
        /\ \A c \in Calls : pc'[c] = IF c \in InFlight THEN "done" ELSE pc[c]
    BY <1>1 DEF Crash
  <2>2. InFlight' = {} /\ orders' = orders
    BY <2>1 DEF InFlight, tables
  <2> QED
    BY <2>1, <2>2 DEF SerialOK
<1>2. CASE (\E o \in Orders : Evict(o)) \/ Tick \/ UNCHANGED vars
  <2>1. /\ UNCHANGED <<pc, req, now, order>> /\ orders' = orders
        /\ clock \in Nat /\ clock' \in Nat /\ clock <= clock'
        /\ \A o \in Orders : cache'[o] \in {None, cache[o]}
    BY <1>2, ServiceAssumption DEF Evict, Tick, vars, tables
  <2>2. InFlight' = InFlight
    BY <2>1 DEF InFlight
  <2>3. \A o \in Orders : orders[o] # None => orders[o].updated <= clock'
    <3>1. \A o \in Orders : orders[o] # None => orders[o].updated \in Nat
      BY DEF Rows
    <3> QED
      BY <2>1, <3>1 DEF SerialOK
  <2>4. ASSUME NEW c \in InFlight PROVE AloneOK(c)'
    <3>1. /\ AloneOK(c) /\ Oid(c)' = Oid(c) /\ now[c] \in Nat /\ Oid(c) \in Orders
          /\ pc[c] = "stamp" => order[c].until \in Nat
      BY <2>1, <2>4, InFlightFacts, ServiceAssumption
         DEF Oid, InFlight, CallOK, Decided, Rows
    <3>2. now[c] <= clock' /\ (pc[c] = "stamp" /\ clock >= order[c].until => clock' >= order[c].until)
      BY <2>1, <3>1 DEF AloneOK
    <3>3. \A n \in now[c]..clock : n \in now[c]..clock'
      BY <2>1, <3>1
    <3> QED
      BY <2>1, <3>1, <3>2, <3>3 DEF AloneOK, Warranted, Ledger!Lawful, Ledger!Revival
  <2> QED
    BY <2>1, <2>2, <2>3, <2>4 DEF SerialOK
<1> QED
  BY <1>1, <1>2

LEMMA SerialStep ==
    ASSUME MaxInFlight = 1, Inv, SerialOK, [Next]_vars
    PROVE  SerialOK'
<1>1. ASSUME NEW c \in Calls, Commit(c) \/ CommitReplyLost(c)
      PROVE  SerialOK'
  BY <1>1, SerialCommit DEF Commit, CommitReplyLost, Commits
<1> QED
  BY <1>1, SerialReading, SerialDecision, SerialTransaction, SerialEnvironment
     DEF Next, Step, Finished

LEMMA SerialInit == Init => SerialOK
BY DEF Init, SerialOK, InFlight

\* With calls one at a time nobody decides on an old version: a copy in the
\* cache, and one a call has read, is the row as it is, although a change
\* drops the copy before it commits, or rolls back, or is cut off by a crash.
CopiesAreCurrent ==
    /\ \A o \in Orders : cache[o] # None => cache[o] = orders[o]
    /\ \A c \in Calls : pc[c] \in {"fill", "check"} /\ order[c] # None
                           => order[c] = orders[Oid(c)]

\* With calls one at a time, whatever the program reads through the cache of
\* orders by id is what the table holds, at every moment.
THEOREM SerialCopies == ASSUME MaxInFlight = 1 PROVE Spec => []CopiesAreCurrent
<1>1. Inv /\ SerialOK /\ [Next]_vars => SerialOK'
  BY SerialStep
<1>2. SerialOK => CopiesAreCurrent
  BY DEF SerialOK, CopiesAreCurrent, AloneOK, InFlight
<1> QED
  BY <1>1, <1>2, SerialInit, Invariance, PTL DEF Spec

\* A commit of the only call follows from the last change, and is not stamped
\* before it.
LEMMA SerialLedgerStep ==
    ASSUME MaxInFlight = 1, Inv, SerialOK, [Next]_vars
    PROVE  [Ledger!Next]_Ledger!vars
<1> DEFINE terms == [o \in Orders |-> TermsOf(orders[o])]
<1>1. CASE UNCHANGED tables
  BY <1>1 DEF tables, Ledger!vars
<1>2. ASSUME NEW c \in Calls, Commits(c), NEW o, NEW s, NEW at, NEW t,
             o = Oid(c), s = order[c].status, at = order[c].updated,
             t = [receiver |-> order[c].receiver, until |-> order[c].until]
      PROVE  Ledger!Next
  <2>1. /\ o \in Orders /\ s \in Ledger!Statuses /\ at \in 0..MaxTime
        /\ orders' = [orders EXCEPT ![o] = order[c]] /\ order[c] \in Rows
        /\ history' = [history EXCEPT ![o] = Append(@, [status |-> s, at |-> at])]
        /\ outbox' = [outbox EXCEPT ![o] =
             Append(@, [type |-> Ledger!EventType(s), user |-> order[c].receiver])]
        /\ order[c].until \in Deadlines /\ order[c].receiver \in Receivers
    BY <1>2, CommitRecords
  <2>2. /\ orders[o] = None => s = Ledger!InStorage
        /\ orders[o] # None =>
             /\ order[c].receiver = orders[o].receiver
             /\ order[c].until = orders[o].until
    BY <1>2, CommitRecords
  <2>3. orders \in [Orders -> Rows \cup {None}] /\ order[c] # None
    BY <2>1, ServiceAssumption DEF Inv, TypeOK, Rows
  <2>4. t \in Ledger!Terms
    BY <1>2, <2>1 DEF Ledger!Terms
  <2>5. t # None
    BY <1>2, <2>1, ServiceAssumption
  <2>6. terms' = [terms EXCEPT ![o] = t]
    BY <1>2, <2>1, <2>3 DEF TermsOf
  <2>7. terms'[o].receiver = order[c].receiver
    BY <1>2, <2>1, <2>6
  <2>8. Ledger!Record(o, s, at)
    BY <2>1, <2>3, <2>7 DEF Ledger!Record, TermsOf
  <2>9. CASE orders[o] = None
    <3>1. Ledger!Accept(o, t, at)
      BY <2>1, <2>2, <2>6, <2>8, <2>9 DEF Ledger!Accept, TermsOf
    <3> QED
      BY <2>1, <2>4, <3>1 DEF Ledger!Next
  <2>10. CASE orders[o] # None
    <3>1. terms' = terms
      BY <1>2, <2>1, <2>2, <2>3, <2>6, <2>10 DEF TermsOf
    <3>2. t.until = orders[o].until /\ terms[o] = t
      BY <1>2, <2>1, <2>2, <2>3, <2>10 DEF TermsOf
    <3>3. /\ history[o] \in Seq(Entries) /\ history[o] # <<>>
          /\ history[o][Len(history[o])] = [status |-> orders[o].status,
                                            at |-> orders[o].updated]
      BY <2>1, <2>10 DEF Inv, TypeOK, TablesOK, RowMatchesHistory, Last
    <3>4. /\ AloneOK(c) /\ pc[c] = "commit" /\ Decided(c)
          /\ now[c] \in Nat /\ clock \in Nat
      BY <1>2, InFlightFacts, CommitEffect DEF Commits
    <3>5. req[c].op # "accept"
      BY <1>2, <2>10, <3>4 DEF Decided, AcceptDecided, InTx
    <3>6. /\ Warranted(history[o][Len(history[o])], s, at, terms[o].until)
          /\ at >= history[o][Len(history[o])].at
      <4>1. /\ orders[o].updated <= now[c] /\ at \in now[c]..clock
            /\ Warranted([status |-> orders[o].status, at |-> orders[o].updated],
                             s, at, order[c].until)
        BY <1>2, <2>10, <3>4, <3>5 DEF AloneOK, InTx
      <4>2. orders[o].updated \in Nat
        BY <2>1, <2>3, <2>10 DEF Rows
      <4>3. at >= orders[o].updated
        BY <3>4, <4>1, <4>2
      <4> QED
        BY <1>2, <3>2, <3>3, <4>1, <4>3
    <3>7. /\ Ledger!Grounds(o) = {Len(history[o])}
          /\ Ledger!InOrder(o, at)
      BY <3>6 DEF Ledger!Grounds, Ledger!InOrder
    <3>8. Ledger!Change(o, s, at)
      BY <2>5, <2>8, <3>1, <3>2, <3>7 DEF Ledger!Change, TermsOf
    <3>9. Ledger!Move(o, s, at) \/ Ledger!Revive(o, s, at)
      BY <3>6, <3>7, <3>8 DEF Warranted, Ledger!Move, Ledger!Revive, TermsOf
    <3> QED
      BY <2>1, <3>9 DEF Ledger!Next
  <2> QED
    BY <2>9, <2>10
<1>3. ASSUME NEW c \in Calls, Commits(c)
      PROVE  Ledger!Next
  BY <1>2, <1>3
<1> QED
  BY <1>1, <1>3, OnlyCommitsChangeTables

\* With calls one at a time the service is the ledger whose every change follows
\* from the last one: nothing is decided on an old version of an order.
THEOREM SerialRefinement ==
    ASSUME MaxInFlight = 1
    PROVE  Spec => ImplementsLedger
<1>1. Init => Ledger!Init
  BY DEF Init, Ledger!Init
<1>2. Inv /\ SerialOK /\ [Next]_vars => SerialOK'
  BY SerialStep
<1>3. Inv /\ SerialOK /\ [Next]_vars => [Ledger!Next]_Ledger!vars
  BY SerialLedgerStep
<1> QED
  BY <1>1, <1>2, <1>3, SerialInit, Invariance, PTL DEF Spec, ImplementsLedger, Ledger!Spec

\* The service implements the ledger: the one that follows the last change
\* when calls come one at a time, the one that follows any version when they
\* overlap, fail or crash.
THEOREM Refinement == Spec => ImplementsLedger
<1>1. CASE MaxInFlight = 1
  BY <1>1, SerialRefinement
<1>2. CASE MaxInFlight # 1
  BY <1>2, OverlapRefinement
<1> QED
  BY <1>1, <1>2

-----------------------------------------------------------------------------
(* What the calls were told, and what is in the tables.                    *)

Tried == {"ok", "error", "lost"}

\* A call has an answer only when it is over, so that the sets that are
\* counted grow by what a step adds.
CountsOK ==
    /\ \A c \in Calls : pc[c] # "done" => res[c] = None
    /\ IsFiniteSet(InFlight) /\ IsFiniteSet(Told(Tried)) /\ IsFiniteSet(Lines)
    /\ SuccessIsRecorded

\* What a step of a call that changes no table does to its answer.
LEMMA QuietStep ==
    ASSUME Inv, [Next]_vars, UNCHANGED tables
    PROVE  \/ Crash
           \/ \E c \in Calls :
                /\ \A d \in Calls \ {c} : pc'[d] = pc[d] /\ res'[d] = res[d]
                /\ pc'[c] # "done" => res'[c] = res[c] /\ pc[c] # "done"
                /\ pc'[c] = "done" => res'[c] \in {"rejected", "error"} /\ pc[c] # "done"
           \/ pc' = pc /\ res' = res
<1> USE DEF Inv, TypeOK
<1> DEFINE Quiet(c) ==
             /\ \A d \in Calls \ {c} : pc'[d] = pc[d] /\ res'[d] = res[d]
             /\ pc'[c] # "done" => res'[c] = res[c] /\ pc[c] # "done"
             /\ pc'[c] = "done" => res'[c] \in {"rejected", "error"} /\ pc[c] # "done"
<1>1. ASSUME NEW c \in Calls, NEW l \in Labels \ {"done"}, Goto(c, l), pc[c] # "done"
      PROVE  Quiet(c)
  BY <1>1 DEF Goto
<1>2. ASSUME NEW c \in Calls, NEW r \in {"rejected", "error"}, Finish(c, r), pc[c] # "done"
      PROVE  Quiet(c)
  BY <1>2 DEF Finish
<1> HIDE DEF Quiet
<1>3. ASSUME NEW c \in Calls, NEW r \in Requests, Start(c, r)
      PROVE  Quiet(c)
  BY <1>3 DEF Start, Quiet
<1>4. ASSUME NEW c \in Calls, Lookup(c) \/ Query(c) \/ QueryFails(c) \/ Fill(c)
      PROVE  Quiet(c)
  BY <1>4, <1>1, <1>2 DEF Lookup, Query, QueryFails, Fill, Labels
<1>5. ASSUME NEW c \in Calls, Check(c) \/ Stamp(c)
      PROVE  Quiet(c)
  BY <1>5, <1>1, <1>2 DEF Check, CheckAccept, CheckIssue, CheckReturn, CheckCourier,
                          Stamp, Reject, Prepare, Labels
<1>6. ASSUME NEW c \in Calls, Write(c) \/ SaveHistory(c) \/ SaveEvent(c) \/ Fail(c)
      PROVE  Quiet(c)
  BY <1>6, <1>1, <1>2 DEF Write, SaveHistory, SaveEvent, Fail, Reject, Labels
<1>7. ASSUME NEW c \in Calls, Commit(c) \/ CommitReplyLost(c)
      PROVE  FALSE
  <2>1. Commits(c)
    BY <1>7 DEF Commit, CommitReplyLost, Commits
  <2> DEFINE entry == [status |-> order[c].status, at |-> order[c].updated]
  <2>2. /\ Oid(c) \in Orders /\ entry \in Entries
        /\ history' = [history EXCEPT ![Oid(c)] = Append(@, entry)]
    BY <2>1, CommitEffect
  <2> HIDE DEF entry
  <2>3. history'[Oid(c)] = Append(history[Oid(c)], entry) /\ history[Oid(c)] \in Seq(Entries)
    BY <2>2
  <2>4. Len(history'[Oid(c)]) = Len(history[Oid(c)]) + 1 /\ Len(history[Oid(c)]) \in Nat
    BY <2>2, <2>3
  <2> QED
    BY <2>4 DEF tables
<1> QED
  BY <1>3, <1>4, <1>5, <1>6, <1>7 DEF Next, Step, Evict, Tick, Finished, vars, Quiet

\* A step that commits nothing adds no success and no line.
LEMMA CountsQuiet ==
    ASSUME Inv, CountsOK, [Next]_vars, UNCHANGED tables
    PROVE  CountsOK'
<1> USE DEF Inv, TypeOK
<1>1. Lines' = Lines
  BY DEF tables, Lines
<1>2. PICK S \in SUBSET Calls :
         /\ IsFiniteSet(S)
         /\ InFlight' \subseteq InFlight \cup S
         /\ Told(Tried) \subseteq Told(Tried)' /\ Told(Tried)' \subseteq Told(Tried) \cup S
         /\ Told({"ok"})' = Told({"ok"})
         /\ \A c \in Calls : pc'[c] # "done" => res'[c] = None
  <2>1. CASE Crash
    <3>1. /\ \A c \in Calls : c \in InFlight => pc'[c] = "done" /\ res'[c] = "lost"
          /\ \A c \in Calls : c \notin InFlight => pc'[c] = pc[c] /\ res'[c] = res[c]
      BY <2>1 DEF Crash
    <3>2. \A c \in InFlight : c \in Calls /\ res[c] = None
      BY ServiceAssumption DEF CountsOK, InFlight
    <3>3. Told(Tried)' = Told(Tried) \cup InFlight
      BY <3>1, <3>2, ServiceAssumption DEF Told, Tried
    <3>4. Told({"ok"})' = Told({"ok"})
      BY <3>1, <3>2, ServiceAssumption DEF Told
    <3>5. InFlight' = {}
      BY <3>1 DEF InFlight
    <3>6. \A c \in Calls : pc'[c] # "done" => res'[c] = None
      BY <3>1 DEF CountsOK
    <3>7. IsFiniteSet(InFlight) /\ InFlight \in SUBSET Calls
      BY DEF CountsOK, InFlight
    <3> QED
      BY <3>3, <3>4, <3>5, <3>6, <3>7
  <2>2. ASSUME NEW c \in Calls,
               /\ \A d \in Calls \ {c} : pc'[d] = pc[d] /\ res'[d] = res[d]
               /\ pc'[c] # "done" => res'[c] = res[c] /\ pc[c] # "done"
               /\ pc'[c] = "done" => res'[c] \in {"rejected", "error"} /\ pc[c] # "done"
        PROVE  \E S \in SUBSET Calls :
                 /\ IsFiniteSet(S)
                 /\ InFlight' \subseteq InFlight \cup S
                 /\ Told(Tried) \subseteq Told(Tried)' /\ Told(Tried)' \subseteq Told(Tried) \cup S
                 /\ Told({"ok"})' = Told({"ok"})
                 /\ \A d \in Calls : pc'[d] # "done" => res'[d] = None
    <3>1. res[c] = None
      BY <2>2 DEF CountsOK
    <3> WITNESS {c} \in SUBSET Calls
    <3>2. IsFiniteSet({c})
      BY FS_Singleton
    <3>3. InFlight' \subseteq InFlight \cup {c}
      BY <2>2 DEF InFlight
    <3>4. \A d \in Calls : d # c => res'[d] = res[d]
      BY <2>2
    <3>5. res'[c] \in {None, "rejected", "error"}
      BY <2>2, <3>1
    <3>6. Told({"ok"})' = Told({"ok"})
      BY <3>1, <3>4, <3>5, ServiceAssumption DEF Told
    <3>7. Told(Tried) \subseteq Told(Tried)' /\ Told(Tried)' \subseteq Told(Tried) \cup {c}
      BY <3>1, <3>4, ServiceAssumption DEF Told, Tried
    <3>8. \A d \in Calls : pc'[d] # "done" => res'[d] = None
      BY <2>2, <3>1 DEF CountsOK
    <3> QED
      BY <3>2, <3>3, <3>6, <3>7, <3>8
  <2>3. CASE pc' = pc /\ res' = res
    <3>1. IsFiniteSet({})
      BY FS_EmptySet
    <3> QED
      BY <2>3, <3>1 DEF CountsOK, Told, InFlight
  <2> QED
    BY <2>1, <2>2, <2>3, QuietStep
<1>3. IsFiniteSet(InFlight')
  <2>1. IsFiniteSet(InFlight \cup S)
    BY <1>2, FS_Union DEF CountsOK
  <2> QED
    BY <1>2, <2>1, FS_Subset
<1>4. IsFiniteSet(Told(Tried)') /\ Cardinality(Told(Tried)) <= Cardinality(Told(Tried)')
  <2>1. IsFiniteSet(Told(Tried) \cup S)
    BY <1>2, FS_Union DEF CountsOK
  <2>2. IsFiniteSet(Told(Tried)')
    BY <1>2, <2>1, FS_Subset
  <2> QED
    BY <1>2, <2>2, FS_Subset
<1> QED
  BY <1>1, <1>2, <1>3, <1>4, FS_CardinalityType DEF CountsOK, SuccessIsRecorded, Tried

\* A set that may have got one more member.
LEMMA OneMore ==
    ASSUME NEW S, IsFiniteSet(S), NEW x, NEW T, T = S \/ T = S \cup {x}
    PROVE  /\ IsFiniteSet(T) /\ Cardinality(S) \in Nat /\ Cardinality(T) \in Nat
           /\ Cardinality(T) <= Cardinality(S) + 1
<1>1. Cardinality(S) \in Nat
  BY FS_CardinalityType
<1>2. CASE T = S
  BY <1>1, <1>2
<1>3. CASE T = S \cup {x}
  <2>1. /\ IsFiniteSet(T)
        /\ Cardinality(T) = IF x \in S THEN Cardinality(S) ELSE Cardinality(S) + 1
    BY <1>3, FS_AddElement
  <2> QED
    BY <1>1, <2>1
<1> QED
  BY <1>2, <1>3

\* A commit adds one line, and one call that was told of success or an error.
LEMMA CountsCommit ==
    ASSUME Inv, CountsOK, NEW c \in Calls, Commits(c)
    PROVE  CountsOK'
<1> DEFINE o == Oid(c)
           n == Len(history[o]) + 1
           entry == [status |-> order[c].status, at |-> order[c].updated]
<1>1. /\ o \in Orders /\ entry \in Entries
      /\ history' = [history EXCEPT ![o] = Append(@, entry)]
  BY CommitEffect
<1>2. history \in [Orders -> Seq(Entries)] /\ pc \in [Calls -> Labels] /\ DOMAIN res = Calls
  BY DEF Inv, TypeOK
<1>3. res[c] = None /\ c \notin Told(Tried)
  BY ServiceAssumption DEF Commits, CountsOK, Told, Tried
<1>4. /\ pc'[c] = "done" /\ res'[c] \in {"ok", "error"}
      /\ \A d \in Calls : d # c => pc'[d] = pc[d] /\ res'[d] = res[d]
  BY <1>2 DEF Commits, Finish
<1>5. \A d \in Calls : pc'[d] # "done" => res'[d] = None
  BY <1>4 DEF CountsOK
<1>6. InFlight' \subseteq InFlight
  BY <1>4 DEF InFlight
<1>7. Told(Tried)' = Told(Tried) \cup {c}
  BY <1>4 DEF Told, Tried
<1>8. Told({"ok"})' = Told({"ok"}) \/ Told({"ok"})' = Told({"ok"}) \cup {c}
  BY <1>3, <1>4, ServiceAssumption DEF Told
<1>9. Lines' = Lines \cup {<<o, n>>} /\ <<o, n>> \notin Lines
  <2> HIDE DEF o, entry
  <2>1. /\ DOMAIN history'[o] = DOMAIN history[o] \cup {n} /\ n \notin DOMAIN history[o]
        /\ \A p \in Orders : p # o => DOMAIN history'[p] = DOMAIN history[p]
    <3>1. history'[o] = Append(history[o], entry) /\ history[o] \in Seq(Entries)
      BY <1>1, <1>2
    <3>2. Len(history'[o]) = n /\ Len(history[o]) \in Nat
          /\ DOMAIN history'[o] = 1..Len(history'[o]) /\ DOMAIN history[o] = 1..Len(history[o])
      BY <1>1, <3>1
    <3>3. \A p \in Orders : p # o => history'[p] = history[p]
      BY <1>1, <1>2
    <3> QED
      BY <3>2, <3>3
  <2> HIDE DEF n
  <2>2. ASSUME NEW x PROVE x \in Lines' <=> x \in Lines \/ x = <<o, n>>
    <3>1. x \in Lines <=> \E p \in Orders : x \in {p} \X DOMAIN history[p]
      BY DEF Lines
    <3>2. x \in Lines' <=> \E p \in Orders : x \in {p} \X DOMAIN history'[p]
      BY DEF Lines
    <3> QED
      BY <1>1, <2>1, <3>1, <3>2
  <2>3. <<o, n>> \notin Lines
    BY <2>1 DEF Lines
  <2> QED
    BY <2>2, <2>3
<1>10. IsFiniteSet(InFlight')
  BY <1>6, FS_Subset DEF CountsOK
<1>11. /\ IsFiniteSet(Told(Tried)')
       /\ Cardinality(Told(Tried)') = Cardinality(Told(Tried)) + 1
  BY <1>3, <1>7, FS_AddElement DEF CountsOK
<1>12. IsFiniteSet(Lines') /\ Cardinality(Lines') = Cardinality(Lines) + 1
  BY <1>9, FS_AddElement DEF CountsOK
<1>13. IsFiniteSet(Told({"ok"}))
  <2>1. Told({"ok"}) \subseteq Told(Tried)
    BY DEF Told, Tried
  <2> QED
    BY <2>1, FS_Subset DEF CountsOK
<1>14. /\ Cardinality(Told({"ok"})) \in Nat /\ Cardinality(Told({"ok"})') \in Nat
       /\ Cardinality(Told({"ok"})') <= Cardinality(Told({"ok"})) + 1
       /\ Cardinality(Told(Tried)) \in Nat /\ Cardinality(Lines) \in Nat
  BY <1>8, <1>13, OneMore, FS_CardinalityType DEF CountsOK
<1>15. SuccessIsRecorded'
  BY <1>11, <1>12, <1>14 DEF CountsOK, SuccessIsRecorded, Tried
<1> QED
  BY <1>5, <1>10, <1>11, <1>12, <1>15 DEF CountsOK

LEMMA CountsInit == Init => CountsOK
<1> SUFFICES ASSUME Init PROVE CountsOK
  OBVIOUS
<1>1. InFlight = {} /\ Told(Tried) = {} /\ Told({"ok"}) = {} /\ Lines = {}
  BY ServiceAssumption DEF Init, InFlight, Told, Tried, Lines
<1>2. IsFiniteSet({}) /\ Cardinality({}) = 0
  BY FS_EmptySet
<1>3. SuccessIsRecorded
  BY <1>1, <1>2 DEF SuccessIsRecorded, Tried
<1>4. \A c \in Calls : res[c] = None
  BY DEF Init
<1> QED
  BY <1>1, <1>2, <1>3, <1>4 DEF CountsOK

\* No more successes than changes, and no more changes than calls that may
\* have made one, however many calls, crashes and lost replies there are.
THEOREM SuccessesAreRecorded == Spec => []SuccessIsRecorded
<1>1. Inv /\ CountsOK /\ [Next]_vars => CountsOK'
  BY CountsQuiet, CountsCommit, OnlyCommitsChangeTables
<1>2. CountsOK => SuccessIsRecorded
  BY DEF CountsOK
<1> QED
  BY <1>1, <1>2, CountsInit, Invariance, PTL DEF Spec
=============================================================================
