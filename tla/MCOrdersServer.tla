--------------------------- MODULE MCOrdersServer ----------------------------
(***************************************************************************)
(* An instance of OrdersServer for TLC: orders 1 and 12, whose texts       *)
(* "Order 1" and "Order 12" overlap, a client 1 who owns them and a client *)
(* 2 who does not.                                                         *)
(***************************************************************************)
EXTENDS OrdersServer, TLC

CONSTANTS c1,               \* the call that brings a batch
          Batched, Single   \* names of the messages each call may carry

Parcel(order, expires, weight, package) ==
    [method |-> "AcceptOrder", order |-> order, user |-> 1, expires |-> expires,
     weight |-> weight, price |-> 2, package |-> package]

Process(user, action, orders) ==
    [method |-> "ProcessOrders", user |-> user, action |-> action, orders |-> orders]

Page(page, count) == [page |-> page, count |-> count]

Catalogue ==
    [accept  |-> Parcel(1, 4, 5, "TAPE"),
     heavy   |-> Parcel(1, 4, 11, "BAG_TAPE"),
     bare    |-> Parcel(1, 4, 5, Absent),
     late    |-> Parcel(1, 1, 0, "BAG"),
     import  |-> [method |-> "ImportOrders",
                  orders |-> <<Parcel(1, 5, 10, "BAG_TAPE"), Parcel(12, 4, 30, "BOX")>>],
     broken  |-> [method |-> "ImportOrders",
                  orders |-> <<Parcel(12, 4, 5, "BOX"), Parcel(1, 4, 0, "BOX")>>],
     issue   |-> Process(1, "ISSUE", <<1, 12>>),
     foreign |-> Process(2, "ISSUE", <<12>>),
     single  |-> Process(1, "ISSUE", <<12>>),
     twice   |-> Process(1, "RETURN", <<12, 12>>),
     nothing |-> Process(0, "NONE", <<>>),
     courier |-> [method |-> "ReturnOrder", order |-> 12],
     unnamed |-> [method |-> "ReturnOrder", order |-> 0],
     mine    |-> [method |-> "ListOrders", user |-> 1, inPvz |-> TRUE, lastN |-> Absent,
                  pagination |-> Page(1, 1)],
     last    |-> [method |-> "ListOrders", user |-> 1, inPvz |-> FALSE, lastN |-> 1,
                  pagination |-> Absent],
     returns |-> [method |-> "ListReturns", pagination |-> Page(1, 2)],
     rest    |-> [method |-> "ListReturns", pagination |-> Page(2, 1)],
     empty   |-> [method |-> "ListReturns", pagination |-> Page(1, 0)],
     second  |-> [method |-> "GetHistory", pagination |-> Page(2, 1)],
     whole   |-> [method |-> "GetHistory", pagination |-> Absent],
     lines   |-> [method |-> "GetOrderHistory", order |-> 12]]

\* One call brings a batch, the other one any other request.
SentBy == [c \in Calls |-> {Catalogue[n] : n \in IF c = c1 THEN Batched ELSE Single}]

Line(status, at) == [status |-> status, at |-> at]

Absence == <<>>
Stored == <<Line(InStorage, 0)>>
TakenBack(at) ==
    <<Line(InStorage, 0), Line(GivenToClient, 0), Line(ReturnedFromClient, at)>>

\* Orders 1 and 12 with these histories, and the events of them.
Table(first, second) ==
    LET history == [o \in Orders |-> IF o = 1 THEN first ELSE second]
        known(o, x) == IF history[o] = Absence THEN None ELSE x
    IN [terms |-> [o \in Orders |->
                     known(o, [receiver |-> 1, until |-> IF o = 12 THEN 1 ELSE 4])],
        ledger |-> history,
        notices |-> [o \in Orders |-> [i \in DOMAIN history[o] |->
                       [type |-> EventType(history[o][i].status), user |-> 1]]],
        parcel |-> [o \in Orders |-> known(o, [weight |-> 5, code |-> "bag", price |-> 7])]]

\* No order yet, both in storage, or both taken back, the second one later.
SomeTables ==
    {Table(Absence, Absence), Table(Stored, Stored), Table(TakenBack(0), TakenBack(1))}

TwoIds == {1, 12}
TwoClients == {1, 2}
=============================================================================
