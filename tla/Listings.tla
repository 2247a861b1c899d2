------------------------------ MODULE Listings -------------------------------
(***************************************************************************)
(* The lists of app/get_orders.go: how the rows of a query are filtered,   *)
(* ordered and cut into pages.                                             *)
(***************************************************************************)
EXTENDS OrderTypes, OrderRequests, FiniteSets, Functions

CONSTANT Word       \* uint64 holds 0..Word - 1

Least(a, b) == IF a <= b THEN a ELSE b

\* Faulty variant: the page starts one row late.
PaginateLate(items, currentPage, itemsPerPage) ==
    LET page == IF currentPage = 0 THEN 1 ELSE currentPage
        startIndex == ((page - 1) * itemsPerPage + 1) % Word
        endIndex == (startIndex + itemsPerPage) % Word
    IN IF itemsPerPage = 0 \/ startIndex >= Len(items) THEN <<>>
       ELSE SubSeq(items, startIndex + 1, Least(endIndex, Len(items)))

\* The slice items[startIndex:endIndex], in the arithmetic of uint64.
Paginate(items, currentPage, itemsPerPage) ==
    LET page == IF currentPage = 0 THEN 1 ELSE currentPage
        startIndex == ((page - 1) * itemsPerPage) % Word
        endIndex == (startIndex + itemsPerPage) % Word
    IN IF itemsPerPage = 0 \/ startIndex >= Len(items) THEN <<>>
       ELSE SubSeq(items, startIndex + 1, Least(endIndex, Len(items)))

\* The handlers: no pagination is page 0 of 0 rows.
PageOf(items, p) ==
    IF p = Absent THEN Paginate(items, 0, 0) ELSE Paginate(items, p.page, p.count)

LastOf(items, n) ==
    IF Len(items) > n THEN SubSeq(items, Len(items) - n + 1, Len(items)) ELSE items

-----------------------------------------------------------------------------
(* Rows of the table orders; the order in which a query returns them.      *)

\* A query without ORDER BY returns its rows in any order.
AnyOrder(rows) == Bijection(1..Cardinality(rows), rows)

\* ORDER BY last_update_time DESC leaves open how equal times are ordered.
ByLastUpdate(rows) ==
    {s \in AnyOrder(rows) :
        \A i, j \in DOMAIN s : i < j => s[i].at >= s[j].at}

\* Row r of rows is the n-th by last update, newest first.
HasRank(r, n, rows) ==
    /\ Cardinality({q \in rows : q.at > r.at}) < n
    /\ Cardinality({q \in rows : q.at >= r.at}) >= n

\* What GetReceiverOrders can answer: the page and the total.
GetReceiverOrders(rows, m) ==
    LET mine == {r \in rows : r.user = m.user}
        filtered == IF m.inPvz THEN {r \in mine : r.status = InStorage} ELSE mine
    IN {[page |-> IF m.lastN # Absent /\ m.lastN > 0 THEN LastOf(s, m.lastN)
                  ELSE PageOf(s, m.pagination),
         total |-> Len(s)] : s \in AnyOrder(filtered)}

Returned(rows) == {r \in rows : r.status \in {ReturnedFromClient, GivenToCourier}}

GetReturnedOrders(rows, m) ==
    {PageOf(s, m.pagination) : s \in ByLastUpdate(Returned(rows))}

\* The rows of GetAllOrders are in this order already: sort.Slice, which
\* sorts the list the cache holds in place, moves none.
GetOrderHistory(rows, m) ==
    {PageOf(s, m.pagination) : s \in ByLastUpdate(rows)}

\* The lines of one order, newest first; none is an error.
GetOrderHistoryByID(lines) == ByLastUpdate(lines)
=============================================================================
