---------------------------- MODULE OrderRequests ----------------------------
(***************************************************************************)
(* The requests of OrdersService (contract.proto) and the rules the        *)
(* generated code checks on them before a handler sees them.               *)
(*                                                                         *)
(* A message is a record with its method; an optional field that is not    *)
(* set is Absent.  An instant is a natural number; a timestamp that is     *)
(* Absent or does not denote an instant is none.  A float is a natural     *)
(* number: its fraction, NaN and infinity are left out.                    *)
(***************************************************************************)
EXTENDS Naturals, Sequences

CONSTANT Absent

Methods == {"AcceptOrder", "ReturnOrder", "ProcessOrders", "ListOrders",
            "ListReturns", "GetHistory", "ImportOrders", "GetOrderHistory"}

ActionTypes == {"ISSUE", "RETURN"}

\* The field is reported unless its rule holds.
Rule(field, ok) == IF ok THEN {} ELSE {field}

AcceptOrderErrors(m, now) ==
    Rule("OrderId", m.order > 0)
    \cup Rule("UserId", m.user > 0)
    \cup Rule("ExpiresAt", m.expires \in Nat /\ m.expires > now)
    \cup Rule("Weight", m.weight > 0)
    \cup Rule("Price", m.price > 0)

OrderIdErrors(m) == Rule("OrderId", m.order > 0)

ProcessOrdersErrors(m) ==
    Rule("UserId", m.user > 0)
    \cup Rule("Action", m.action \in ActionTypes)
    \cup Rule("OrderIds", m.orders # <<>> /\ \A i \in DOMAIN m.orders : m.orders[i] > 0)

PaginationErrors(p) == Rule("CountOnPage", p.count > 0)

\* An embedded message that is not set has no errors.
EmbeddedPagination(p) == Rule("Pagination", p = Absent \/ PaginationErrors(p) = {})

ListOrdersErrors(m) ==
    Rule("UserId", m.user > 0)
    \cup Rule("LastN", m.lastN = Absent \/ m.lastN > 0)
    \cup EmbeddedPagination(m.pagination)

ListReturnsErrors(m) == EmbeddedPagination(m.pagination)

GetHistoryErrors(m) == EmbeddedPagination(m.pagination)

\* Faulty variant: the orders of an import are not looked at.
ImportOrdersErrorsShallow(m, now) == Rule("Orders", m.orders # <<>>)

ImportOrdersErrors(m, now) ==
    Rule("Orders", m.orders # <<>>
                   /\ \A i \in DOMAIN m.orders : AcceptOrderErrors(m.orders[i], now) = {})

OrderHistoryErrors(m) == Rule("OrderId", m.order > 0)

\* ValidationInterceptor: all the rules of the message.
ValidateAll(m, now) ==
    CASE m.method = "AcceptOrder" -> AcceptOrderErrors(m, now)
      [] m.method = "ReturnOrder" -> OrderIdErrors(m)
      [] m.method = "ProcessOrders" -> ProcessOrdersErrors(m)
      [] m.method = "ListOrders" -> ListOrdersErrors(m)
      [] m.method = "ListReturns" -> ListReturnsErrors(m)
      [] m.method = "GetHistory" -> GetHistoryErrors(m)
      [] m.method = "ImportOrders" -> ImportOrdersErrors(m, now)
      [] m.method = "GetOrderHistory" -> OrderHistoryErrors(m)
=============================================================================
