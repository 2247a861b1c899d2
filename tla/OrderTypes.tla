----------------------------- MODULE OrderTypes -----------------------------
(***************************************************************************)
(* The vocabulary of internal/domain shared by the order service and by    *)
(* the ledger it implements: the statuses of an order, the event types     *)
(* published for them, and the shape of a history entry.                   *)
(***************************************************************************)
EXTENDS Naturals

InStorage == "InStorage"
GivenToClient == "GivenToClient"
ReturnedFromClient == "ReturnedFromClient"
ReturnedWithoutClient == "ReturnedWithoutClient"
GivenToCourier == "GivenToCourier"

Statuses == {InStorage, GivenToClient, ReturnedFromClient,
             ReturnedWithoutClient, GivenToCourier}

\* The two outcomes of ReturnOrderToDelivery.
CourierStatuses == {ReturnedWithoutClient, GivenToCourier}

\* One line of order_history: the status taken and changed_at.
Entries == [status : Statuses, at : Nat]

EventTypes == {"order_accepted", "order_issued", "order_returned_by_client",
               "order_returned_to_courier"}

\* The type of the event each operation builds for the status it writes.
EventType(status) ==
    CASE status = InStorage -> "order_accepted"
      [] status = GivenToClient -> "order_issued"
      [] status = ReturnedFromClient -> "order_returned_by_client"
      [] status \in CourierStatuses -> "order_returned_to_courier"
=============================================================================
