---------------------------- MODULE OrdersServer -----------------------------
(***************************************************************************)
(* The gRPC server of the service: what happens to a call between its      *)
(* arrival and its answer (the interceptors of cmd/pvz, the handlers of    *)
(* adapter/grpc, the batches and the reads of internal/app, the business   *)
(* metrics), while the orders it is about are changed by other calls.      *)
(*                                                                         *)
(* A change of an order is one step here: that its parts are one           *)
(* transaction is what OrderService shows.  Likewise the pool is a queue   *)
(* that starts every job at some time (WorkerPool), and a list is read     *)
(* from the tables (ListCaches has the caches in between).                 *)
(***************************************************************************)
EXTENDS Listings, OrderParcels, SequencesExt

CONSTANTS Orders, Receivers,
          Calls,            \* RPCs; each arrives at most once (a bound)
          Messages,         \* the requests each call may carry
          Tables,           \* what the database may hold when the server starts
          MaxTime,          \* last instant of the clock (a bound)
          Horizon,          \* last instant a message names (a bound)
          Day,              \* instants in a day
          ReturnWindow,     \* 48 hours
          WorkerLimit,      \* items of a batch at work at once
          Limit,            \* calls of a sender in a period
          None

\* Ids are of type uint64: there are finitely many orders.
ASSUME ServerAssumption ==
    /\ Orders \subseteq Nat \ {0} /\ IsFiniteSet(Orders) /\ Receivers \subseteq Nat \ {0}
    /\ MaxTime \in Nat \ {0} /\ Horizon \in Nat
    /\ Day \in Nat \ {0} /\ ReturnWindow \in Nat
    /\ WorkerLimit \in Nat \ {0} /\ Limit \in Nat \ {0}
    /\ None \notin Receivers
    /\ \A c \in Calls : \A m \in Messages[c] : m.method \in Methods

VARIABLES terms, ledger,    \* as in OrderLedger: the tables orders and
          notices,          \* order_history, and the events of the outbox
          parcel,           \* the other columns of orders: weight, price, code
          clock,            \* time.Now
          spent,            \* calls the limiter has counted in this period
          counted,          \* the business counters of internal/metrics
          msg,              \* the request of each call that was let in
          handler,          \* none, queued, running, finished
          began,            \* the time a return from the client goes by
          expired,          \* calls whose context is done
          item,             \* the items of the batch of each call
          failure,          \* the first error of the batch, and the order it names
          outcome,          \* what the handler returned, until it is taken
          answer            \* what the client was told

tables == <<terms, ledger, notices, parcel>>
batch == <<item, failure>>
vars == <<tables, clock, spent, counted, msg, handler, began, expired, batch,
          outcome, answer>>

Writes == {"AcceptOrder", "ReturnOrder", "ProcessOrders", "ImportOrders"}
Counters == {"accepted", "issued", "by_client", "to_courier"}

Init ==
    /\ \E t \in Tables : /\ terms = t.terms /\ ledger = t.ledger
                         /\ notices = t.notices /\ parcel = t.parcel
    /\ clock = 1
    /\ spent = 0
    /\ counted = [n \in Counters |-> 0]
    /\ msg = [c \in Calls |-> None]
    /\ handler = [c \in Calls |-> "none"]
    /\ began = [c \in Calls |-> 0]
    /\ expired = {}
    /\ item = [c \in Calls |-> <<>>]
    /\ failure = [c \in Calls |-> None]
    /\ outcome = [c \in Calls |-> None]
    /\ answer = [c \in Calls |-> None]

-----------------------------------------------------------------------------
(* Errors.                                                                 *)

\* An error of internal/domain carries a code; every other one is "Plain".
MapErrorToGRPCStatus(code) ==
    CASE code \in {"NotFound", "AlreadyExists"} -> code
      [] code \in {"StorageExpired", "StorageNotExpired"} -> "FailedPrecondition"
      [] code \in {"ValidationFailed", "WeightTooHeavy", "Plain"} -> "InvalidArgument"
      [] OTHER -> "Internal"

\* Errors whose text begins with "Order <id>".
Naming == {"AlreadyExists", "StorageExpired", "AlreadyGiven",
           "BelongsToOtherReceiver", "AlreadyInStorage", "ReturnPeriodExpired",
           "StorageNotExpired", "UnavaliableReturned"}

\* "Order <o>" occurs in the text: o is the id it names, or its first digits.
Mentions(error, o) ==
    /\ error.code \in Naming
    /\ \E k \in 0..3 : error.order \div 10^k = o

\* The first check that fails decides.
FirstFailed(checks) ==
    LET failed == {i \in DOMAIN checks : checks[i].fails}
    IN IF failed = {} THEN None ELSE checks[Min(failed)].code

Check(fails, code) == [fails |-> fails, code |-> code]

-----------------------------------------------------------------------------
(* Arrival: the rate limiter, then the rules of the message, then the pool.*)

Tell(c, code, value) == answer' = [answer EXCEPT ![c] = [code |-> code, value |-> value]]

Arrive(c) ==
    /\ msg[c] = None /\ answer[c] = None
    /\ UNCHANGED <<tables, clock, counted, began, expired, batch, outcome>>

\* limiter.Get counts the call and says whether the limit was passed.
RejectLimited(c) ==
    /\ Arrive(c)
    /\ spent = Limit
    /\ Tell(c, "ResourceExhausted", None)
    /\ UNCHANGED <<spent, msg, handler>>

RejectInvalid(c, m) ==
    /\ Arrive(c)
    /\ spent < Limit /\ spent' = spent + 1
    /\ ValidateAll(m, clock) # {}
    /\ Tell(c, "InvalidArgument", None)
    /\ UNCHANGED <<msg, handler>>

Submit(c, m) ==
    /\ Arrive(c)
    /\ spent < Limit /\ spent' = spent + 1
    /\ ValidateAll(m, clock) = {}
    /\ msg' = [msg EXCEPT ![c] = m]
    /\ handler' = [handler EXCEPT ![c] = "queued"]
    /\ UNCHANGED answer

\* The two seconds of TimeoutInterceptor are over before the answer.
Expire(c) ==
    /\ handler[c] # "none" /\ answer[c] = None
    /\ c \notin expired
    /\ expired' = expired \cup {c}
    /\ UNCHANGED <<tables, clock, spent, counted, msg, handler, began, batch,
                   outcome, answer>>

-----------------------------------------------------------------------------
(* The handler.                                                            *)

\* A result for which nobody waits any more is dropped.
Return(c, code, value) ==
    /\ handler' = [handler EXCEPT ![c] = "finished"]
    /\ outcome' = IF answer[c] = None
                  THEN [outcome EXCEPT ![c] = [code |-> code, value |-> value]] ELSE outcome

\* A worker does not start a job whose context is done.
Skip(c) ==
    /\ handler[c] = "queued" /\ c \in expired
    /\ Return(c, "Plain", None)
    /\ UNCHANGED <<tables, clock, spent, counted, msg, began, expired, batch, answer>>

\* The orders a request is to change, in its order.
Targets(m) ==
    CASE m.method \in {"AcceptOrder", "ReturnOrder"} -> <<m.order>>
      [] m.method = "ProcessOrders" -> m.orders
      [] m.method = "ImportOrders" -> [i \in DOMAIN m.orders |-> m.orders[i].order]
      [] OTHER -> <<>>

Target(c, i) == Targets(msg[c])[i]

Returning(c) == msg[c].method = "ProcessOrders" /\ msg[c].action = "RETURN"

\* A full queue makes the goroutine of the call run the job itself, without
\* a look at the context.
Begin(c) ==
    /\ handler[c] = "queued"
    /\ handler' = [handler EXCEPT ![c] = "running"]
    /\ began' = IF Returning(c) THEN [began EXCEPT ![c] = clock] ELSE began
    /\ item' = [item EXCEPT ![c] =
                  [i \in DOMAIN Targets(msg[c]) |-> [stage |-> "waiting", change |-> None]]]
    /\ UNCHANGED <<tables, clock, spent, counted, msg, expired, failure, outcome, answer>>

-----------------------------------------------------------------------------
(* One item: AcceptOrder, issueSingle, returnSingle, ReturnOrderToDelivery.*)

Accepting(c) == msg[c].method \in {"AcceptOrder", "ImportOrders"}

\* The order an item accepts.  ImportOrders passes the deadline on as a date,
\* which is read as the first instant of that day.
Order(c, i) == IF msg[c].method = "ImportOrders" THEN msg[c].orders[i] ELSE msg[c]

StorageUntil(c, i) ==
    IF msg[c].method = "ImportOrders"
    THEN Order(c, i).expires - (Order(c, i).expires % Day)
    ELSE Order(c, i).expires

Code(c, i) == mapPackageTypeToString(Order(c, i).package)

AcceptError(c, i, found) ==
    FirstFailed(<<Check(found, "AlreadyExists"),
                  Check(TooHeavy(Code(c, i), Order(c, i).weight), "WeightTooHeavy")>>)

IssueError(o, user, e, now) ==
    FirstFailed(<<Check(terms[o].receiver # user, "BelongsToOtherReceiver"),
                  Check(e.status = GivenToClient, "AlreadyGiven"),
                  Check(e.status = ReturnedFromClient, "UnavaliableReturned"),
                  Check(now > terms[o].until, "StorageExpired")>>)

\* Faulty variant: the return window is not looked at.
ReturnErrorEver(o, user, e, now) ==
    FirstFailed(<<Check(terms[o].receiver # user, "BelongsToOtherReceiver"),
                  Check(e.status \in {InStorage, ReturnedFromClient}, "AlreadyInStorage")>>)

ReturnError(o, user, e, now) ==
    FirstFailed(<<Check(terms[o].receiver # user, "BelongsToOtherReceiver"),
                  Check(e.status \in {InStorage, ReturnedFromClient}, "AlreadyInStorage"),
                  Check(now > e.at + ReturnWindow, "ReturnPeriodExpired")>>)

CourierError(o, e, now) ==
    FirstFailed(<<Check(e.status \notin {InStorage, ReturnedFromClient}, "ValidationFailed"),
                  Check(now < terms[o].until, "StorageNotExpired")>>)

Verdict(error, status, at) == [error |-> error, change |-> [status |-> status, at |-> at]]

\* What the operation decides about version `e' of order o.  The clock is
\* read for each item of an issue, once for all items of a return, and twice
\* by ReturnOrderToDelivery (Stamp).
Judge(c, o, e) ==
    CASE msg[c].method = "ReturnOrder" ->
           Verdict(CourierError(o, e, clock),
                   IF e.status = ReturnedFromClient THEN GivenToCourier
                   ELSE ReturnedWithoutClient, clock)
      [] msg[c].method = "ProcessOrders" /\ msg[c].action = "ISSUE" ->
           Verdict(IssueError(o, msg[c].user, e, clock), GivenToClient, clock)
      [] OTHER ->
           Verdict(ReturnError(o, msg[c].user, e, began[c]), ReturnedFromClient, began[c])

\* The operation decides on a version the order has, or had: the cache can
\* be behind.  A failed lookup is no order to AcceptOrder.
Verdicts(c, i) ==
    LET o == Target(c, i)
    IN IF Accepting(c)
       THEN {Verdict(AcceptError(c, i, found), InStorage, clock) :
               found \in {FALSE, terms[o] # None}}
       ELSE IF terms[o] = None THEN {Verdict("NotFound", None, clock)}
       ELSE {Judge(c, o, ledger[o][k]) : k \in DOMAIN ledger[o]}

Stage(c, i) == item[c][i].stage
At(c, stage) == {i \in DOMAIN item[c] : Stage(c, i) = stage}

Move(c, i, stage, change) ==
    item' = [item EXCEPT ![c][i] = [stage |-> stage, change |-> change]]

\* The group keeps its first error and cancels the context of the others.
Fails(c, i, code) ==
    /\ Move(c, i, "failed", None)
    /\ failure' = [failure EXCEPT ![c] =
                     IF @ = None THEN [code |-> code, order |-> Target(c, i)] ELSE @]

Cancelled(c) == c \in expired \/ failure[c] # None

\* A transaction is not begun on a context that is done.
Decide(c, i) ==
    /\ handler[c] = "running" /\ Stage(c, i) = "waiting"
    /\ Cardinality(At(c, "committing")) < WorkerLimit
    /\ \E v \in Verdicts(c, i) :
          \/ v.error # None /\ Fails(c, i, v.error)
          \/ /\ v.error = None /\ ~Cancelled(c)
             /\ Move(c, i, "committing", v.change)
             /\ UNCHANGED failure
    /\ UNCHANGED <<tables, clock, spent, counted, msg, handler, began, expired,
                   outcome, answer>>

\* ReturnOrderToDelivery reads the clock once for its check and again for
\* LastUpdateTime, at the same instant or at any later one.
Stamp(c, i) ==
    /\ handler[c] = "running" /\ Stage(c, i) = "committing"
    /\ msg[c].method = "ReturnOrder" /\ item[c][i].change.at < clock
    /\ Move(c, i, "committing", [item[c][i].change EXCEPT !.at = clock])
    /\ UNCHANGED <<tables, clock, spent, counted, msg, handler, began, expired, failure,
                   outcome, answer>>

Count(n, by) == counted' = [counted EXCEPT ![n] = @ + by]

\* The rows, the line of the history and the event.
WriteTables(c, i) ==
    LET o == Target(c, i)
        change == item[c][i].change
    IN /\ IF Accepting(c)
            THEN /\ terms' = [terms EXCEPT ![o] =
                               [receiver |-> Order(c, i).user, until |-> StorageUntil(c, i)]]
                 /\ parcel' = [parcel EXCEPT ![o] =
                               [weight |-> Order(c, i).weight, code |-> Code(c, i),
                                price |-> TotalPrice(Code(c, i), Order(c, i).price)]]
            ELSE UNCHANGED <<terms, parcel>>
       /\ ledger' = [ledger EXCEPT ![o] = Append(@, change)]
       /\ notices' = [notices EXCEPT ![o] =
                        Append(@, [type |-> EventType(change.status),
                                   user |-> terms'[o].receiver])]

\* ON CONFLICT DO NOTHING; a row that is inserted must refer to package_types.
InsertError(c, i) ==
    FirstFailed(<<Check(terms[Target(c, i)] # None, "AlreadyExists"),
                  Check(~Storable(Code(c, i)), "Plain")>>)

Refuse(c, i) ==
    /\ handler[c] = "running" /\ Stage(c, i) = "committing"
    /\ Accepting(c) /\ InsertError(c, i) # None
    /\ Fails(c, i, InsertError(c, i))
    /\ UNCHANGED <<tables, clock, spent, counted, msg, handler, began, expired,
                   outcome, answer>>

MayCommit(c, i) ==
    /\ handler[c] = "running" /\ Stage(c, i) = "committing"
    /\ Accepting(c) => InsertError(c, i) = None

\* AcceptOrder counts after its commit, ReturnOrderToDelivery before it, the
\* batches when they are over.
Commit(c, i) ==
    /\ MayCommit(c, i)
    /\ WriteTables(c, i)
    /\ Move(c, i, "done", item[c][i].change)
    /\ CASE Accepting(c) -> Count("accepted", 1)
         [] msg[c].method = "ReturnOrder" -> Count("to_courier", 1)
         [] OTHER -> UNCHANGED counted
    /\ UNCHANGED <<clock, spent, msg, handler, began, expired, failure, outcome, answer>>

\* The change is committed, but the operation is told that it is not.
Lose(c, i) ==
    /\ MayCommit(c, i)
    /\ WriteTables(c, i)
    /\ Move(c, i, "lost", item[c][i].change)
    /\ failure' = [failure EXCEPT ![c] =
                     IF @ = None THEN [code |-> "Plain", order |-> Target(c, i)] ELSE @]
    /\ IF msg[c].method = "ReturnOrder" THEN Count("to_courier", 1) ELSE UNCHANGED counted
    /\ UNCHANGED <<clock, spent, msg, handler, began, expired, outcome, answer>>

\* A query, a statement or the commit fails, or the item finds the context
\* done while it waits for its turn.
Break(c, i) ==
    /\ handler[c] = "running" /\ Stage(c, i) \in {"waiting", "committing"}
    /\ Fails(c, i, "Plain")
    /\ \/ UNCHANGED counted
       \/ /\ msg[c].method = "ReturnOrder" /\ Stage(c, i) = "committing"
          /\ Count("to_courier", 1)
    /\ UNCHANGED <<tables, clock, spent, msg, handler, began, expired, outcome, answer>>

-----------------------------------------------------------------------------
(* The end of a batch, and its report.                                     *)

Ok(c, value) == Return(c, "OK", value)

\* The ids of the request that the error mentions.
MentionedIn(error, orders) == SelectSeq(orders, LAMBDA o : Mentions(error, o))

\* processImportErrors: what is not mentioned is called imported.
ImportResult(error, orders) ==
    LET errors == IF error = None THEN <<>> ELSE MentionedIn(error, orders)
    IN [imported |-> Len(orders) - Len(errors), errors |-> errors]

\* The status in an answer is the new one, as far as the contract has it.
Response(m) ==
    CASE m.method = "AcceptOrder" -> [order |-> m.order, status |-> mapDomainStatusToProto(InStorage)]
      [] m.method = "ReturnOrder" -> [order |-> m.order, status |-> mapDomainStatusToProto(GivenToCourier)]
      [] m.method = "ProcessOrders" -> [processed |-> m.orders]

Batches == [ISSUE |-> "issued", RETURN |-> "by_client"]

\* Faulty variant: the batch counters count the items that failed, too.
FinishCountsAll(c) ==
    /\ handler[c] = "running" /\ msg[c].method \in Writes
    /\ \A i \in DOMAIN item[c] : Stage(c, i) \in {"done", "lost", "failed"}
    /\ CASE msg[c].method = "ImportOrders" ->
              Ok(c, ImportResult(failure[c], Targets(msg[c])))
         [] msg[c].method # "ImportOrders" /\ failure[c] = None -> Ok(c, Response(msg[c]))
         [] msg[c].method = "ProcessOrders" /\ failure[c] # None -> Return(c, "Plain", None)
         [] OTHER -> Return(c, failure[c].code, None)
    /\ IF msg[c].method = "ProcessOrders"
         THEN Count(Batches[msg[c].action], Len(item[c])) ELSE UNCHANGED counted
    /\ UNCHANGED <<tables, clock, spent, msg, began, expired, batch, answer>>

\* Of an error of ProcessOrders only its text is left (processErrors); its
\* report is dropped with the response.
Finish(c) ==
    /\ handler[c] = "running" /\ msg[c].method \in Writes
    /\ \A i \in DOMAIN item[c] : Stage(c, i) \in {"done", "lost", "failed"}
    /\ CASE msg[c].method = "ImportOrders" ->
              Ok(c, ImportResult(failure[c], Targets(msg[c])))
         [] msg[c].method # "ImportOrders" /\ failure[c] = None -> Ok(c, Response(msg[c]))
         [] msg[c].method = "ProcessOrders" /\ failure[c] # None -> Return(c, "Plain", None)
         [] OTHER -> Return(c, failure[c].code, None)
    /\ IF msg[c].method = "ProcessOrders"
         THEN Count(Batches[msg[c].action], Cardinality(At(c, "done")))
         ELSE UNCHANGED counted
    /\ UNCHANGED <<tables, clock, spent, msg, began, expired, batch, answer>>

-----------------------------------------------------------------------------
(* The lists.                                                              *)

Known == {o \in Orders : terms[o] # None}

Row(o) == [order |-> o, user |-> terms[o].receiver, until |-> terms[o].until,
           status |-> Last(ledger[o]).status, at |-> Last(ledger[o]).at,
           weight |-> parcel[o].weight, price |-> parcel[o].price,
           code |-> parcel[o].code]

Rows == {Row(o) : o \in Known}

Lines(o) == IF terms[o] = None THEN {} ELSE Range(ledger[o])

Shown(page) == [i \in DOMAIN page |-> mapDomainOrderToProto(page[i])]

Change(order, r) == [order |-> order, status |-> mapDomainStatusToProto(r.status), at |-> r.at]

\* What the handler of a list can answer.
Answers(m) ==
    CASE m.method = "ListOrders" ->
           {[orders |-> Shown(l.page), total |-> l.total] : l \in GetReceiverOrders(Rows, m)}
      [] m.method = "ListReturns" -> {[returns |-> Shown(p)] : p \in GetReturnedOrders(Rows, m)}
      [] m.method = "GetHistory" ->
           {[history |-> [i \in DOMAIN p |-> Change(p[i].order, p[i])]] :
              p \in GetOrderHistory(Rows, m)}
      [] m.method = "GetOrderHistory" ->
           {[history |-> [i \in DOMAIN p |-> Change(m.order, p[i])]] :
              p \in GetOrderHistoryByID(Lines(m.order))}

Reading(c) == handler[c] = "running" /\ msg[c].method \notin Writes

Read(c) ==
    /\ Reading(c)
    /\ \E value \in Answers(msg[c]) :
          IF msg[c].method = "GetOrderHistory" /\ value.history = <<>>
          THEN Return(c, "NotFound", None) ELSE Ok(c, value)
    /\ UNCHANGED <<tables, clock, spent, counted, msg, began, expired, batch, answer>>

ReadFails(c) ==
    /\ Reading(c)
    /\ Return(c, "Plain", None)
    /\ UNCHANGED <<tables, clock, spent, counted, msg, began, expired, batch, answer>>

-----------------------------------------------------------------------------
(* The answer.                                                             *)

\* The interceptors return; the context is done.
Over(c) ==
    /\ expired' = expired \cup {c}
    /\ outcome' = [outcome EXCEPT ![c] = None]

\* Faulty variant: whatever comes too late is called a missed deadline.
RespondLate(c) ==
    /\ handler[c] = "finished" /\ answer[c] = None
    /\ CASE c \in expired -> Tell(c, "DeadlineExceeded", None)
         [] c \notin expired /\ outcome[c].code # "OK" ->
                Tell(c, MapErrorToGRPCStatus(outcome[c].code), None)
         [] OTHER -> Tell(c, "OK", outcome[c].value)
    /\ Over(c)
    /\ UNCHANGED <<tables, clock, spent, counted, msg, handler, began, batch>>

\* PoolInterceptor takes the result; its error is mapped; TimeoutInterceptor
\* replaces a success that comes too late, and nothing else.
Respond(c) ==
    /\ handler[c] = "finished" /\ answer[c] = None
    /\ CASE outcome[c].code # "OK" -> Tell(c, MapErrorToGRPCStatus(outcome[c].code), None)
         [] outcome[c].code = "OK" /\ c \in expired -> Tell(c, "DeadlineExceeded", None)
         [] OTHER -> Tell(c, "OK", outcome[c].value)
    /\ Over(c)
    /\ UNCHANGED <<tables, clock, spent, counted, msg, handler, began, batch>>

\* PoolInterceptor gives up on the result; the error of the context is mapped
\* like any other.
TimeOut(c) ==
    /\ handler[c] # "none" /\ answer[c] = None
    /\ c \in expired
    /\ Tell(c, MapErrorToGRPCStatus("Plain"), None)
    /\ Over(c)
    /\ UNCHANGED <<tables, clock, spent, counted, msg, handler, began, batch>>

-----------------------------------------------------------------------------
Tick ==
    /\ clock < MaxTime
    /\ clock' = clock + 1
    /\ UNCHANGED <<tables, spent, counted, msg, handler, began, expired, batch,
                   outcome, answer>>

\* The limiter matters while calls are still to arrive.
NewPeriod ==
    /\ spent > 0 /\ \E c \in Calls : msg[c] = None /\ answer[c] = None
    /\ spent' = 0
    /\ UNCHANGED <<tables, clock, counted, msg, handler, began, expired, batch,
                   outcome, answer>>

Rest ==
    /\ \A c \in Calls : answer[c] # None /\ handler[c] \in {"none", "finished"}
    /\ UNCHANGED vars

Next ==
    \/ \E c \in Calls :
          \/ RejectLimited(c) \/ \E m \in Messages[c] : RejectInvalid(c, m) \/ Submit(c, m)
          \/ Expire(c) \/ Skip(c) \/ Begin(c)
          \/ \E i \in DOMAIN item[c] : Decide(c, i) \/ Stamp(c, i) \/ Refuse(c, i)
                                      \/ Commit(c, i) \/ Lose(c, i) \/ Break(c, i)
          \/ Finish(c) \/ Read(c) \/ ReadFails(c) \/ Respond(c) \/ TimeOut(c)
    \/ Tick \/ NewPeriod \/ Rest

Spec == Init /\ [][Next]_vars

-----------------------------------------------------------------------------
(* What an instance may contain.                                           *)

Errors == Naming \cup {"NotFound", "ValidationFailed", "WeightTooHeavy", "Plain"}
Changes == [status : Statuses, at : 0..MaxTime]

\* The parcels a request brings.
Parcels(m) ==
    CASE m.method = "AcceptOrder" -> {m}
      [] m.method = "ImportOrders" -> {m.orders[i] : i \in DOMAIN m.orders}
      [] OTHER -> {}

\* What a message that passes the rules speaks of.
WellFormed(m) ==
    /\ Targets(m) \in Seq(Orders)
    /\ m.method = "ProcessOrders" => m.action \in ActionTypes
    /\ \A p \in Parcels(m) : /\ p.user \in Receivers /\ p.expires \in 0..Horizon
                             /\ p.weight \in Nat /\ p.price \in Nat

\* An order has a row when it has a history.
TablesFit(t) ==
    /\ t.terms \in [Orders -> [receiver : Receivers, until : 0..Horizon] \cup {None}]
    /\ t.ledger \in [Orders -> Seq(Changes)]
    /\ \A o \in Orders : t.terms[o] = None <=> t.ledger[o] = <<>>
    /\ DOMAIN t.parcel = Orders
    /\ \A o \in Orders : t.terms[o] # None =>
          t.parcel[o] \in [weight : Nat, code : Codes, price : Nat]

ASSUME InstanceAssumption ==
    /\ \A c \in Calls : \A m \in Messages[c] : \A now \in 0..MaxTime :
          ValidateAll(m, now) = {} => WellFormed(m)
    /\ \A t \in Tables : TablesFit(t)
    /\ \A c \in Calls : None \notin Messages[c]
    /\ None \notin Changes /\ None \notin Errors
    /\ None \notin [receiver : Receivers, until : 0..Horizon]
    /\ None \notin [code : Errors, order : Orders]

\* Pages and counts are of type uint32, and Paginate reckons in uint64.
ASSUME PagesFitAWord ==
    \E half \in 1..Word :
        /\ Word = half * half
        /\ \A c \in Calls : \A m \in Messages[c] :
              m.method \in {"ListReturns", "GetHistory"} /\ m.pagination # Absent =>
                 m.pagination.page \in 0..half - 1 /\ m.pagination.count \in 0..half - 1

-----------------------------------------------------------------------------
(* Properties.                                                             *)

Ledger == INSTANCE OrderLedger WITH Deadlines <- 0..Horizon, Times <- 0..MaxTime,
                                    Sequential <- FALSE

Replies == {"OK", "DeadlineExceeded", "ResourceExhausted", "InvalidArgument",
            "NotFound", "AlreadyExists", "FailedPrecondition", "Internal"}

\* Every variable has its type; the last line of an order gives its status.
TypeOK ==
    /\ terms \in [Orders -> [receiver : Receivers, until : 0..Horizon] \cup {None}]
    /\ ledger \in [Orders -> Seq(Changes)]
    /\ \A o \in Orders : terms[o] = None <=> ledger[o] = <<>>
    /\ \A o \in Known : parcel[o] \in [weight : Nat, code : Codes, price : Nat]
    /\ clock \in 0..MaxTime /\ spent \in 0..Limit
    /\ counted \in [Counters -> Nat]
    /\ \A c \in Calls : msg[c] \in Messages[c] \cup {None}
    /\ handler \in [Calls -> {"none", "queued", "running", "finished"}]
    /\ began \in [Calls -> 0..MaxTime]
    /\ expired \subseteq Calls
    /\ \A c \in Calls :
          /\ \A i \in DOMAIN item[c] :
                /\ Stage(c, i) \in {"waiting", "committing", "done", "lost", "failed"}
                /\ item[c][i].change \in Changes \cup {None}
          /\ failure[c] # None => failure[c].code \in Errors
          /\ answer[c] # None => answer[c].code \in Replies

\* What the client is told is true.  Success, and a deadline that was missed
\* after success, mean that every change of the request is committed, also
\* when a batch was cut short or answered late; an error that names a reason
\* means that the request has changed nothing and will change nothing.
\* (InvalidArgument, which also stands for time-outs and for failures of the
\* database, and the report of an import mean neither.)
AnswersAreTrue ==
    \A c \in Calls : answer[c] # None =>
        /\ answer[c].code \in {"OK", "DeadlineExceeded"} /\ msg[c].method \in Writes \ {"ImportOrders"}
              => At(c, "done") = DOMAIN Targets(msg[c])
        /\ answer[c].code \in {"NotFound", "AlreadyExists", "FailedPrecondition",
                              "Internal", "ResourceExhausted"}
              => \A i \in DOMAIN item[c] : Stage(c, i) = "failed"

\* The items in one of the stages whose change, if any, leads to one of the
\* statuses.
Items(stages, statuses) ==
    {x \in UNION {{c} \X DOMAIN item[c] : c \in Calls} :
        LET change == item[x[1]][x[2]].change
        IN /\ Stage(x[1], x[2]) \in stages
           /\ change # None => change.status \in statuses}

\* The business counters follow the ledger through failures, time-outs and
\* batches that end half-way: what is counted was committed, what was
\* committed and not lost is counted when its handler has finished, and no
\* return to the courier is missing.
CountersFollowTheLedger ==
    LET over(items) == {x \in items : handler[x[1]] = "finished"}
    IN /\ counted["accepted"] = Cardinality(Items({"done"}, {InStorage}))
       /\ counted["issued"] = Cardinality(over(Items({"done"}, {GivenToClient})))
       /\ counted["by_client"] = Cardinality(over(Items({"done"}, {ReturnedFromClient})))
       /\ counted["to_courier"] >= Cardinality(Items({"done", "lost"}, CourierStatuses))

\* An order is stored and shown as it was sent: its package, its deadline (an
\* import keeps the date of it), its weight, and its price with the one of the
\* package.  No weight is above the limit of its package; one AT the limit is
\* stored, although the documents want it refused (README, section 5).
StoredAsSent ==
    \A c \in Calls : \A i \in DOMAIN item[c] :
        Accepting(c) /\ Stage(c, i) \in {"done", "lost"} =>
            LET sent == Order(c, i)
                shown == mapDomainOrderToProto(Row(sent.order))
                limit == PackageTypes[Code(c, i)].max
            IN /\ shown.user = sent.user /\ shown.package = sent.package
               /\ shown.weight = sent.weight /\ sent.weight > 0
               /\ limit > 0 => sent.weight <= limit
               /\ shown.price > sent.price /\ sent.price > 0
               /\ shown.expires \in {sent.expires, sent.expires - (sent.expires % Day)}

IsPage(orders, p, rows) ==
    LET before == (IF p.page = 0 THEN 0 ELSE p.page - 1) * p.count
        left == IF Cardinality(rows) > before THEN Cardinality(rows) - before ELSE 0
    IN /\ Len(orders) = Least(left, p.count)
       /\ \A i \in DOMAIN orders : HasRank(Row(orders[i]), before + i, rows)
       /\ \A i, j \in DOMAIN orders : i # j => orders[i] # orders[j]

\* The pages of returns and of the history are those of the list sorted from
\* the newest change to the oldest: the i-th order of page p is of rank
\* (p - 1) * count + i, and no order is on a page twice.
ListsAreCutIntoPages ==
    [][\A c \in Calls :
         Reading(c) /\ outcome'[c] # None /\ outcome'[c].code = "OK" =>
            LET m == msg[c]
                value == outcome'[c].value
                orders(shown) == [i \in DOMAIN shown |-> shown[i].order]
            IN /\ m.method = "ListReturns" /\ m.pagination # Absent =>
                     IsPage(orders(value.returns), m.pagination, Returned(Rows))
               /\ m.method = "GetHistory" /\ m.pagination # Absent =>
                     IsPage(orders(value.history), m.pagination, Rows)]_vars

\* Whatever the calls do at the same time, the server changes orders as the
\* ledger does: lawfully for a version the order had, or by the one exception
\* of the ledger (Revive, which the documents refuse).  Most steps leave the
\* ledger alone; the first disjunct spares TLC the search for a change.
ImplementsLedger ==
    [][UNCHANGED <<terms, ledger, notices>> \/ Ledger!Next]_<<terms, ledger, notices>>
=============================================================================
