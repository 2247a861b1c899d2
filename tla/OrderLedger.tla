----------------------------- MODULE OrderLedger -----------------------------
(***************************************************************************)
(* What the order service promises, without calls, transactions or caches: *)
(* a ledger of status changes per order, to which every change is appended *)
(* together with its notice, in one atomic step.                           *)
(*                                                                         *)
(* The service decides on a version of the order that it read before its   *)
(* transaction, so a change follows from SOME version the order has had,   *)
(* and from the LAST one only when calls do not overlap (Sequential).      *)
(*                                                                         *)
(* Lawful is what the documents promise.  The service keeps to it with one *)
(* exception, the action Revive: it issues and takes back orders that are  *)
(* with the courier.  The documents refuse that (README, section 5).       *)
(***************************************************************************)
EXTENDS OrderTypes, Sequences

CONSTANTS Orders, Receivers, Deadlines, None,
          Times,            \* instants a change can be stamped with
          ReturnWindow,     \* how long after its last change an order can come back
          Sequential        \* TRUE: a change follows from the last version

VARIABLES terms,            \* [Orders -> receiver and storage limit, or None]
          ledger,           \* [Orders -> Seq(Entries)]
          notices           \* [Orders -> events promised to the outbox]

vars == <<terms, ledger, notices>>

Terms == [receiver : Receivers, until : Deadlines]

\* A change to status `s' stamped `at' is lawful for an order whose version
\* is `e' and whose storage limit is `until': an order in storage is issued
\* before its limit or goes back to the courier after it, and an order that
\* was issued comes back within the window.
Lawful(e, s, at, until) ==
    \/ /\ s = GivenToClient
       /\ e.status = InStorage
       /\ at <= until
    \/ /\ s = ReturnedFromClient
       /\ e.status = GivenToClient
       /\ at <= e.at + ReturnWindow
    \/ /\ s = ReturnedWithoutClient
       /\ e.status = InStorage
       /\ at >= until
    \/ /\ s = GivenToCourier
       /\ e.status = ReturnedFromClient
       /\ at >= until

\* A change that the documents refuse and the service makes: its checks name
\* the statuses they exclude, and those of the courier are not among them.
Revival(e, s, at, until) ==
    /\ e.status \in CourierStatuses
    /\ \/ /\ s = GivenToClient
          /\ at <= until
       \/ /\ s = ReturnedFromClient
          /\ at <= e.at + ReturnWindow

\* The versions a change may have been decided on, and whether its stamp may
\* precede the one of the change before it.
Grounds(o) ==
    IF Sequential THEN {Len(ledger[o])} ELSE 1..Len(ledger[o])

InOrder(o, at) ==
    Sequential => at >= ledger[o][Len(ledger[o])].at

Record(o, s, at) ==
    /\ ledger' = [ledger EXCEPT ![o] = Append(@, [status |-> s, at |-> at])]
    /\ notices' = [notices EXCEPT ![o] =
                     Append(@, [type |-> EventType(s), user |-> terms'[o].receiver])]

Init ==
    /\ terms = [o \in Orders |-> None]
    /\ ledger = [o \in Orders |-> <<>>]
    /\ notices = [o \in Orders |-> <<>>]

Accept(o, t, at) ==
    /\ terms[o] = None
    /\ terms' = [terms EXCEPT ![o] = t]
    /\ Record(o, InStorage, at)

Change(o, s, at) ==
    /\ terms[o] # None
    /\ InOrder(o, at)
    /\ UNCHANGED terms
    /\ Record(o, s, at)

Move(o, s, at) ==
    /\ Change(o, s, at)
    /\ \E i \in Grounds(o) : Lawful(ledger[o][i], s, at, terms[o].until)

\* The exception.
Revive(o, s, at) ==
    /\ Change(o, s, at)
    /\ \E i \in Grounds(o) : Revival(ledger[o][i], s, at, terms[o].until)

Next ==
    \E o \in Orders, at \in Times :
        \/ \E t \in Terms : Accept(o, t, at)
        \/ \E s \in Statuses : Move(o, s, at) \/ Revive(o, s, at)

Spec == Init /\ [][Next]_vars
=============================================================================
