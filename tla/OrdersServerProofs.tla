------------------------- MODULE OrdersServerProofs --------------------------
(***************************************************************************)
(* The server, for any calls, requests and tables, any number of items at  *)
(* work and any limits: that it implements the ledger, and that what       *)
(* clients are told is true.                                               *)
(***************************************************************************)
EXTENDS OrdersServer, FiniteSetTheorems, TLAPS

\* Variables are functions of the calls, and of the orders.
Domains ==
    /\ DOMAIN msg = Calls /\ DOMAIN item = Calls /\ DOMAIN failure = Calls
    /\ DOMAIN outcome = Calls /\ DOMAIN answer = Calls
    /\ DOMAIN parcel = Orders

\* A call has a message when it was let in, and items when it runs.
CallsOK ==
    \A c \in Calls :
        /\ msg[c] = None <=> handler[c] = "none"
        /\ handler[c] # "none" => WellFormed(msg[c])
        /\ handler[c] \in {"none", "queued"} => item[c] = <<>> /\ failure[c] = None
        /\ handler[c] = "running" => DOMAIN item[c] = DOMAIN Targets(msg[c])
        /\ handler[c] = "finished" =>
              item[c] = <<>> \/ DOMAIN item[c] = DOMAIN Targets(msg[c])

\* A change the checks let pass: a lawful one, or the exception of the ledger.
Warranted(e, s, at, until) ==
    Ledger!Lawful(e, s, at, until) \/ Ledger!Revival(e, s, at, until)

\* The change is warranted by a version the order has, or had.
Grounded(o, change) ==
    /\ terms[o] # None
    /\ \E k \in 1..Len(ledger[o]) :
          Warranted(ledger[o][k], change.status, change.at, terms[o].until)

\* ReturnOrderToDelivery is at work.
Couriering(c) == msg[c].method = "ReturnOrder"

\* An item at work has decided on what it is going to commit.
ItemsOK ==
    \A c \in Calls : \A i \in DOMAIN item[c] :
        Stage(c, i) = "committing" =>
            /\ item[c][i].change \in Changes
            /\ Accepting(c) => item[c][i].change.status = InStorage
            /\ ~Accepting(c) => Grounded(Target(c, i), item[c][i].change)
            /\ Couriering(c) => item[c][i].change.status \in CourierStatuses

\* An error is kept when there is one, and one that names a reason comes from
\* an item that has failed.
FailuresOK ==
    \A c \in Calls :
        /\ failure[c] \in [code : Errors, order : Orders] \cup {None}
        /\ (\E i \in DOMAIN item[c] : Stage(c, i) \in {"failed", "lost"})
              => failure[c] # None
        /\ failure[c] # None /\ failure[c].code # "Plain"
              => \E i \in DOMAIN item[c] : Stage(c, i) = "failed"

\* The inductive invariant.
Inv == TypeOK /\ Domains /\ CallsOK /\ ItemsOK /\ FailuresOK

-----------------------------------------------------------------------------
(* The checks of the operations.                                           *)

\* Of at most four checks the first one that fails is there to be found.
LEMMA FirstFailure ==
  ASSUME NEW n \in 1..4, NEW checks, DOMAIN checks = 1..n,
         \A i \in 1..n : checks[i].code \in Errors
  PROVE  /\ FirstFailed(checks) \in Errors \cup {None}
         /\ FirstFailed(checks) = None => \A i \in 1..n : ~checks[i].fails
<1> DEFINE failed == {i \in DOMAIN checks : checks[i].fails}
<1>1. CASE failed = {}
  <2>1. FirstFailed(checks) = None
    BY <1>1 DEF FirstFailed
  <2>2. \A i \in 1..n : ~checks[i].fails
    BY <1>1
  <2>3. QED
    BY <2>1, <2>2
<1>2. CASE failed # {}
  <2>1. failed \in SUBSET (1..4)
    OBVIOUS
  <2> HIDE DEF failed
  <2>2. \E x \in failed : \A y \in failed : x <= y
    <3>1. CASE 1 \in failed
      BY <2>1, <3>1
    <3>2. CASE 1 \notin failed /\ 2 \in failed
      BY <2>1, <3>2
    <3>3. CASE 1 \notin failed /\ 2 \notin failed /\ 3 \in failed
      BY <2>1, <3>3
    <3>4. CASE 1 \notin failed /\ 2 \notin failed /\ 3 \notin failed
      <4>1. \A x \in failed : x = 4
        BY <2>1, <3>4
      <4>2. QED
        BY <1>2, <4>1
    <3>5. QED
      BY <3>1, <3>2, <3>3, <3>4
  <2>3. Min(failed) \in failed
    BY <2>2 DEF Min
  <2>4. FirstFailed(checks) = checks[Min(failed)].code
    BY <1>2 DEF FirstFailed, failed
  <2>5. Min(failed) \in 1..n
    BY <2>3 DEF failed
  <2>6. FirstFailed(checks) \in Errors
    BY <2>4, <2>5
  <2>7. QED
    BY <2>6, InstanceAssumption
<1>3. QED
  BY <1>1, <1>2

LEMMA AcceptCode ==
  ASSUME NEW c, NEW i, NEW found
  PROVE  AcceptError(c, i, found) \in Errors \cup {None}
<1> DEFINE checks == <<Check(found, "AlreadyExists"),
                       Check(TooHeavy(Code(c, i), Order(c, i).weight), "WeightTooHeavy")>>
<1>1. DOMAIN checks = 1..2 /\ \A k \in 1..2 : checks[k].code \in Errors
  BY DEF Check, Errors, Naming
<1>2. AcceptError(c, i, found) = FirstFailed(checks)
  BY DEF AcceptError
<1> HIDE DEF checks
<1>3. QED
  BY <1>1, <1>2, FirstFailure

LEMMA InsertCode ==
  ASSUME NEW c, NEW i
  PROVE  /\ InsertError(c, i) \in Errors \cup {None}
         /\ InsertError(c, i) = None => terms[Target(c, i)] = None /\ Storable(Code(c, i))
<1> DEFINE checks == <<Check(terms[Target(c, i)] # None, "AlreadyExists"),
                       Check(~Storable(Code(c, i)), "Plain")>>
<1>1. DOMAIN checks = 1..2 /\ \A k \in 1..2 : checks[k].code \in Errors
  BY DEF Check, Errors, Naming
<1>2. InsertError(c, i) = FirstFailed(checks)
  BY DEF InsertError
<1>3. /\ checks[1].fails = (terms[Target(c, i)] # None)
      /\ checks[2].fails = (~Storable(Code(c, i)))
  BY DEF Check
<1> HIDE DEF checks
<1>4. /\ FirstFailed(checks) \in Errors \cup {None}
      /\ FirstFailed(checks) = None => ~checks[1].fails /\ ~checks[2].fails
  BY <1>1, FirstFailure
<1>5. QED
  BY <1>2, <1>3, <1>4, Zenon

LEMMA IssueCode ==
  ASSUME NEW o, NEW user, NEW e, NEW now
  PROVE  /\ IssueError(o, user, e, now) \in Errors \cup {None}
         /\ IssueError(o, user, e, now) = None =>
              /\ e.status # GivenToClient /\ e.status # ReturnedFromClient
              /\ ~(now > terms[o].until)
<1> DEFINE checks == <<Check(terms[o].receiver # user, "BelongsToOtherReceiver"),
                       Check(e.status = GivenToClient, "AlreadyGiven"),
                       Check(e.status = ReturnedFromClient, "UnavaliableReturned"),
                       Check(now > terms[o].until, "StorageExpired")>>
<1>1. DOMAIN checks = 1..4 /\ \A k \in 1..4 : checks[k].code \in Errors
  BY DEF Check, Errors, Naming
<1>2. IssueError(o, user, e, now) = FirstFailed(checks)
  BY DEF IssueError
<1>3. /\ checks[2].fails = (e.status = GivenToClient)
      /\ checks[3].fails = (e.status = ReturnedFromClient)
      /\ checks[4].fails = (now > terms[o].until)
  BY DEF Check
<1> HIDE DEF checks
<1>4. /\ FirstFailed(checks) \in Errors \cup {None}
      /\ FirstFailed(checks) = None =>
            ~checks[2].fails /\ ~checks[3].fails /\ ~checks[4].fails
  BY <1>1, FirstFailure
<1>5. QED
  BY <1>2, <1>3, <1>4, Zenon

LEMMA ReturnCode ==
  ASSUME NEW o, NEW user, NEW e, NEW now
  PROVE  /\ ReturnError(o, user, e, now) \in Errors \cup {None}
         /\ ReturnError(o, user, e, now) = None =>
              /\ ~(e.status \in {InStorage, ReturnedFromClient})
              /\ ~(now > e.at + ReturnWindow)
<1> DEFINE checks == <<Check(terms[o].receiver # user, "BelongsToOtherReceiver"),
                       Check(e.status \in {InStorage, ReturnedFromClient}, "AlreadyInStorage"),
                       Check(now > e.at + ReturnWindow, "ReturnPeriodExpired")>>
<1>1. DOMAIN checks = 1..3 /\ \A k \in 1..3 : checks[k].code \in Errors
  BY DEF Check, Errors, Naming
<1>2. ReturnError(o, user, e, now) = FirstFailed(checks)
  BY DEF ReturnError
<1>3. /\ checks[2].fails = (e.status \in {InStorage, ReturnedFromClient})
      /\ checks[3].fails = (now > e.at + ReturnWindow)
  BY DEF Check
<1> HIDE DEF checks
<1>4. /\ FirstFailed(checks) \in Errors \cup {None}
      /\ FirstFailed(checks) = None => ~checks[2].fails /\ ~checks[3].fails
  BY <1>1, FirstFailure
<1>5. QED
  BY <1>2, <1>3, <1>4, Zenon

LEMMA CourierCode ==
  ASSUME NEW o, NEW e, NEW now
  PROVE  /\ CourierError(o, e, now) \in Errors \cup {None}
         /\ CourierError(o, e, now) = None =>
              /\ e.status \in {InStorage, ReturnedFromClient}
              /\ ~(now < terms[o].until)
<1> DEFINE checks == <<Check(e.status \notin {InStorage, ReturnedFromClient}, "ValidationFailed"),
                       Check(now < terms[o].until, "StorageNotExpired")>>
<1>1. DOMAIN checks = 1..2 /\ \A k \in 1..2 : checks[k].code \in Errors
  BY DEF Check, Errors, Naming
<1>2. CourierError(o, e, now) = FirstFailed(checks)
  BY DEF CourierError
<1>3. /\ checks[1].fails = (e.status \notin {InStorage, ReturnedFromClient})
      /\ checks[2].fails = (now < terms[o].until)
  BY DEF Check
<1> HIDE DEF checks
<1>4. /\ FirstFailed(checks) \in Errors \cup {None}
      /\ FirstFailed(checks) = None => ~checks[1].fails /\ ~checks[2].fails
  BY <1>1, FirstFailure
<1>5. QED
  BY <1>2, <1>3, <1>4, Zenon

\* The ledger and the server speak of the same statuses.
LEMMA SameNames ==
  /\ Ledger!InStorage = InStorage /\ Ledger!GivenToClient = GivenToClient
  /\ Ledger!ReturnedFromClient = ReturnedFromClient
  /\ Ledger!ReturnedWithoutClient = ReturnedWithoutClient
  /\ Ledger!GivenToCourier = GivenToCourier
  /\ Ledger!CourierStatuses = CourierStatuses /\ Ledger!Statuses = Statuses
  /\ \A s \in Statuses : Ledger!EventType(s) = EventType(s)
BY DEF InStorage, GivenToClient, ReturnedFromClient, ReturnedWithoutClient,
       GivenToCourier, CourierStatuses, Statuses, EventType,
       Ledger!InStorage, Ledger!GivenToClient, Ledger!ReturnedFromClient,
       Ledger!ReturnedWithoutClient, Ledger!GivenToCourier,
       Ledger!CourierStatuses, Ledger!Statuses, Ledger!EventType

\* What an operation decides without an error is warranted by the version it
\* decided on.
LEMMA JudgedLawfully ==
  ASSUME TypeOK, NEW c \in Calls, NEW o \in Orders, terms[o] # None,
         NEW e \in Changes
  PROVE  /\ Judge(c, o, e).error \in Errors \cup {None}
         /\ Judge(c, o, e).error = None =>
              /\ Judge(c, o, e).change \in Changes
              /\ Warranted(e, Judge(c, o, e).change.status,
                           Judge(c, o, e).change.at, terms[o].until)
              /\ Couriering(c) => Judge(c, o, e).change.status \in CourierStatuses
<1>1. /\ clock \in 0..MaxTime /\ began[c] \in 0..MaxTime
      /\ terms[o].until \in 0..Horizon /\ e.status \in Statuses /\ e.at \in 0..MaxTime
  BY DEF TypeOK, Changes
<1>0. /\ clock \in Nat /\ began[c] \in Nat /\ terms[o].until \in Nat
      /\ e.at \in Nat /\ ReturnWindow \in Nat
  BY <1>1, ServerAssumption
<1>2. CASE msg[c].method = "ReturnOrder"
  <2> DEFINE new == IF e.status = ReturnedFromClient THEN GivenToCourier
                    ELSE ReturnedWithoutClient
  <2>1. /\ Judge(c, o, e).error = CourierError(o, e, clock)
        /\ Judge(c, o, e).change = [status |-> new, at |-> clock]
    BY <1>2 DEF Judge, Verdict
  <2>2. [status |-> new, at |-> clock] \in Changes
    BY <1>1 DEF Changes, Statuses
  <2>3. CourierError(o, e, clock) = None => Warranted(e, new, clock, terms[o].until)
    <3>1. ASSUME CourierError(o, e, clock) = None
          PROVE  e.status \in {InStorage, ReturnedFromClient} /\ clock >= terms[o].until
      <4>1. e.status \in {InStorage, ReturnedFromClient} /\ ~(clock < terms[o].until)
        BY <3>1, CourierCode
      <4>2. QED
        BY <1>0, <4>1
    <3>2. InStorage # ReturnedFromClient
      BY DEF InStorage, ReturnedFromClient
    <3>3. QED
      BY <3>1, <3>2, SameNames DEF Warranted, Ledger!Lawful
  <2>4. new \in CourierStatuses
    BY DEF CourierStatuses
  <2> HIDE DEF new
  <2>5. QED
    BY <2>1, <2>2, <2>3, <2>4, CourierCode
<1>3. CASE msg[c].method = "ProcessOrders" /\ msg[c].action = "ISSUE"
  <2>1. /\ Judge(c, o, e).error = IssueError(o, msg[c].user, e, clock)
        /\ Judge(c, o, e).change = [status |-> GivenToClient, at |-> clock]
    BY <1>3 DEF Judge, Verdict
  <2>2. [status |-> GivenToClient, at |-> clock] \in Changes
    BY <1>1 DEF Changes, Statuses
  <2>3. IssueError(o, msg[c].user, e, clock) = None =>
            Warranted(e, GivenToClient, clock, terms[o].until)
    <3>1. IssueError(o, msg[c].user, e, clock) = None =>
              /\ e.status # GivenToClient /\ e.status # ReturnedFromClient
              /\ ~(clock > terms[o].until)
      BY IssueCode
    <3>2. clock > terms[o].until \/ clock <= terms[o].until
      BY <1>0
    <3>3. e.status \in {InStorage, GivenToClient, ReturnedFromClient} \cup CourierStatuses
      BY <1>1 DEF Statuses, CourierStatuses
    <3>4. QED
      BY <3>1, <3>2, <3>3, SameNames DEF Warranted, Ledger!Lawful, Ledger!Revival
  <2>4. QED
    BY <1>3, <2>1, <2>2, <2>3, IssueCode DEF Couriering
<1>4. CASE ~(msg[c].method = "ReturnOrder")
           /\ ~(msg[c].method = "ProcessOrders" /\ msg[c].action = "ISSUE")
  <2>1. /\ Judge(c, o, e).error = ReturnError(o, msg[c].user, e, began[c])
        /\ Judge(c, o, e).change = [status |-> ReturnedFromClient, at |-> began[c]]
    BY <1>4 DEF Judge, Verdict
  <2>2. [status |-> ReturnedFromClient, at |-> began[c]] \in Changes
    BY <1>1 DEF Changes, Statuses
  <2>3. ReturnError(o, msg[c].user, e, began[c]) = None =>
            Warranted(e, ReturnedFromClient, began[c], terms[o].until)
    <3>1. ReturnError(o, msg[c].user, e, began[c]) = None =>
              /\ ~(e.status \in {InStorage, ReturnedFromClient})
              /\ ~(began[c] > e.at + ReturnWindow)
      BY ReturnCode
    <3>2. began[c] > e.at + ReturnWindow \/ began[c] <= e.at + ReturnWindow
      BY <1>0
    <3>3. e.status \in {InStorage, GivenToClient, ReturnedFromClient} \cup CourierStatuses
      BY <1>1 DEF Statuses, CourierStatuses
    <3>4. QED
      BY <3>1, <3>2, <3>3, SameNames DEF Warranted, Ledger!Lawful, Ledger!Revival
  <2>4. QED
    BY <1>4, <2>1, <2>2, <2>3, ReturnCode DEF Couriering
<1>5. QED
  BY <1>2, <1>3, <1>4

-----------------------------------------------------------------------------
(* The steps that leave orders and items alone.                            *)

LEMMA AnItem ==
  ASSUME CallsOK, NEW c \in Calls, handler[c] \in {"none", "queued", "running", "finished"},
         NEW i \in DOMAIN item[c]
  PROVE  /\ handler[c] \in {"running", "finished"} /\ WellFormed(msg[c])
         /\ i \in DOMAIN Targets(msg[c]) /\ Targets(msg[c]) \in Seq(Orders)
         /\ Target(c, i) \in Orders
<1>1. item[c] # <<>>
  OBVIOUS
<1>2. handler[c] \in {"running", "finished"}
  BY <1>1 DEF CallsOK
<1>3. WellFormed(msg[c]) /\ i \in DOMAIN Targets(msg[c])
  BY <1>1, <1>2 DEF CallsOK
<1>4. Targets(msg[c]) \in Seq(Orders)
  BY <1>3 DEF WellFormed
<1>5. Targets(msg[c])[i] \in Orders
  BY <1>3, <1>4
<1>6. QED
  BY <1>2, <1>3, <1>4, <1>5 DEF Target

\* Items and failures stay what they are when nothing they speak of changes.
LEMMA ItemsKept ==
  ASSUME ItemsOK, FailuresOK, UNCHANGED <<terms, ledger, item, failure>>,
         \A c \in Calls : item[c] # <<>> => msg'[c] = msg[c]
  PROVE  ItemsOK' /\ FailuresOK'
<1>1. ASSUME NEW c \in Calls, NEW i \in DOMAIN item[c], Stage(c, i) = "committing"
      PROVE  /\ item[c][i].change \in Changes
             /\ Accepting(c)' => item[c][i].change.status = InStorage
             /\ ~Accepting(c)' => Grounded(Target(c, i), item[c][i].change)'
             /\ Couriering(c)' => item[c][i].change.status \in CourierStatuses
  <2>1. msg'[c] = msg[c]
    OBVIOUS
  <2>2. /\ Accepting(c)' = Accepting(c) /\ Target(c, i)' = Target(c, i)
        /\ Couriering(c)' = Couriering(c)
    BY <2>1 DEF Accepting, Target, Couriering
  <2>3. QED
    BY <1>1, <2>2 DEF ItemsOK, Grounded
<1>2. ItemsOK'
  BY <1>1 DEF ItemsOK, Stage
<1>3. FailuresOK'
  BY DEF FailuresOK, Stage
<1>4. QED
  BY <1>2, <1>3

\* What is told has one of the codes of Replies.
LEMMA Mapped == \A code : MapErrorToGRPCStatus(code) \in Replies
BY DEF MapErrorToGRPCStatus, Replies

LEMMA StepsOfInterceptors ==
  ASSUME Inv, NEW c \in Calls,
         \/ RejectLimited(c) \/ (\E m \in Messages[c] : RejectInvalid(c, m))
         \/ Expire(c) \/ Respond(c) \/ TimeOut(c)
  PROVE  Inv'
<1>1. /\ UNCHANGED <<tables, clock, counted, msg, handler, began, item, failure>>
      /\ DOMAIN outcome' = Calls
  BY DEF RejectLimited, RejectInvalid, Arrive, Expire, Respond, TimeOut, Over, Inv,
         Domains, batch
<1>2. spent' \in 0..Limit
  BY ServerAssumption DEF RejectLimited, RejectInvalid, Arrive, Expire, Respond,
                          TimeOut, Inv, TypeOK
<1>3. expired' \subseteq Calls
  BY DEF RejectLimited, RejectInvalid, Arrive, Expire, Respond, TimeOut, Over, Inv, TypeOK
<1>4. /\ DOMAIN answer' = Calls
      /\ \A d \in Calls : answer'[d] # None => answer'[d].code \in Replies
  <2>1. \/ UNCHANGED answer
        \/ \E value : \E code \in Replies : Tell(c, code, value)
    BY Mapped DEF RejectLimited, RejectInvalid, Arrive, Expire, Respond, TimeOut, Replies
  <2>2. QED
    BY <2>1 DEF Tell, Inv, TypeOK, Domains
<1>5. TypeOK'
  BY <1>1, <1>2, <1>3, <1>4 DEF Inv, TypeOK, Known, Stage, tables
<1>6. Domains' /\ CallsOK'
  BY <1>1, <1>4 DEF Inv, Domains, CallsOK, tables
<1>7. QED
  BY <1>1, <1>5, <1>6, ItemsKept DEF Inv, tables

LEMMA StepsOfTime ==
  ASSUME Inv, Tick \/ NewPeriod \/ UNCHANGED vars
  PROVE  Inv'
<1>1. UNCHANGED <<tables, counted, msg, handler, began, expired, item, failure, outcome, answer>>
  BY DEF Tick, NewPeriod, vars, batch
<1>2. clock' \in 0..MaxTime /\ spent' \in 0..Limit
  BY ServerAssumption DEF Tick, NewPeriod, vars, Inv, TypeOK
<1>3. TypeOK'
  BY <1>1, <1>2 DEF Inv, TypeOK, Known, Stage, tables
<1>4. Domains' /\ CallsOK'
  BY <1>1 DEF Inv, Domains, CallsOK, tables
<1>5. QED
  BY <1>1, <1>3, <1>4, ItemsKept DEF Inv, tables

LEMMA StepSubmit ==
  ASSUME Inv, NEW c \in Calls, NEW m \in Messages[c], Submit(c, m)
  PROVE  Inv'
<1>1. /\ UNCHANGED <<tables, clock, counted, began, expired, item, failure, outcome, answer>>
      /\ msg' = [msg EXCEPT ![c] = m] /\ handler' = [handler EXCEPT ![c] = "queued"]
      /\ msg[c] = None
  BY DEF Submit, Arrive, batch
<1>2. spent' \in 0..Limit
  BY ServerAssumption DEF Submit, Inv, TypeOK
<1>3. WellFormed(m) /\ m # None
  BY InstanceAssumption DEF Submit, Inv, TypeOK
<1>4. handler[c] = "none" /\ item[c] = <<>> /\ failure[c] = None
  BY <1>1 DEF Inv, CallsOK
<1>5. /\ msg'[c] = m /\ handler'[c] = "queued"
      /\ \A d \in Calls : d # c => msg'[d] = msg[d] /\ handler'[d] = handler[d]
      /\ DOMAIN msg' = Calls
  BY <1>1 DEF Inv, TypeOK, Domains
<1>6. TypeOK'
  BY <1>1, <1>2, <1>5 DEF Inv, TypeOK, Known, Stage, tables
<1>7. Domains' /\ CallsOK'
  BY <1>1, <1>3, <1>4, <1>5 DEF Inv, Domains, CallsOK, tables
<1>8. QED
  BY <1>1, <1>4, <1>5, <1>6, <1>7, ItemsKept DEF Inv, tables

LEMMA StepBegin ==
  ASSUME Inv, NEW c \in Calls, Begin(c)
  PROVE  Inv'
<1> DEFINE fresh == [i \in DOMAIN Targets(msg[c]) |-> [stage |-> "waiting", change |-> None]]
<1>1. /\ UNCHANGED <<tables, clock, spent, counted, msg, expired, failure, outcome, answer>>
      /\ handler' = [handler EXCEPT ![c] = "running"]
      /\ item' = [item EXCEPT ![c] = fresh]
      /\ handler[c] = "queued"
  BY DEF Begin
<1>2. began' \in [Calls -> 0..MaxTime]
  BY DEF Begin, Inv, TypeOK
<1>3. /\ item'[c] = fresh /\ handler'[c] = "running"
      /\ \A d \in Calls : d # c => item'[d] = item[d] /\ handler'[d] = handler[d]
      /\ DOMAIN item' = Calls
  BY <1>1 DEF Inv, TypeOK, Domains
<1>4. DOMAIN fresh = DOMAIN Targets(msg[c])
      /\ \A i \in DOMAIN fresh : fresh[i].stage = "waiting" /\ fresh[i].change = None
  OBVIOUS
<1> HIDE DEF fresh
<1>5. TypeOK'
  <2>1. ASSUME NEW d \in Calls, NEW i \in DOMAIN item'[d]
        PROVE  /\ Stage(d, i)' \in {"waiting", "committing", "done", "lost", "failed"}
               /\ item'[d][i].change \in Changes \cup {None}
    BY <1>3, <1>4, <2>1 DEF Inv, TypeOK, Stage
  <2>2. QED
    BY <1>1, <1>2, <2>1 DEF Inv, TypeOK, Known, tables
<1>6. Domains' /\ CallsOK'
  BY <1>1, <1>3, <1>4 DEF Inv, Domains, CallsOK, tables
<1>7. ItemsOK'
  <2>1. ASSUME NEW d \in Calls, NEW i \in DOMAIN item'[d], Stage(d, i)' = "committing"
        PROVE  d # c /\ item'[d] = item[d] /\ Stage(d, i) = "committing"
    BY <1>3, <1>4, <2>1 DEF Stage
  <2>2. QED
    BY <1>1, <2>1 DEF Inv, ItemsOK, Accepting, Couriering, Grounded, Target, tables
<1>8. FailuresOK'
  <2>1. failure[c] = None
    BY <1>1 DEF Inv, CallsOK
  <2>2. QED
    BY <1>1, <1>3, <1>4, <2>1 DEF Inv, FailuresOK, Stage
<1>9. QED
  BY <1>5, <1>6, <1>7, <1>8 DEF Inv

LEMMA Counting ==
  ASSUME TypeOK, NEW n \in Counters, NEW by \in Nat, Count(n, by)
  PROVE  counted' \in [Counters -> Nat]
BY DEF TypeOK, Count

\* The end of a handler.
LEMMA StepsOfTheEnd ==
  ASSUME Inv, NEW c \in Calls,
         Skip(c) \/ Finish(c) \/ Read(c) \/ ReadFails(c)
  PROVE  Inv'
<1>1. /\ UNCHANGED <<tables, clock, spent, msg, began, expired, item, failure, answer>>
      /\ handler' = [handler EXCEPT ![c] = "finished"]
      /\ DOMAIN outcome' = Calls /\ handler[c] \in {"queued", "running"}
  BY DEF Skip, Finish, Read, ReadFails, Reading, Return, Ok, Inv, Domains, batch
<1>2. counted' \in [Counters -> Nat]
  <2>1. CASE UNCHANGED counted
    BY <2>1 DEF Inv, TypeOK
  <2>2. CASE Finish(c) /\ msg[c].method = "ProcessOrders"
    <3>1. Count(Batches[msg[c].action], Cardinality(At(c, "done"))) /\ handler[c] = "running"
      BY <2>2 DEF Finish
    <3>2. WellFormed(msg[c]) /\ DOMAIN item[c] = DOMAIN Targets(msg[c])
      BY <3>1 DEF Inv, CallsOK
    <3>3. Batches[msg[c].action] \in Counters
      BY <2>2, <3>2 DEF WellFormed, ActionTypes, Batches, Counters
    <3>4. Targets(msg[c]) \in Seq(Orders)
      BY <3>2 DEF WellFormed
    <3>5. DOMAIN item[c] = 1..Len(Targets(msg[c])) /\ Len(Targets(msg[c])) \in Nat
      BY <3>2, <3>4
    <3>6. IsFiniteSet(DOMAIN item[c])
      BY <3>5, FS_Interval
    <3>7. Cardinality(At(c, "done")) \in Nat
      BY <3>6, FS_Subset, FS_CardinalityType DEF At
    <3>8. QED
      BY <3>1, <3>3, <3>7, Counting DEF Inv
  <2>3. QED
    BY <2>1, <2>2 DEF Skip, Finish, Read, ReadFails
<1>3. TypeOK'
  BY <1>1, <1>2 DEF Inv, TypeOK, Known, Stage, tables
<1>4. /\ handler'[c] = "finished"
      /\ \A d \in Calls : d # c => handler'[d] = handler[d]
  BY <1>1 DEF Inv, TypeOK
<1>5. Domains' /\ CallsOK'
  BY <1>1, <1>4 DEF Inv, Domains, CallsOK, tables
<1>6. QED
  BY <1>1, <1>3, <1>5, ItemsKept DEF Inv, tables

-----------------------------------------------------------------------------
(* The items.                                                              *)

LEMMA ItemChanges ==
  ASSUME Inv, NEW c \in Calls, NEW i \in DOMAIN item[c], NEW stage, NEW change,
         Move(c, i, stage, change)
  PROVE  /\ DOMAIN item' = Calls /\ DOMAIN item'[c] = DOMAIN item[c]
         /\ item'[c][i].stage = stage /\ item'[c][i].change = change
         /\ \A j \in DOMAIN item[c] : j # i => item'[c][j] = item[c][j]
         /\ \A d \in Calls : d # c => item'[d] = item[d]
BY DEF Move, Inv, Domains

LEMMA FailureChanges ==
  ASSUME Inv, NEW c \in Calls, NEW i \in DOMAIN item[c], NEW code \in Errors,
         failure' = [failure EXCEPT ![c] =
                       IF @ = None THEN [code |-> code, order |-> Target(c, i)] ELSE @]
  PROVE  /\ DOMAIN failure' = Calls
         /\ \A d \in Calls : failure'[d] \in [code : Errors, order : Orders] \cup {None}
         /\ failure'[c] # None
         /\ failure[c] # None => failure'[c] = failure[c]
         /\ failure[c] = None => failure'[c].code = code
         /\ \A d \in Calls : d # c => failure'[d] = failure[d]
<1>1. Target(c, i) \in Orders
  BY AnItem DEF Inv, TypeOK
<1>2. [code |-> code, order |-> Target(c, i)] \in [code : Errors, order : Orders]
  BY <1>1
<1>3. [code |-> code, order |-> Target(c, i)] # None
  BY <1>2, InstanceAssumption
<1>4. failure[c] \in [code : Errors, order : Orders] \cup {None}
      /\ \A d \in Calls : failure[d] \in [code : Errors, order : Orders] \cup {None}
  BY DEF Inv, FailuresOK
<1>5. DOMAIN failure = Calls
  BY DEF Inv, Domains
<1> DEFINE new == IF failure[c] = None THEN [code |-> code, order |-> Target(c, i)]
                  ELSE failure[c]
<1>6. failure' = [failure EXCEPT ![c] = new]
  OBVIOUS
<1>7. /\ new \in [code : Errors, order : Orders] \cup {None} /\ new # None
      /\ failure[c] # None => new = failure[c]
      /\ failure[c] = None => new.code = code
  BY <1>2, <1>3, <1>4
<1> HIDE DEF new
<1>8. QED
  BY <1>4, <1>5, <1>6, <1>7

\* What is left to say when an item comes to an end.
LEMMA FailuresStep ==
  ASSUME Inv, NEW c \in Calls, NEW i \in DOMAIN item[c], NEW stage, NEW change,
         Move(c, i, stage, change), Stage(c, i) \in {"waiting", "committing"},
         \/ stage \in {"committing", "done"} /\ UNCHANGED failure
         \/ \E code \in Errors :
              /\ stage = "failed" \/ (stage = "lost" /\ code = "Plain")
              /\ failure' = [failure EXCEPT ![c] =
                   IF @ = None THEN [code |-> code, order |-> Target(c, i)] ELSE @]
  PROVE  FailuresOK' /\ DOMAIN failure' = Calls
<1>1. /\ DOMAIN item'[c] = DOMAIN item[c]
      /\ item'[c][i].stage = stage
      /\ \A j \in DOMAIN item[c] : j # i => item'[c][j] = item[c][j]
      /\ \A d \in Calls : d # c => item'[d] = item[d]
  BY ItemChanges
<1>2. \A j \in DOMAIN item[c] : Stage(c, j) = "failed" => j # i /\ Stage(c, j)' = "failed"
  BY <1>1 DEF Stage
<1>3. CASE stage \in {"committing", "done"} /\ UNCHANGED failure
  <2>1. \A j \in DOMAIN item[c] : Stage(c, j)' \in {"failed", "lost"} =>
            Stage(c, j) \in {"failed", "lost"}
    BY <1>1, <1>3 DEF Stage
  <2>2. FailuresOK'
    BY <1>1, <1>2, <1>3, <2>1 DEF Inv, FailuresOK, Stage
  <2>3. QED
    BY <1>3, <2>2 DEF Inv, Domains
<1>4. ASSUME NEW code \in Errors,
             stage = "failed" \/ (stage = "lost" /\ code = "Plain"),
             failure' = [failure EXCEPT ![c] =
               IF @ = None THEN [code |-> code, order |-> Target(c, i)] ELSE @]
      PROVE  FailuresOK' /\ DOMAIN failure' = Calls
  <2>1. /\ DOMAIN failure' = Calls
        /\ \A d \in Calls : failure'[d] \in [code : Errors, order : Orders] \cup {None}
        /\ failure'[c] # None
        /\ failure[c] # None => failure'[c] = failure[c]
        /\ failure[c] = None => failure'[c].code = code
        /\ \A d \in Calls : d # c => failure'[d] = failure[d]
    BY <1>4, FailureChanges
  <2>2. failure'[c].code # "Plain" => \E j \in DOMAIN item'[c] : Stage(c, j)' = "failed"
    <3>1. CASE failure[c] = None
      BY <1>1, <1>4, <2>1, <3>1 DEF Stage
    <3>2. CASE failure[c] # None
      BY <1>1, <1>2, <2>1, <3>2 DEF Inv, FailuresOK
    <3>3. QED
      BY <3>1, <3>2
  <2>3. FailuresOK'
    BY <1>1, <2>1, <2>2 DEF Inv, FailuresOK, Stage
  <2>4. QED
    BY <2>1, <2>3
<1>5. QED
  BY <1>3, <1>4

\* The types of what an item changes outside the tables.
LEMMA ItemTypes ==
  ASSUME Inv, NEW c \in Calls, NEW i \in DOMAIN item[c],
         NEW stage \in {"waiting", "committing", "done", "lost", "failed"},
         NEW change \in Changes \cup {None}, Move(c, i, stage, change),
         UNCHANGED <<clock, spent, msg, handler, began, expired, outcome, answer>>,
         counted' \in [Counters -> Nat], FailuresOK',
         /\ terms' \in [Orders -> [receiver : Receivers, until : 0..Horizon] \cup {None}]
         /\ ledger' \in [Orders -> Seq(Changes)]
         /\ \A o \in Orders : terms'[o] = None <=> ledger'[o] = <<>>
         /\ \A o \in Known' : parcel'[o] \in [weight : Nat, code : Codes, price : Nat]
  PROVE  TypeOK'
<1>1. ASSUME NEW d \in Calls, NEW j \in DOMAIN item'[d]
      PROVE  /\ Stage(d, j)' \in {"waiting", "committing", "done", "lost", "failed"}
             /\ item'[d][j].change \in Changes \cup {None}
  <2>1. /\ DOMAIN item'[c] = DOMAIN item[c]
        /\ item'[c][i].stage = stage /\ item'[c][i].change = change
        /\ \A k \in DOMAIN item[c] : k # i => item'[c][k] = item[c][k]
        /\ \A b \in Calls : b # c => item'[b] = item[b]
    BY ItemChanges
  <2>2. CASE d = c /\ j = i
    BY <2>1, <2>2 DEF Stage
  <2>3. CASE ~(d = c /\ j = i)
    <3>1. j \in DOMAIN item[d] /\ item'[d][j] = item[d][j]
      BY <2>1, <2>3
    <3>2. QED
      BY <3>1 DEF Inv, TypeOK, Stage
  <2>4. QED
    BY <2>2, <2>3
<1>2. ASSUME NEW d \in Calls, failure'[d] # None PROVE failure'[d].code \in Errors
  BY <1>2 DEF FailuresOK
<1>3. QED
  BY <1>1, <1>2 DEF Inv, TypeOK

\* An item that decides, fails or is refused changes no table.
LEMMA ItemStep ==
  ASSUME Inv, NEW c \in Calls, NEW i \in DOMAIN item[c],
         NEW stage \in {"committing", "failed"},
         NEW change \in Changes \cup {None}, Move(c, i, stage, change),
         Stage(c, i) \in {"waiting", "committing"},
         UNCHANGED <<tables, clock, spent, msg, handler, began, expired, outcome, answer>>,
         counted' \in [Counters -> Nat],
         stage = "committing" =>
            /\ change \in Changes
            /\ Accepting(c) => change.status = InStorage
            /\ ~Accepting(c) => Grounded(Target(c, i), change)
            /\ Couriering(c) => change.status \in CourierStatuses,
         \/ stage = "committing" /\ UNCHANGED failure
         \/ stage = "failed" /\ \E code \in Errors :
              failure' = [failure EXCEPT ![c] =
                   IF @ = None THEN [code |-> code, order |-> Target(c, i)] ELSE @]
  PROVE  Inv'
<1>1. FailuresOK' /\ DOMAIN failure' = Calls
  BY FailuresStep
<1>2. TypeOK'
  <2>1. /\ terms' \in [Orders -> [receiver : Receivers, until : 0..Horizon] \cup {None}]
        /\ ledger' \in [Orders -> Seq(Changes)]
        /\ \A o \in Orders : terms'[o] = None <=> ledger'[o] = <<>>
        /\ \A o \in Known' : parcel'[o] \in [weight : Nat, code : Codes, price : Nat]
    BY DEF Inv, TypeOK, tables, Known
  <2>2. stage \in {"waiting", "committing", "done", "lost", "failed"}
    OBVIOUS
  <2>3. QED
    BY <1>1, <2>1, <2>2, ItemTypes
<1>3. /\ DOMAIN item' = Calls /\ DOMAIN item'[c] = DOMAIN item[c]
      /\ item'[c][i].stage = stage /\ item'[c][i].change = change
      /\ \A j \in DOMAIN item[c] : j # i => item'[c][j] = item[c][j]
      /\ \A d \in Calls : d # c => item'[d] = item[d]
  BY ItemChanges
<1>4. handler[c] \in {"running", "finished"}
  BY AnItem DEF Inv, TypeOK
<1>5. Domains' /\ CallsOK'
  <2>1. Domains'
    BY <1>1, <1>3 DEF Inv, Domains, tables
  <2>2. \A d \in Calls : d # c => failure'[d] = failure[d]
    BY FailureChanges
  <2>3. \A d \in Calls : item'[d] = <<>> <=> item[d] = <<>>
    <3>1. item[c] # <<>> /\ item'[c] # <<>>
      BY <1>3
    <3>2. QED
      BY <1>3, <3>1
  <2>4. \A d \in Calls : DOMAIN item'[d] = DOMAIN item[d]
    BY <1>3
  <2>5. CallsOK'
    BY <1>4, <2>2, <2>3, <2>4 DEF Inv, CallsOK
  <2>6. QED
    BY <2>1, <2>5
<1>6. ItemsOK'
  <2>1. ASSUME NEW d \in Calls, NEW j \in DOMAIN item'[d], Stage(d, j)' = "committing"
        PROVE  /\ item'[d][j].change \in Changes
               /\ Accepting(d) => item'[d][j].change.status = InStorage
               /\ ~Accepting(d) => Grounded(Target(d, j), item'[d][j].change)
               /\ Couriering(d) => item'[d][j].change.status \in CourierStatuses
    <3>1. CASE d = c /\ j = i
      BY <1>3, <2>1, <3>1 DEF Stage
    <3>2. CASE ~(d = c /\ j = i)
      BY <1>3, <2>1, <3>2 DEF Inv, ItemsOK, Stage
    <3>3. QED
      BY <3>1, <3>2
  <2>2. QED
    BY <2>1 DEF ItemsOK, Accepting, Couriering, Grounded, Target, tables
<1>7. QED
  BY <1>1, <1>2, <1>5, <1>6 DEF Inv

LEMMA StepDecide ==
  ASSUME Inv, NEW c \in Calls, NEW i \in DOMAIN item[c], Decide(c, i)
  PROVE  Inv'
<1>1. /\ UNCHANGED <<tables, clock, spent, counted, msg, handler, began, expired, outcome, answer>>
      /\ Stage(c, i) = "waiting"
  BY DEF Decide
<1>2. Target(c, i) \in Orders
  BY AnItem DEF Inv, TypeOK
<1>3. PICK v \in Verdicts(c, i) :
         \/ v.error # None /\ Fails(c, i, v.error)
         \/ /\ v.error = None
            /\ Move(c, i, "committing", v.change)
            /\ UNCHANGED failure
  BY DEF Decide
<1>4. /\ v.error \in Errors \cup {None}
      /\ v.error = None =>
           /\ v.change \in Changes
           /\ Accepting(c) => v.change.status = InStorage
           /\ ~Accepting(c) => Grounded(Target(c, i), v.change)
           /\ Couriering(c) => v.change.status \in CourierStatuses
  <2>1. CASE Accepting(c)
    <3>1. PICK found : v = Verdict(AcceptError(c, i, found), InStorage, clock)
      BY <2>1 DEF Verdicts
    <3>2. v.error = AcceptError(c, i, found) /\ v.change = [status |-> InStorage, at |-> clock]
      BY <3>1 DEF Verdict
    <3>3. v.change \in Changes /\ v.change.status = InStorage
      BY <3>2 DEF Changes, Statuses, Inv, TypeOK
    <3>4. ~Couriering(c)
      BY <2>1 DEF Accepting, Couriering
    <3>5. QED
      BY <2>1, <3>2, <3>3, <3>4, AcceptCode
  <2>2. CASE ~Accepting(c) /\ terms[Target(c, i)] = None
    <3>1. v.error = "NotFound"
      BY <2>2 DEF Verdicts, Verdict
    <3>2. v.error \in Errors /\ v.error # None
      BY <3>1, InstanceAssumption DEF Errors
    <3>3. QED
      BY <3>2
  <2>3. CASE ~Accepting(c) /\ terms[Target(c, i)] # None
    <3>1. PICK k \in DOMAIN ledger[Target(c, i)] :
             v = Judge(c, Target(c, i), ledger[Target(c, i)][k])
      BY <2>3 DEF Verdicts
    <3>2. ledger[Target(c, i)] \in Seq(Changes)
      BY <1>2 DEF Inv, TypeOK
    <3>3. ledger[Target(c, i)][k] \in Changes /\ k \in 1..Len(ledger[Target(c, i)])
      BY <3>2
    <3>4. QED
      BY <1>2, <2>3, <3>1, <3>3, JudgedLawfully DEF Inv, Grounded
  <2>4. QED
    BY <2>1, <2>2, <2>3
<1>5. counted' \in [Counters -> Nat]
  BY <1>1 DEF Inv, TypeOK
<1>6. CASE v.error # None /\ Fails(c, i, v.error)
  <2>1. v.error \in Errors /\ Move(c, i, "failed", None)
        /\ failure' = [failure EXCEPT ![c] =
             IF @ = None THEN [code |-> v.error, order |-> Target(c, i)] ELSE @]
    BY <1>4, <1>6 DEF Fails
  <2>2. QED
    BY <1>1, <1>5, <2>1, ItemStep
<1>7. CASE v.error = None /\ Move(c, i, "committing", v.change) /\ UNCHANGED failure
  BY <1>1, <1>4, <1>5, <1>7, ItemStep
<1>8. QED
  BY <1>3, <1>6, <1>7

\* A courier's change stays warranted when it is stamped later.
LEMMA StepStamp ==
  ASSUME Inv, NEW c \in Calls, NEW i \in DOMAIN item[c], Stamp(c, i)
  PROVE  Inv'
<1> DEFINE old == item[c][i].change
           new == [old EXCEPT !.at = clock]
           o == Target(c, i)
<1>1. /\ UNCHANGED <<tables, clock, spent, msg, handler, began, expired, outcome, answer>>
      /\ UNCHANGED <<counted, failure>> /\ Stage(c, i) = "committing"
      /\ Couriering(c) /\ old.at < clock /\ Move(c, i, "committing", new)
  BY DEF Stamp, Couriering
<1>2. counted' \in [Counters -> Nat]
  BY <1>1 DEF Inv, TypeOK
<1>3. /\ old \in Changes /\ Grounded(o, old) /\ ~Accepting(c)
      /\ old.status \in CourierStatuses
  BY <1>1 DEF Inv, ItemsOK, Accepting, Couriering
<1>4. new \in Changes /\ new.status = old.status /\ new.at = clock
  BY <1>3 DEF Changes, Inv, TypeOK
<1>5. Grounded(o, new)
  <2>1. o \in Orders
    BY AnItem DEF Inv, TypeOK
  <2>2. PICK k \in 1..Len(ledger[o]) :
           Warranted(ledger[o][k], old.status, old.at, terms[o].until)
    BY <1>3 DEF Grounded
  <2>3. terms[o] # None /\ terms[o].until \in Nat
    BY <1>3, <2>1 DEF Grounded, Inv, TypeOK
  <2>4. clock \in Nat /\ old.at \in Nat
    BY <1>3 DEF Changes, Inv, TypeOK
  <2>5. old.at >= terms[o].until => clock >= terms[o].until
    BY <1>1, <2>3, <2>4
  <2>6. Warranted(ledger[o][k], old.status, clock, terms[o].until)
    BY <1>3, <2>2, <2>5, SameNames
       DEF Warranted, Ledger!Lawful, Ledger!Revival, CourierStatuses,
           InStorage, GivenToClient, ReturnedFromClient, ReturnedWithoutClient,
           GivenToCourier
  <2>7. QED
    BY <1>4, <2>2, <2>3, <2>6 DEF Grounded
<1> HIDE DEF old, new, o
<1>6. QED
  BY <1>1, <1>2, <1>3, <1>4, <1>5, ItemStep DEF o

LEMMA StepRefuse ==
  ASSUME Inv, NEW c \in Calls, NEW i \in DOMAIN item[c], Refuse(c, i)
  PROVE  Inv'
<1>1. /\ UNCHANGED <<tables, clock, spent, counted, msg, handler, began, expired, outcome, answer>>
      /\ Stage(c, i) = "committing"
  BY DEF Refuse
<1>2. /\ InsertError(c, i) \in Errors /\ Move(c, i, "failed", None)
      /\ failure' = [failure EXCEPT ![c] =
           IF @ = None THEN [code |-> InsertError(c, i), order |-> Target(c, i)] ELSE @]
  BY InsertCode DEF Refuse, Fails
<1>3. counted' \in [Counters -> Nat]
  BY <1>1 DEF Inv, TypeOK
<1>4. QED
  BY <1>1, <1>2, <1>3, ItemStep

LEMMA StepBreak ==
  ASSUME Inv, NEW c \in Calls, NEW i \in DOMAIN item[c], Break(c, i)
  PROVE  Inv'
<1>1. /\ UNCHANGED <<tables, clock, spent, msg, handler, began, expired, outcome, answer>>
      /\ Stage(c, i) \in {"waiting", "committing"}
  BY DEF Break
<1>2. /\ "Plain" \in Errors /\ Move(c, i, "failed", None)
      /\ failure' = [failure EXCEPT ![c] =
           IF @ = None THEN [code |-> "Plain", order |-> Target(c, i)] ELSE @]
  BY DEF Break, Fails, Errors
<1>3. counted' \in [Counters -> Nat]
  <2>1. "to_courier" \in Counters
    BY DEF Counters
  <2>2. QED
    BY <2>1, Counting DEF Break, Inv, TypeOK
<1>4. QED
  BY <1>1, <1>2, <1>3, ItemStep

-----------------------------------------------------------------------------
(* A change is committed.                                                  *)

\* The date of a deadline is not after it.
LEMMA DayBegins ==
  ASSUME NEW t \in Nat
  PROVE  t - (t % Day) \in 0..t
<1>1. Day \in Nat \ {0}
  BY ServerAssumption
<1>2. /\ t % Day \in 0..Day - 1 /\ t \div Day \in Nat
      /\ t = Day * (t \div Day) + (t % Day)
  BY <1>1
<1>3. Day * (t \div Day) \in Nat
  BY <1>1, <1>2
<1>4. QED
  BY <1>1, <1>2, <1>3

LEMMA ExtraIsNatural == \A code \in Codes : PackageTypes[code].extra \in Nat
BY DEF Codes, PackageTypes

\* The row an item inserts.
LEMMA Inserted ==
  ASSUME Inv, NEW c \in Calls, NEW i \in DOMAIN item[c], MayCommit(c, i), Accepting(c)
  PROVE  /\ terms[Target(c, i)] = None
         /\ [receiver |-> Order(c, i).user, until |-> StorageUntil(c, i)]
              \in [receiver : Receivers, until : 0..Horizon]
         /\ [weight |-> Order(c, i).weight, code |-> Code(c, i),
             price |-> TotalPrice(Code(c, i), Order(c, i).price)]
              \in [weight : Nat, code : Codes, price : Nat]
<1>1. terms[Target(c, i)] = None /\ Code(c, i) \in Codes
  BY InsertCode DEF MayCommit, Storable
<1>2. WellFormed(msg[c]) /\ i \in DOMAIN Targets(msg[c])
  BY AnItem DEF Inv, TypeOK
<1>3. Order(c, i) \in Parcels(msg[c])
  <2>1. CASE msg[c].method = "ImportOrders"
    <3>1. Targets(msg[c]) = [k \in DOMAIN msg[c].orders |-> msg[c].orders[k].order]
      BY <2>1 DEF Targets
    <3>2. i \in DOMAIN msg[c].orders
      BY <1>2, <3>1
    <3>3. QED
      BY <2>1, <3>2 DEF Parcels, Order
  <2>2. CASE msg[c].method = "AcceptOrder"
    BY <2>2 DEF Parcels, Order
  <2>3. QED
    BY <2>1, <2>2 DEF Accepting
<1>4. /\ Order(c, i).user \in Receivers /\ Order(c, i).expires \in 0..Horizon
      /\ Order(c, i).weight \in Nat /\ Order(c, i).price \in Nat
  BY <1>2, <1>3 DEF WellFormed
<1>5. StorageUntil(c, i) \in 0..Horizon
  <2>1. Order(c, i).expires \in Nat /\ Order(c, i).expires <= Horizon /\ Horizon \in Nat
    BY <1>4, ServerAssumption
  <2>2. Order(c, i).expires - (Order(c, i).expires % Day) \in 0..Order(c, i).expires
    BY <2>1, DayBegins
  <2>3. Order(c, i).expires - (Order(c, i).expires % Day) \in 0..Horizon
    BY <2>1, <2>2
  <2>4. QED
    BY <1>4, <2>3 DEF StorageUntil
<1>6. TotalPrice(Code(c, i), Order(c, i).price) \in Nat
  BY <1>1, <1>4, ExtraIsNatural DEF TotalPrice
<1>7. QED
  BY <1>1, <1>4, <1>5, <1>6

LEMMA TablesChange ==
  ASSUME Inv, NEW c \in Calls, NEW i \in DOMAIN item[c],
         MayCommit(c, i), WriteTables(c, i)
  PROVE  /\ terms' \in [Orders -> [receiver : Receivers, until : 0..Horizon] \cup {None}]
         /\ ledger' \in [Orders -> Seq(Changes)]
         /\ \A o \in Orders : terms'[o] = None <=> ledger'[o] = <<>>
         /\ \A o \in Known' : parcel'[o] \in [weight : Nat, code : Codes, price : Nat]
         /\ DOMAIN parcel' = Orders
         /\ \A o \in Orders : terms[o] # None => terms'[o] = terms[o]
         /\ \A o \in Orders : \A k \in 1..Len(ledger[o]) :
               k \in 1..Len(ledger'[o]) /\ ledger'[o][k] = ledger[o][k]
         /\ Ledger!Next
<1> DEFINE o == Target(c, i)
           change == item[c][i].change
           row == [receiver |-> Order(c, i).user, until |-> StorageUntil(c, i)]
           box == [weight |-> Order(c, i).weight, code |-> Code(c, i),
                   price |-> TotalPrice(Code(c, i), Order(c, i).price)]
<1>1. o \in Orders
  BY AnItem DEF Inv, TypeOK
<1>2. /\ change \in Changes
      /\ Accepting(c) => change.status = InStorage
      /\ ~Accepting(c) => Grounded(o, change)
  BY DEF Inv, ItemsOK, MayCommit
<1>3. change = [status |-> change.status, at |-> change.at]
      /\ change.status \in Statuses /\ change.at \in 0..MaxTime
  BY <1>2 DEF Changes
<1>4. /\ ledger' = [ledger EXCEPT ![o] = Append(@, change)]
      /\ notices' = [notices EXCEPT ![o] =
           Append(@, [type |-> EventType(change.status), user |-> terms'[o].receiver])]
  BY DEF WriteTables
<1>5. /\ Accepting(c) => terms[o] = None /\ row \in [receiver : Receivers, until : 0..Horizon]
                         /\ box \in [weight : Nat, code : Codes, price : Nat]
                         /\ terms' = [terms EXCEPT ![o] = row]
                         /\ parcel' = [parcel EXCEPT ![o] = box]
      /\ ~Accepting(c) => UNCHANGED <<terms, parcel>> /\ terms[o] # None
  BY <1>2, Inserted DEF WriteTables, Grounded
<1> HIDE DEF o, change, row, box
<1>6. /\ terms \in [Orders -> [receiver : Receivers, until : 0..Horizon] \cup {None}]
      /\ ledger \in [Orders -> Seq(Changes)]
      /\ \A q \in Orders : terms[q] = None <=> ledger[q] = <<>>
      /\ \A q \in Orders : terms[q] # None =>
            parcel[q] \in [weight : Nat, code : Codes, price : Nat]
      /\ DOMAIN parcel = Orders
  BY DEF Inv, TypeOK, Known, Domains
<1>7. terms' \in [Orders -> [receiver : Receivers, until : 0..Horizon] \cup {None}]
      /\ \A q \in Orders : q # o => terms'[q] = terms[q]
  BY <1>5, <1>6
<1>8. terms'[o] # None /\ (terms[o] # None => terms'[o] = terms[o])
  <2>1. CASE Accepting(c)
    BY <1>1, <1>5, <1>6, <2>1, InstanceAssumption
  <2>2. CASE ~Accepting(c)
    BY <1>5, <2>2
  <2>3. QED
    BY <2>1, <2>2
<1>9. /\ ledger' \in [Orders -> Seq(Changes)]
      /\ ledger'[o] = Append(ledger[o], change)
      /\ \A q \in Orders : q # o => ledger'[q] = ledger[q]
  BY <1>1, <1>2, <1>4, <1>6
<1>10. /\ ledger[o] \in Seq(Changes) /\ ledger'[o] # <<>>
       /\ \A k \in 1..Len(ledger[o]) : k \in 1..Len(ledger'[o]) /\ ledger'[o][k] = ledger[o][k]
  <2>1. ledger[o] \in Seq(Changes)
    BY <1>1, <1>6
  <2>2. /\ Len(ledger'[o]) = Len(ledger[o]) + 1 /\ Len(ledger[o]) \in Nat
        /\ \A k \in 1..Len(ledger[o]) : ledger'[o][k] = ledger[o][k]
    BY <1>2, <1>9, <2>1
  <2>3. ledger'[o] # <<>>
    BY <1>2, <1>9, <2>1
  <2>4. QED
    BY <2>1, <2>2, <2>3
<1>11. \A q \in Orders : terms'[q] = None <=> ledger'[q] = <<>>
  BY <1>6, <1>7, <1>8, <1>9, <1>10
<1>12. /\ \A q \in Orders : terms'[q] # None =>
             parcel'[q] \in [weight : Nat, code : Codes, price : Nat]
       /\ DOMAIN parcel' = Orders
  <2>1. CASE Accepting(c)
    BY <1>1, <1>5, <1>6, <1>7, <2>1
  <2>2. CASE ~Accepting(c)
    BY <1>5, <1>6, <2>2
  <2>3. QED
    BY <2>1, <2>2
<1>13. Ledger!Record(o, change.status, change.at)
  <2>1. Ledger!EventType(change.status) = EventType(change.status)
    BY <1>3, SameNames
  <2>2. QED
    BY <1>3, <1>4, <2>1 DEF Ledger!Record
<1>14. Ledger!Next
  <2>1. CASE Accepting(c)
    <3>1. row \in Ledger!Terms
      BY <1>5, <2>1 DEF Ledger!Terms
    <3>2. Ledger!Accept(o, row, change.at)
      BY <1>2, <1>5, <1>13, <2>1, SameNames DEF Ledger!Accept
    <3>3. QED
      BY <1>1, <1>3, <3>1, <3>2 DEF Ledger!Next
  <2>2. CASE ~Accepting(c)
    <3>1. PICK k \in 1..Len(ledger[o]) :
             Warranted(ledger[o][k], change.status, change.at, terms[o].until)
      BY <1>2, <2>2 DEF Grounded
    <3>2. \/ Ledger!Move(o, change.status, change.at)
          \/ Ledger!Revive(o, change.status, change.at)
      BY <1>5, <1>13, <2>2, <3>1
         DEF Warranted, Ledger!Move, Ledger!Revive, Ledger!Change, Ledger!Grounds,
             Ledger!InOrder
    <3>3. change.status \in Ledger!Statuses
      BY <1>3, SameNames
    <3>4. QED
      BY <1>1, <1>3, <3>2, <3>3 DEF Ledger!Next
  <2>3. QED
    BY <2>1, <2>2
<1>15. \A q \in Orders : \A k \in 1..Len(ledger[q]) :
          k \in 1..Len(ledger'[q]) /\ ledger'[q][k] = ledger[q][k]
  BY <1>9, <1>10
<1>16. \A q \in Orders : terms[q] # None => terms'[q] = terms[q]
  BY <1>7, <1>8
<1>17. \A q \in Known' : parcel'[q] \in [weight : Nat, code : Codes, price : Nat]
  BY <1>12 DEF Known
<1>18. QED
  BY <1>7, <1>9, <1>11, <1>12, <1>14, <1>15, <1>16, <1>17

\* What was warranted stays so: a row keeps its terms, a history its lines.
LEMMA StillGrounded ==
  ASSUME NEW o \in Orders, NEW change, Grounded(o, change),
         \A q \in Orders : terms[q] # None => terms'[q] = terms[q],
         \A q \in Orders : \A k \in 1..Len(ledger[q]) :
            k \in 1..Len(ledger'[q]) /\ ledger'[q][k] = ledger[q][k]
  PROVE  Grounded(o, change)'
<1>1. terms[o] # None /\ terms'[o] = terms[o]
  BY DEF Grounded
<1>2. PICK k \in 1..Len(ledger[o]) :
         Warranted(ledger[o][k], change.status, change.at, terms[o].until)
  BY DEF Grounded
<1>3. k \in 1..Len(ledger'[o]) /\ ledger'[o][k] = ledger[o][k]
  OBVIOUS
<1>4. Warranted(ledger'[o][k], change.status, change.at, terms'[o].until)
  BY <1>1, <1>2, <1>3
<1>5. QED
  BY <1>1, <1>3, <1>4 DEF Grounded

LEMMA StepsOfCommit ==
  ASSUME Inv, NEW c \in Calls, NEW i \in DOMAIN item[c],
         Commit(c, i) \/ Lose(c, i)
  PROVE  Inv' /\ Ledger!Next
<1>1. /\ MayCommit(c, i) /\ WriteTables(c, i) /\ Stage(c, i) = "committing"
      /\ UNCHANGED <<clock, spent, msg, handler, began, expired, outcome, answer>>
  BY DEF Commit, Lose, MayCommit
<1>2. PICK stage \in {"done", "lost"} :
         /\ Move(c, i, stage, item[c][i].change)
         /\ \/ stage = "done" /\ UNCHANGED failure
            \/ /\ stage = "lost"
               /\ failure' = [failure EXCEPT ![c] =
                    IF @ = None THEN [code |-> "Plain", order |-> Target(c, i)] ELSE @]
  BY DEF Commit, Lose
<1>3. counted' \in [Counters -> Nat]
  <2>1. "to_courier" \in Counters /\ "accepted" \in Counters
    BY DEF Counters
  <2>2. UNCHANGED counted \/ Count("to_courier", 1) \/ Count("accepted", 1)
    BY DEF Commit, Lose
  <2>3. QED
    BY <2>1, <2>2, Counting DEF Inv, TypeOK
<1>4. item[c][i].change \in Changes
  BY <1>1 DEF Inv, ItemsOK
<1>5. "Plain" \in Errors
  BY DEF Errors
<1>6. FailuresOK' /\ DOMAIN failure' = Calls
  BY <1>1, <1>2, <1>5, FailuresStep
<1>7. /\ terms' \in [Orders -> [receiver : Receivers, until : 0..Horizon] \cup {None}]
      /\ ledger' \in [Orders -> Seq(Changes)]
      /\ \A o \in Orders : terms'[o] = None <=> ledger'[o] = <<>>
      /\ \A o \in Known' : parcel'[o] \in [weight : Nat, code : Codes, price : Nat]
      /\ DOMAIN parcel' = Orders
      /\ \A o \in Orders : terms[o] # None => terms'[o] = terms[o]
      /\ \A o \in Orders : \A k \in 1..Len(ledger[o]) :
            k \in 1..Len(ledger'[o]) /\ ledger'[o][k] = ledger[o][k]
      /\ Ledger!Next
  BY <1>1, TablesChange
<1>8. TypeOK'
  <2>1. stage \in {"waiting", "committing", "done", "lost", "failed"}
    OBVIOUS
  <2>2. QED
    BY <1>1, <1>2, <1>3, <1>4, <1>6, <1>7, <2>1, ItemTypes
<1>9. /\ DOMAIN item' = Calls /\ DOMAIN item'[c] = DOMAIN item[c]
      /\ item'[c][i].stage = stage
      /\ \A j \in DOMAIN item[c] : j # i => item'[c][j] = item[c][j]
      /\ \A d \in Calls : d # c => item'[d] = item[d]
  BY <1>2, ItemChanges
<1>10. Domains' /\ CallsOK'
  <2>1. Domains'
    BY <1>1, <1>6, <1>7, <1>9 DEF Inv, Domains
  <2>2. \A d \in Calls : d # c => failure'[d] = failure[d]
    BY <1>2, <1>5, FailureChanges
  <2>3. \A d \in Calls : item'[d] = <<>> <=> item[d] = <<>>
    <3>1. item[c] # <<>> /\ item'[c] # <<>>
      BY <1>9
    <3>2. QED
      BY <1>9, <3>1
  <2>4. \A d \in Calls : DOMAIN item'[d] = DOMAIN item[d]
    BY <1>9
  <2>5. handler[c] = "running"
    BY <1>1 DEF MayCommit
  <2>6. CallsOK'
    BY <1>1, <2>2, <2>3, <2>4, <2>5 DEF Inv, CallsOK
  <2>7. QED
    BY <2>1, <2>6
<1>11. ItemsOK'
  <2>1. ASSUME NEW d \in Calls, NEW j \in DOMAIN item'[d], Stage(d, j)' = "committing"
        PROVE  /\ item'[d][j].change \in Changes
               /\ Accepting(d) => item'[d][j].change.status = InStorage
               /\ ~Accepting(d) => Grounded(Target(d, j), item[d][j].change)'
               /\ Couriering(d) => item'[d][j].change.status \in CourierStatuses
    <3>1. j \in DOMAIN item[d] /\ item'[d][j] = item[d][j]
      BY <1>9, <2>1 DEF Stage
    <3>2. /\ item[d][j].change \in Changes
          /\ Accepting(d) => item[d][j].change.status = InStorage
          /\ ~Accepting(d) => Grounded(Target(d, j), item[d][j].change)
          /\ Couriering(d) => item[d][j].change.status \in CourierStatuses
      BY <2>1, <3>1 DEF Inv, ItemsOK, Stage
    <3>3. Target(d, j) \in Orders /\ Target(d, j)' = Target(d, j)
      BY <1>1, <3>1, AnItem DEF Inv, TypeOK, Target
    <3>4. ASSUME Grounded(Target(d, j), item[d][j].change)
          PROVE  Grounded(Target(d, j), item[d][j].change)'
      <4>1. PICK o, change : /\ o \in Orders /\ o = Target(d, j)
                             /\ change = item[d][j].change
        BY <3>3
      <4>2. Grounded(o, change)
        BY <3>4, <4>1
      <4>3. Grounded(o, change)'
        BY <1>7, <4>1, <4>2, StillGrounded
      <4>4. Target(d, j)' = o /\ item'[d][j].change = change
        BY <3>1, <3>3, <4>1
      <4>5. QED
        BY <4>3, <4>4 DEF Grounded
    <3>5. QED
      BY <3>1, <3>2, <3>4
  <2>2. \A d \in Calls : Accepting(d)' = Accepting(d) /\ Couriering(d)' = Couriering(d)
    BY <1>1 DEF Accepting, Couriering
  <2>3. QED
    BY <2>1, <2>2 DEF ItemsOK
<1>12. QED
  BY <1>6, <1>7, <1>8, <1>10, <1>11 DEF Inv

-----------------------------------------------------------------------------
LEMMA InvInit == Init => Inv
<1> SUFFICES ASSUME Init PROVE Inv
  OBVIOUS
<1>1. PICK t \in Tables : /\ terms = t.terms /\ ledger = t.ledger
                          /\ notices = t.notices /\ parcel = t.parcel
  BY DEF Init
<1>2. TablesFit(t)
  BY InstanceAssumption
<1>3. TypeOK
  BY <1>1, <1>2, ServerAssumption DEF Init, TypeOK, TablesFit, Known
<1>4. Domains /\ CallsOK /\ ItemsOK /\ FailuresOK
  BY <1>1, <1>2 DEF Init, Domains, CallsOK, ItemsOK, FailuresOK, TablesFit
<1>5. QED
  BY <1>3, <1>4 DEF Inv

LEMMA InvStep ==
  ASSUME Inv, [Next]_vars
  PROVE  Inv' /\ [Ledger!Next]_<<terms, ledger, notices>>
<1>1. ASSUME NEW c \in Calls, NEW i \in DOMAIN item[c], Commit(c, i) \/ Lose(c, i)
      PROVE  Inv' /\ [Ledger!Next]_<<terms, ledger, notices>>
  BY <1>1, StepsOfCommit
<1>2. ASSUME NEW c \in Calls, NEW i \in DOMAIN item[c],
             Decide(c, i) \/ Stamp(c, i) \/ Refuse(c, i) \/ Break(c, i)
      PROVE  Inv' /\ [Ledger!Next]_<<terms, ledger, notices>>
  BY <1>2, StepDecide, StepStamp, StepRefuse, StepBreak
     DEF Decide, Stamp, Refuse, Break, tables
<1>3. ASSUME NEW c \in Calls,
             \/ RejectLimited(c) \/ (\E m \in Messages[c] : RejectInvalid(c, m))
             \/ Expire(c) \/ Respond(c) \/ TimeOut(c)
      PROVE  Inv' /\ [Ledger!Next]_<<terms, ledger, notices>>
  <2>1. UNCHANGED tables
    BY <1>3 DEF RejectLimited, RejectInvalid, Arrive, Expire, Respond, TimeOut
  <2>2. Inv'
    BY <1>3, StepsOfInterceptors
  <2>3. QED
    BY <2>1, <2>2 DEF tables
<1>4. ASSUME NEW c \in Calls,
             \/ (\E m \in Messages[c] : Submit(c, m)) \/ Begin(c)
             \/ Skip(c) \/ Finish(c) \/ Read(c) \/ ReadFails(c)
      PROVE  Inv' /\ [Ledger!Next]_<<terms, ledger, notices>>
  <2>1. UNCHANGED tables
    BY <1>4 DEF Submit, Arrive, Begin, Skip, Finish, Read, ReadFails
  <2>2. Inv'
    BY <1>4, StepSubmit, StepBegin, StepsOfTheEnd
  <2>3. QED
    BY <2>1, <2>2 DEF tables
<1>5. CASE Tick \/ NewPeriod \/ UNCHANGED vars
  <2>1. UNCHANGED tables
    BY <1>5 DEF Tick, NewPeriod, vars
  <2>2. Inv'
    BY <1>5, StepsOfTime
  <2>3. QED
    BY <2>1, <2>2 DEF tables
<1>6. QED
  BY <1>1, <1>2, <1>3, <1>4, <1>5 DEF Next, Rest

\* The invariant holds for any number of calls at once, whatever they break.
THEOREM ServerInvariance == Spec => []Inv
BY InvInit, InvStep, PTL DEF Spec

\* Every variable has its type; an order has a row when it has a history.
THEOREM ServerTypes == Spec => []TypeOK
<1>1. Inv => TypeOK
  BY DEF Inv
<1>2. QED
  BY <1>1, ServerInvariance, PTL

\* Whatever calls do at the same time, orders change as the ledger allows.
THEOREM ServerRefinement == Spec => ImplementsLedger
<1>1. Inv /\ [Next]_vars =>
        [UNCHANGED <<terms, ledger, notices>> \/ Ledger!Next]_<<terms, ledger, notices>>
  BY InvStep
<1>2. QED
  BY <1>1, ServerInvariance, PTL DEF Spec, ImplementsLedger

-----------------------------------------------------------------------------
(* What clients are told.                                                  *)

\* None is not an answer.
NoneIsNoAnswer == \A code, value : None # [code |-> code, value |-> value]

Succeeded == {"OK", "DeadlineExceeded"}
Named == {"NotFound", "AlreadyExists", "FailedPrecondition", "Internal", "ResourceExhausted"}

\* A success that waits to be told is one, and an error that has a reason
\* comes from a call that changed nothing.
OutcomesOK ==
    \A c \in Calls : handler[c] = "finished" /\ answer[c] = None =>
        /\ outcome[c].code = "OK" /\ msg[c].method \in Writes \ {"ImportOrders"}
              => At(c, "done") = DOMAIN Targets(msg[c])
        /\ outcome[c].code \notin {"OK", "Plain"}
              => \A i \in DOMAIN item[c] : Stage(c, i) = "failed"

\* Only InvalidArgument is told while the handler is still at work.
AnswersOK ==
    /\ AnswersAreTrue
    /\ \A c \in Calls : answer[c] # None /\ handler[c] \in {"queued", "running"}
          => answer[c].code = "InvalidArgument"

LEMMA MappedCodes ==
  ASSUME NEW code
  PROVE  /\ MapErrorToGRPCStatus(code) \notin Succeeded
         /\ code = "Plain" => MapErrorToGRPCStatus(code) = "InvalidArgument"
BY DEF MapErrorToGRPCStatus, Succeeded

LEMMA AnswersInit == Init => OutcomesOK /\ AnswersOK
BY DEF Init, OutcomesOK, AnswersOK, AnswersAreTrue

\* Steps of a handler at work.
LEMMA AnswersAtWork ==
  ASSUME Inv, OutcomesOK, AnswersOK, NEW c \in Calls,
         handler[c] \in {"queued", "running"}, handler'[c] \in {"queued", "running"},
         UNCHANGED <<answer, outcome, msg>>,
         \A d \in Calls : d # c => item'[d] = item[d] /\ handler'[d] = handler[d]
  PROVE  OutcomesOK' /\ AnswersOK'
<1>1. answer[c] # None => answer[c].code = "InvalidArgument"
  BY DEF AnswersOK
<1>2. \A i : \A d \in Calls : d # c => Stage(d, i)' = Stage(d, i)
  BY DEF Stage
<1>3. \A d \in Calls : d # c => At(d, "done")' = At(d, "done")
  BY DEF At, Stage
<1>4. OutcomesOK'
  BY <1>2, <1>3 DEF OutcomesOK
<1>5. AnswersOK'
  BY <1>1, <1>2, <1>3 DEF AnswersOK, AnswersAreTrue
<1>6. QED
  BY <1>4, <1>5

\* A step that leaves items alone, of a call whose answer is unchanged.
LEMMA AnswersKept ==
  ASSUME Inv, OutcomesOK, AnswersOK,
         UNCHANGED <<answer, outcome, item>>,
         \A c \in Calls : \/ UNCHANGED <<msg, handler>>
                          \/ msg'[c] = msg[c] /\ handler'[c] = handler[c]
                          \/ answer[c] = None /\ handler'[c] = "queued"
  PROVE  OutcomesOK' /\ AnswersOK'
<1>1. \A c \in Calls : At(c, "done")' = At(c, "done") /\ \A i : Stage(c, i)' = Stage(c, i)
  BY DEF At, Stage
<1>2. OutcomesOK'
  BY <1>1 DEF OutcomesOK
<1>3. AnswersOK'
  BY <1>1 DEF AnswersOK, AnswersAreTrue
<1>4. QED
  BY <1>2, <1>3

\* What the end of a handler has to hand over.
LEMMA AnswersAtEnd ==
  ASSUME Inv, OutcomesOK, AnswersOK, NEW c \in Calls, NEW code, NEW value,
         Return(c, code, value), UNCHANGED <<item, msg, answer>>,
         handler[c] \in {"queued", "running"},
         code = "OK" /\ msg[c].method \in Writes \ {"ImportOrders"}
            => At(c, "done") = DOMAIN Targets(msg[c]),
         code \notin {"OK", "Plain"} => \A i \in DOMAIN item[c] : Stage(c, i) = "failed"
  PROVE  OutcomesOK' /\ AnswersOK'
<1>1. \A d \in Calls : At(d, "done")' = At(d, "done") /\ \A i : Stage(d, i)' = Stage(d, i)
  BY DEF At, Stage
<1>2. /\ handler'[c] = "finished"
      /\ \A d \in Calls : d # c => handler'[d] = handler[d] /\ outcome'[d] = outcome[d]
      /\ answer[c] = None => outcome'[c].code = code
  BY DEF Return, Inv, TypeOK, Domains
<1>3. OutcomesOK'
  BY <1>1, <1>2 DEF OutcomesOK
<1>4. AnswersOK'
  <2>1. answer[c] # None => answer[c].code = "InvalidArgument"
    BY DEF AnswersOK
  <2>2. QED
    BY <1>1, <1>2, <2>1 DEF AnswersOK, AnswersAreTrue
<1>5. QED
  BY <1>3, <1>4

LEMMA AnswersFinish ==
  ASSUME Inv, OutcomesOK, AnswersOK, NEW c \in Calls, Finish(c)
  PROVE  OutcomesOK' /\ AnswersOK'
<1>1. /\ UNCHANGED <<item, msg, answer>> /\ handler[c] = "running"
      /\ \A i \in DOMAIN item[c] : Stage(c, i) \in {"done", "lost", "failed"}
      /\ msg[c].method \in Writes
  BY DEF Finish, batch
<1>2. DOMAIN item[c] = DOMAIN Targets(msg[c])
  BY <1>1 DEF Inv, CallsOK
<1>3. CASE msg[c].method = "ImportOrders"
  <2>1. PICK value : Return(c, "OK", value)
    BY <1>3 DEF Finish, Ok
  <2>2. QED
    BY <1>1, <1>3, <2>1, AnswersAtEnd
<1>4. CASE msg[c].method # "ImportOrders" /\ failure[c] = None
  <2>1. PICK value : Return(c, "OK", value)
    BY <1>4 DEF Finish, Ok
  <2>2. \A i \in DOMAIN item[c] : Stage(c, i) = "done"
    BY <1>1, <1>4 DEF Inv, FailuresOK
  <2>3. At(c, "done") = DOMAIN Targets(msg[c])
    BY <1>2, <2>2 DEF At
  <2>4. QED
    BY <1>1, <2>1, <2>3, AnswersAtEnd
<1>5. CASE msg[c].method = "ProcessOrders" /\ failure[c] # None
  <2>1. Return(c, "Plain", None)
    BY <1>5 DEF Finish
  <2>2. QED
    BY <1>1, <2>1, AnswersAtEnd
<1>6. CASE msg[c].method \in {"AcceptOrder", "ReturnOrder"} /\ failure[c] # None
  <2>1. Return(c, failure[c].code, None)
    BY <1>6 DEF Finish
  <2>2. failure[c].code \in Errors
    BY <1>6 DEF Inv, FailuresOK
  <2>3. failure[c].code # "OK"
    BY <2>2 DEF Errors, Naming
  <2>4. DOMAIN item[c] = {1}
    <3>1. Targets(msg[c]) = <<msg[c].order>>
      BY <1>6 DEF Targets
    <3>2. QED
      BY <1>2, <3>1
  <2>5. failure[c].code # "Plain" => \A i \in DOMAIN item[c] : Stage(c, i) = "failed"
    BY <1>6, <2>4 DEF Inv, FailuresOK
  <2>6. QED
    BY <1>1, <2>1, <2>3, <2>5, AnswersAtEnd
<1>7. QED
  BY <1>1, <1>3, <1>4, <1>5, <1>6 DEF Writes

LEMMA AnswersOther ==
  ASSUME Inv, OutcomesOK, AnswersOK, NEW c \in Calls,
         Skip(c) \/ Read(c) \/ ReadFails(c)
  PROVE  OutcomesOK' /\ AnswersOK'
<1>1. UNCHANGED <<item, msg, answer>> /\ handler[c] \in {"queued", "running"}
  BY DEF Skip, Read, ReadFails, Reading, batch
<1>2. CASE Skip(c) \/ ReadFails(c)
  <2>1. Return(c, "Plain", None)
    BY <1>2 DEF Skip, ReadFails
  <2>2. QED
    BY <1>1, <2>1, AnswersAtEnd
<1>3. CASE Read(c)
  <2>1. \/ Return(c, "NotFound", None)
        \/ \E value : Return(c, "OK", value)
    BY <1>3 DEF Read, Ok
  <2>2. msg[c].method \notin Writes /\ handler[c] = "running"
    BY <1>3 DEF Read, Reading
  <2>3. DOMAIN item[c] = {}
    <3>1. Targets(msg[c]) = <<>>
      BY <2>2 DEF Targets, Writes
    <3>2. QED
      BY <2>2, <3>1 DEF Inv, CallsOK
  <2>4. QED
    BY <1>1, <2>1, <2>2, <2>3, AnswersAtEnd
<1>4. QED
  BY <1>2, <1>3

\* An answer is told.
LEMMA AnswersTold ==
  ASSUME NoneIsNoAnswer, Inv, OutcomesOK, AnswersOK, NEW c \in Calls,
         \/ RejectLimited(c) \/ (\E m \in Messages[c] : RejectInvalid(c, m))
         \/ Respond(c) \/ TimeOut(c)
  PROVE  OutcomesOK' /\ AnswersOK'
<1>1. /\ UNCHANGED <<item, msg, handler>> /\ answer[c] = None
      /\ \A d \in Calls : d # c => outcome'[d] = outcome[d]
  BY DEF RejectLimited, RejectInvalid, Arrive, Respond, TimeOut, Over, batch, Inv, Domains
<1>2. PICK code, value :
         /\ Tell(c, code, value)
         /\ code \in Succeeded /\ msg[c].method \in Writes \ {"ImportOrders"}
               => At(c, "done") = DOMAIN Targets(msg[c])
         /\ code \in Named => \A i \in DOMAIN item[c] : Stage(c, i) = "failed"
         /\ handler[c] \in {"queued", "running"} => code = "InvalidArgument"
  <2>1. CASE RejectLimited(c)
    <3>1. Tell(c, "ResourceExhausted", None) /\ msg[c] = None
      BY <2>1 DEF RejectLimited, Arrive
    <3>2. handler[c] = "none" /\ item[c] = <<>>
      BY <3>1 DEF Inv, CallsOK
    <3>3. QED
      BY <3>1, <3>2 DEF Succeeded
  <2>2. CASE (\E m \in Messages[c] : RejectInvalid(c, m)) \/ TimeOut(c)
    <3>1. Tell(c, "InvalidArgument", None)
      BY <2>2, MappedCodes DEF RejectInvalid, TimeOut
    <3>2. QED
      BY <3>1 DEF Succeeded, Named
  <2>3. CASE Respond(c)
    <3>1. handler[c] = "finished" /\ answer[c] = None
      BY <2>3 DEF Respond
    <3>2. CASE outcome[c].code # "OK"
      <4>1. Tell(c, MapErrorToGRPCStatus(outcome[c].code), None)
        BY <2>3, <3>2 DEF Respond
      <4>2. outcome[c].code # "Plain" => \A i \in DOMAIN item[c] : Stage(c, i) = "failed"
        BY <3>1, <3>2 DEF OutcomesOK
      <4>3. QED
        BY <3>1, <4>1, <4>2, MappedCodes DEF Named
    <3>3. CASE outcome[c].code = "OK"
      <4>1. (\E value : Tell(c, "OK", value)) \/ Tell(c, "DeadlineExceeded", None)
        BY <2>3, <3>3 DEF Respond
      <4>2. msg[c].method \in Writes \ {"ImportOrders"}
               => At(c, "done") = DOMAIN Targets(msg[c])
        BY <3>1, <3>3 DEF OutcomesOK
      <4>3. QED
        BY <3>1, <4>1, <4>2 DEF Named
    <3>4. QED
      BY <3>2, <3>3
  <2>4. QED
    BY <2>1, <2>2, <2>3
<1>3. /\ answer'[c] # None /\ answer'[c].code = code
      /\ \A d \in Calls : d # c => answer'[d] = answer[d]
  BY <1>2 DEF Tell, Inv, Domains, NoneIsNoAnswer
<1>4. \A d \in Calls : At(d, "done")' = At(d, "done") /\ \A i : Stage(d, i)' = Stage(d, i)
  BY <1>1 DEF At, Stage
<1>5. OutcomesOK'
  BY <1>1, <1>3, <1>4 DEF OutcomesOK
<1>6. AnswersOK'
  BY <1>1, <1>2, <1>3, <1>4 DEF AnswersOK, AnswersAreTrue, Succeeded, Named
<1>7. QED
  BY <1>5, <1>6

LEMMA AnswersStep ==
  ASSUME NoneIsNoAnswer, Inv, OutcomesOK, AnswersOK, [Next]_vars
  PROVE  OutcomesOK' /\ AnswersOK'
<1>1. ASSUME NEW c \in Calls, NEW i \in DOMAIN item[c],
             \/ Decide(c, i) \/ Stamp(c, i) \/ Refuse(c, i)
             \/ Commit(c, i) \/ Lose(c, i) \/ Break(c, i)
      PROVE  OutcomesOK' /\ AnswersOK'
  <2>1. handler[c] = "running" /\ UNCHANGED <<handler, answer, outcome, msg>>
    BY <1>1 DEF Decide, Stamp, Refuse, Commit, Lose, Break, MayCommit
  <2>2. \E stage, change : Move(c, i, stage, change)
    BY <1>1 DEF Decide, Stamp, Refuse, Commit, Lose, Break, Fails
  <2>3. \A d \in Calls : d # c => item'[d] = item[d]
    BY <2>2, ItemChanges
  <2>4. QED
    BY <2>1, <2>3, AnswersAtWork
<1>2. ASSUME NEW c \in Calls, Begin(c)
      PROVE  OutcomesOK' /\ AnswersOK'
  <2>1. /\ handler[c] = "queued" /\ handler'[c] = "running"
        /\ UNCHANGED <<answer, outcome, msg>>
        /\ \A d \in Calls : d # c => item'[d] = item[d] /\ handler'[d] = handler[d]
    BY <1>2 DEF Begin, Inv, TypeOK, Domains
  <2>2. QED
    BY <2>1, AnswersAtWork
<1>3. ASSUME NEW c \in Calls, NEW m \in Messages[c], Submit(c, m)
      PROVE  OutcomesOK' /\ AnswersOK'
  <2>1. /\ UNCHANGED <<answer, outcome, item>> /\ answer[c] = None /\ handler'[c] = "queued"
        /\ \A d \in Calls : d # c => msg'[d] = msg[d] /\ handler'[d] = handler[d]
    BY <1>3 DEF Submit, Arrive, batch, Inv, TypeOK, Domains
  <2>2. QED
    BY <2>1, AnswersKept
<1>4. CASE \/ Tick \/ NewPeriod \/ UNCHANGED vars
           \/ \E c \in Calls : Expire(c)
  <2>1. UNCHANGED <<answer, outcome, item, msg, handler>>
    BY <1>4 DEF Tick, NewPeriod, vars, batch, Expire
  <2>2. QED
    BY <2>1, AnswersKept
<1>5. QED
  BY <1>1, <1>2, <1>3, <1>4, AnswersFinish, AnswersOther, AnswersTold DEF Next, Rest

\* What a client is told is true, however late and whatever failed: success
\* is told of changes that are all committed, a reason only when nothing is.
THEOREM ServerIsHonest == NoneIsNoAnswer /\ Spec => []AnswersAreTrue
<1> SUFFICES ASSUME NoneIsNoAnswer PROVE Spec => []AnswersAreTrue
  OBVIOUS
<1>1. Inv /\ OutcomesOK /\ AnswersOK /\ [Next]_vars => OutcomesOK' /\ AnswersOK'
  BY AnswersStep
<1>2. AnswersOK => AnswersAreTrue
  BY DEF AnswersOK
<1>3. QED
  BY <1>1, <1>2, AnswersInit, ServerInvariance, PTL DEF Spec
=============================================================================
