------------------------- MODULE ServerRecordsProofs -------------------------
(***************************************************************************)
(* What the server keeps of what it did, and shows of it: the rows of the  *)
(* orders it has accepted are those that were sent, the business counters  *)
(* are those of the changes it has committed, and the lists are pages of   *)
(* the rows sorted by their last update.                                   *)
(***************************************************************************)
EXTENDS OrdersServerProofs, ListingsProofs

-----------------------------------------------------------------------------
(* An order is stored as it was sent.                                      *)

\* A request that was let in has passed its rules, at some time.
MessagesOK ==
    \A c \in Calls : handler[c] # "none" =>
        \E now \in 0..MaxTime : ValidateAll(msg[c], now) = {}

Sent(c, i) == [receiver |-> Order(c, i).user, until |-> StorageUntil(c, i)]

Boxed(c, i) == [weight |-> Order(c, i).weight, code |-> Code(c, i),
                price |-> TotalPrice(Code(c, i), Order(c, i).price)]

\* The row an item has inserted is there.
Inserts(c, i) ==
    /\ terms[Target(c, i)] = Sent(c, i) /\ terms[Target(c, i)] # None
    /\ parcel[Target(c, i)] = Boxed(c, i)
    /\ Storable(Code(c, i))

\* An item that accepts has looked at the weight before it commits.
RowsOK ==
    \A c \in Calls : \A i \in DOMAIN item[c] : Accepting(c) =>
        /\ Stage(c, i) \in {"committing", "done", "lost"}
              => ~TooHeavy(Code(c, i), Order(c, i).weight)
        /\ Stage(c, i) \in {"done", "lost"} => Inserts(c, i)

\* An order that passes its rules weighs something and costs something.
LEMMA OrderRules ==
  ASSUME NEW m, NEW now, AcceptOrderErrors(m, now) = {}
  PROVE  m.weight > 0 /\ m.price > 0
<1>1. Rule("Weight", m.weight > 0) = {} /\ Rule("Price", m.price > 0) = {}
  BY DEF AcceptOrderErrors
<1>2. QED
  BY <1>1, Zenon DEF Rule

LEMMA RulesOfParcels ==
  ASSUME NEW m, NEW now, ValidateAll(m, now) = {}
  PROVE  \A p \in Parcels(m) : p.weight > 0 /\ p.price > 0
<1>1. CASE m.method = "AcceptOrder"
  <2>1. AcceptOrderErrors(m, now) = {} /\ Parcels(m) = {m}
    BY <1>1 DEF ValidateAll, Parcels
  <2>2. m.weight > 0 /\ m.price > 0
    BY <2>1, OrderRules
  <2>3. QED
    BY <2>1, <2>2
<1>2. CASE m.method = "ImportOrders"
  <2>1. /\ ImportOrdersErrors(m, now) = {}
        /\ Parcels(m) = {m.orders[i] : i \in DOMAIN m.orders}
    BY <1>2 DEF ValidateAll, Parcels
  <2>2. \A i \in DOMAIN m.orders : AcceptOrderErrors(m.orders[i], now) = {}
    BY <2>1, Zenon DEF ImportOrdersErrors, Rule
  <2>3. \A i \in DOMAIN m.orders : m.orders[i].weight > 0 /\ m.orders[i].price > 0
    BY <2>2, OrderRules
  <2>4. QED
    BY <2>1, <2>3
<1>3. CASE m.method \notin {"AcceptOrder", "ImportOrders"}
  BY <1>3 DEF Parcels
<1>4. QED
  BY <1>1, <1>2, <1>3

LEMMA MessagesStep ==
  ASSUME Inv, MessagesOK, [Next]_vars
  PROVE  MessagesOK'
<1>1. ASSUME NEW c \in Calls, NEW m \in Messages[c], Submit(c, m)
      PROVE  MessagesOK'
  <2>1. /\ msg'[c] = m
        /\ \A d \in Calls : d # c => msg'[d] = msg[d] /\ handler'[d] = handler[d]
    BY <1>1 DEF Submit, Inv, TypeOK, Domains
  <2>2. clock \in 0..MaxTime /\ ValidateAll(m, clock) = {}
    BY <1>1 DEF Submit, Inv, TypeOK
  <2>3. QED
    BY <2>1, <2>2 DEF MessagesOK
<1>2. ASSUME UNCHANGED msg, \A d \in Calls : handler'[d] # handler[d] => handler[d] # "none"
      PROVE  MessagesOK'
  BY <1>2 DEF MessagesOK
<1>3. ASSUME NEW c \in Calls, NEW i \in DOMAIN item[c],
             \/ Decide(c, i) \/ Stamp(c, i) \/ Refuse(c, i)
             \/ Commit(c, i) \/ Lose(c, i) \/ Break(c, i)
      PROVE  MessagesOK'
  BY <1>2, <1>3 DEF Decide, Stamp, Refuse, Commit, Lose, Break
<1>4. ASSUME NEW c \in Calls,
             \/ RejectLimited(c) \/ (\E m \in Messages[c] : RejectInvalid(c, m))
             \/ Expire(c) \/ Respond(c) \/ TimeOut(c)
      PROVE  MessagesOK'
  BY <1>2, <1>4 DEF RejectLimited, RejectInvalid, Expire, Respond, TimeOut
<1>5. ASSUME NEW c \in Calls, Begin(c) \/ Skip(c) \/ Finish(c) \/ Read(c) \/ ReadFails(c)
      PROVE  MessagesOK'
  <2>1. /\ handler[c] \in {"queued", "running"} /\ UNCHANGED msg
        /\ \E h : handler' = [handler EXCEPT ![c] = h]
    BY <1>5 DEF Begin, Skip, Finish, Read, ReadFails, Reading, Return, Ok
  <2>2. \A d \in Calls : d # c => handler'[d] = handler[d]
    BY <2>1 DEF Inv, TypeOK
  <2>3. QED
    BY <1>2, <2>1, <2>2
<1>6. CASE Tick \/ NewPeriod \/ UNCHANGED vars
  BY <1>2, <1>6 DEF Tick, NewPeriod, vars
<1>7. QED
  BY <1>1, <1>3, <1>4, <1>5, <1>6 DEF Next, Rest

\* What an item means does not change while its call has its message.
LEMMA SameRequest ==
  ASSUME NEW c, msg'[c] = msg[c]
  PROVE  /\ Accepting(c)' = Accepting(c) /\ Returning(c)' = Returning(c)
         /\ \A i : /\ Order(c, i)' = Order(c, i) /\ Target(c, i)' = Target(c, i)
                   /\ Code(c, i)' = Code(c, i) /\ StorageUntil(c, i)' = StorageUntil(c, i)
                   /\ Sent(c, i)' = Sent(c, i) /\ Boxed(c, i)' = Boxed(c, i)
<1>1. \A i : Order(c, i)' = Order(c, i) /\ Target(c, i)' = Target(c, i)
  BY DEF Order, Target
<1>2. \A i : Code(c, i)' = Code(c, i) /\ StorageUntil(c, i)' = StorageUntil(c, i)
  BY <1>1 DEF Code, StorageUntil
<1>3. \A i : Sent(c, i)' = Sent(c, i) /\ Boxed(c, i)' = Boxed(c, i)
  BY <1>1, <1>2 DEF Sent, Boxed
<1>4. Accepting(c)' = Accepting(c) /\ Returning(c)' = Returning(c)
  BY DEF Accepting, Returning
<1>5. QED
  BY <1>1, <1>2, <1>3, <1>4

\* An item has a message, and the order it is about.
LEMMA ItemHasOrder ==
  ASSUME Inv, NEW c \in Calls, NEW i \in DOMAIN item[c]
  PROVE  /\ handler[c] \in {"running", "finished"}
         /\ Target(c, i) \in Orders
         /\ Accepting(c) => /\ Order(c, i) \in Parcels(msg[c])
                            /\ Order(c, i).order = Target(c, i)
<1>1. /\ handler[c] \in {"running", "finished"} /\ Target(c, i) \in Orders
      /\ i \in DOMAIN Targets(msg[c])
  BY AnItem DEF Inv, TypeOK
<1>2. CASE msg[c].method = "ImportOrders"
  <2>1. Targets(msg[c]) = [k \in DOMAIN msg[c].orders |-> msg[c].orders[k].order]
    BY <1>2 DEF Targets
  <2>2. QED
    BY <1>1, <1>2, <2>1 DEF Parcels, Order, Target
<1>3. CASE msg[c].method = "AcceptOrder"
  <2>1. Targets(msg[c]) = <<msg[c].order>>
    BY <1>3 DEF Targets
  <2>2. QED
    BY <1>1, <1>3, <2>1 DEF Parcels, Order, Target
<1>4. QED
  BY <1>1, <1>2, <1>3 DEF Accepting

\* Rows are there to stay: what is left to show is what one item did.
LEMMA RowsKept ==
  ASSUME Inv, RowsOK,
         \A o \in Orders : terms[o] # None => terms'[o] = terms[o] /\ parcel'[o] = parcel[o],
         \A c \in Calls : item'[c] # <<>> => msg'[c] = msg[c],
         \A c \in Calls : \A i \in DOMAIN item'[c] :
            \/ i \in DOMAIN item[c] /\ item'[c][i].stage = Stage(c, i)
            \/ item'[c][i].stage \in {"waiting", "failed"}
            \/ item'[c][i].stage = "committing" /\
                 (Accepting(c) => ~TooHeavy(Code(c, i), Order(c, i).weight))
            \/ /\ item'[c][i].stage \in {"done", "lost"}
               /\ i \in DOMAIN item[c] /\ Stage(c, i) = "committing"
               /\ Accepting(c) => Inserts(c, i)'
  PROVE  RowsOK'
<1> SUFFICES ASSUME NEW c \in Calls, NEW i \in DOMAIN item'[c], Accepting(c)'
             PROVE  /\ item'[c][i].stage \in {"committing", "done", "lost"}
                          => ~TooHeavy(Code(c, i), Order(c, i).weight)'
                    /\ item'[c][i].stage \in {"done", "lost"} => Inserts(c, i)'
  BY DEF RowsOK, Stage
<1>1. item'[c] # <<>>
  OBVIOUS
<1>2. msg'[c] = msg[c]
  BY <1>1
<1>3. /\ Accepting(c) /\ Order(c, i)' = Order(c, i) /\ Target(c, i)' = Target(c, i)
      /\ Code(c, i)' = Code(c, i)
      /\ Sent(c, i)' = Sent(c, i) /\ Boxed(c, i)' = Boxed(c, i)
  BY <1>2, SameRequest
<1>4. ASSUME i \in DOMAIN item[c], Inserts(c, i) PROVE Inserts(c, i)'
  <2>1. Target(c, i) \in Orders
    BY <1>4, ItemHasOrder
  <2>2. QED
    BY <1>3, <1>4, <2>1 DEF Inserts
<1>5. QED
  BY <1>3, <1>4 DEF RowsOK

\* An order that is accepted is not too heavy for its package.
LEMMA AcceptLight ==
  ASSUME NEW c, NEW i, NEW found, AcceptError(c, i, found) = None
  PROVE  ~TooHeavy(Code(c, i), Order(c, i).weight)
<1> DEFINE checks == <<Check(found, "AlreadyExists"),
                       Check(TooHeavy(Code(c, i), Order(c, i).weight), "WeightTooHeavy")>>
<1>1. DOMAIN checks = 1..2 /\ \A k \in 1..2 : checks[k].code \in Errors
  BY DEF Check, Errors, Naming
<1>2. AcceptError(c, i, found) = FirstFailed(checks)
  BY DEF AcceptError
<1>3. checks[2].fails = TooHeavy(Code(c, i), Order(c, i).weight)
  BY DEF Check
<1> HIDE DEF checks
<1>4. FirstFailed(checks) = None => ~checks[2].fails
  BY <1>1, FirstFailure
<1>5. QED
  BY <1>2, <1>3, <1>4, Zenon

\* A commit changes no row that was there, and inserts what was sent.
LEMMA CommitKeepsRows ==
  ASSUME Inv, NEW c \in Calls, NEW i \in DOMAIN item[c],
         MayCommit(c, i), WriteTables(c, i), UNCHANGED msg
  PROVE  /\ \A o \in Orders : terms[o] # None =>
              terms'[o] = terms[o] /\ parcel'[o] = parcel[o]
         /\ Accepting(c) => Inserts(c, i)'
<1>1. Target(c, i) \in Orders
  BY ItemHasOrder
<1>2. DOMAIN terms = Orders /\ DOMAIN parcel = Orders
  BY DEF Inv, TypeOK, Domains
<1>3. CASE Accepting(c)
  <2>1. /\ terms[Target(c, i)] = None
        /\ Sent(c, i) \in [receiver : Receivers, until : 0..Horizon]
        /\ Storable(Code(c, i))
    BY <1>3, Inserted, InsertCode DEF Sent, MayCommit
  <2>2. /\ terms' = [terms EXCEPT ![Target(c, i)] = Sent(c, i)]
        /\ parcel' = [parcel EXCEPT ![Target(c, i)] = Boxed(c, i)]
    BY <1>3 DEF WriteTables, Sent, Boxed
  <2>3. Sent(c, i) # None
    BY <2>1, InstanceAssumption
  <2>4. /\ terms'[Target(c, i)] = Sent(c, i) /\ parcel'[Target(c, i)] = Boxed(c, i)
        /\ \A o \in Orders : o # Target(c, i) =>
             terms'[o] = terms[o] /\ parcel'[o] = parcel[o]
    BY <1>1, <1>2, <2>2
  <2>5. Inserts(c, i)'
    BY <2>1, <2>3, <2>4, SameRequest DEF Inserts
  <2>6. QED
    BY <2>1, <2>4, <2>5
<1>4. CASE ~Accepting(c)
  BY <1>4 DEF WriteTables
<1>5. QED
  BY <1>3, <1>4

LEMMA RowsStep ==
  ASSUME Inv, RowsOK, [Next]_vars
  PROVE  RowsOK'
<1>1. ASSUME NEW c \in Calls, NEW i \in DOMAIN item[c], NEW stage, NEW change,
             Move(c, i, stage, change), UNCHANGED msg,
             \A o \in Orders : terms[o] # None =>
                terms'[o] = terms[o] /\ parcel'[o] = parcel[o],
             \/ stage = "failed"
             \/ stage = "committing" /\
                  (Accepting(c) => ~TooHeavy(Code(c, i), Order(c, i).weight))
             \/ /\ stage \in {"done", "lost"} /\ Stage(c, i) = "committing"
                /\ Accepting(c) => Inserts(c, i)'
      PROVE  RowsOK'
  <2>1. /\ DOMAIN item'[c] = DOMAIN item[c] /\ item'[c][i].stage = stage
        /\ \A j \in DOMAIN item[c] : j # i => item'[c][j] = item[c][j]
        /\ \A d \in Calls : d # c => item'[d] = item[d]
    BY <1>1, ItemChanges
  <2>2. ASSUME NEW d \in Calls, NEW j \in DOMAIN item'[d], ~(d = c /\ j = i)
        PROVE  j \in DOMAIN item[d] /\ item'[d][j].stage = Stage(d, j)
    BY <2>1, <2>2 DEF Stage
  <2>3. QED
    BY <1>1, <2>1, <2>2, RowsKept
<1>2. ASSUME NEW c \in Calls, NEW i \in DOMAIN item[c], Decide(c, i)
      PROVE  RowsOK'
  <2>1. UNCHANGED <<tables, msg>>
    BY <1>2 DEF Decide
  <2>2. PICK v \in Verdicts(c, i) :
           \/ v.error # None /\ Move(c, i, "failed", None)
           \/ v.error = None /\ Move(c, i, "committing", v.change)
    BY <1>2 DEF Decide, Fails
  <2>3. Accepting(c) /\ v.error = None => ~TooHeavy(Code(c, i), Order(c, i).weight)
    <3>1. ASSUME Accepting(c), v.error = None
          PROVE  ~TooHeavy(Code(c, i), Order(c, i).weight)
      <4>1. PICK found : v = Verdict(AcceptError(c, i, found), InStorage, clock)
        BY <3>1 DEF Verdicts
      <4>2. AcceptError(c, i, found) = None
        BY <3>1, <4>1 DEF Verdict
      <4>3. QED
        BY <4>2, AcceptLight
    <3>2. QED
      BY <3>1
  <2>4. QED
    BY <1>1, <2>1, <2>2, <2>3 DEF tables
<1>3. ASSUME NEW c \in Calls, NEW i \in DOMAIN item[c], Stamp(c, i)
       PROVE  RowsOK'
  <2>1. UNCHANGED <<tables, msg>> /\ \E change : Move(c, i, "committing", change)
    BY <1>3 DEF Stamp
  <2>2. ~Accepting(c)
    BY <1>3 DEF Stamp, Accepting
  <2>3. QED
    BY <1>1, <2>1, <2>2 DEF tables
<1>4. ASSUME NEW c \in Calls, NEW i \in DOMAIN item[c], Refuse(c, i) \/ Break(c, i)
      PROVE  RowsOK'
  <2>1. UNCHANGED <<tables, msg>> /\ Move(c, i, "failed", None)
    BY <1>4 DEF Refuse, Break, Fails
  <2>2. QED
    BY <1>1, <2>1 DEF tables
<1>5. ASSUME NEW c \in Calls, NEW i \in DOMAIN item[c], Commit(c, i) \/ Lose(c, i)
      PROVE  RowsOK'
  <2>1. /\ MayCommit(c, i) /\ WriteTables(c, i) /\ UNCHANGED msg
        /\ Stage(c, i) = "committing"
    BY <1>5 DEF Commit, Lose, MayCommit
  <2>2. \E stage \in {"done", "lost"} : Move(c, i, stage, item[c][i].change)
    BY <1>5 DEF Commit, Lose
  <2>3. QED
    BY <1>1, <2>1, <2>2, CommitKeepsRows
<1>6. ASSUME UNCHANGED <<tables, item>>,
             \A c \in Calls : item[c] # <<>> => msg'[c] = msg[c]
      PROVE  RowsOK'
  <2>1. \A c \in Calls : \A i \in DOMAIN item'[c] :
           i \in DOMAIN item[c] /\ item'[c][i].stage = Stage(c, i)
    BY <1>6 DEF Stage
  <2>2. QED
    BY <1>6, <2>1, RowsKept DEF tables
<1>7. ASSUME NEW c \in Calls, NEW m \in Messages[c], Submit(c, m)
      PROVE  RowsOK'
  <2>1. item[c] = <<>> /\ UNCHANGED <<tables, item>>
    BY <1>7 DEF Submit, Arrive, batch, Inv, CallsOK
  <2>2. \A d \in Calls : d # c => msg'[d] = msg[d]
    BY <1>7 DEF Submit, Inv, Domains
  <2>3. QED
    BY <1>6, <2>1, <2>2
<1>8. ASSUME NEW c \in Calls, Begin(c)
      PROVE  RowsOK'
  <2>1. /\ UNCHANGED <<tables, msg>>
        /\ \A i \in DOMAIN item'[c] : item'[c][i].stage = "waiting"
        /\ \A d \in Calls : d # c => item'[d] = item[d]
    BY <1>8 DEF Begin, Inv, Domains
  <2>2. \A d \in Calls : d # c => \A i \in DOMAIN item'[d] :
           i \in DOMAIN item[d] /\ item'[d][i].stage = Stage(d, i)
    BY <2>1 DEF Stage
  <2>3. QED
    BY <2>1, <2>2, RowsKept DEF tables
<1>9. ASSUME NEW c \in Calls,
             \/ RejectLimited(c) \/ (\E m \in Messages[c] : RejectInvalid(c, m))
             \/ Expire(c) \/ Respond(c) \/ TimeOut(c)
             \/ Skip(c) \/ Finish(c) \/ Read(c) \/ ReadFails(c)
      PROVE  RowsOK'
  <2>1. UNCHANGED <<tables, item, msg>>
    BY <1>9 DEF RejectLimited, RejectInvalid, Arrive, Expire, Respond, TimeOut,
                Skip, Finish, Read, ReadFails, batch
  <2>2. QED
    BY <1>6, <2>1
<1>10. CASE Tick \/ NewPeriod \/ UNCHANGED vars
  BY <1>6, <1>10 DEF Tick, NewPeriod, vars, batch
<1>11. QED
  BY <1>2, <1>3, <1>4, <1>5, <1>7, <1>8, <1>9, <1>10 DEF Next, Rest

\* The package of a code is the one the code was made from.
LEMMA PackagesBack ==
  ASSUME NEW p, mapPackageTypeToString(p) \in Codes
  PROVE  mapStringToPackageType(mapPackageTypeToString(p)) = p
<1>1. /\ "" \notin Codes
      /\ DOMAIN PackageNames = {"BAG", "BOX", "TAPE", "BAG_TAPE", "BOX_TAPE"}
  BY DEF Codes, PackageTypes, PackageNames
<1>2. p \in DOMAIN PackageNames /\ mapPackageTypeToString(p) = PackageNames[p]
  BY <1>1 DEF mapPackageTypeToString
<1>3. \A q \in DOMAIN PackageNames : PackageNames[q] = PackageNames[p] => q = p
  <2>1. /\ PackageNames["BAG"] = "bag" /\ PackageNames["BOX"] = "box"
        /\ PackageNames["TAPE"] = "film" /\ PackageNames["BAG_TAPE"] = "bag+film"
        /\ PackageNames["BOX_TAPE"] = "box+film"
    BY DEF PackageNames
  <2>2. QED
    BY <1>1, <1>2, <2>1
<1>4. (CHOOSE q \in DOMAIN PackageNames : PackageNames[q] = PackageNames[p]) = p
  BY <1>2, <1>3
<1>5. QED
  BY <1>2, <1>4 DEF mapStringToPackageType

\* Every package has its price.
LEMMA PackagesCost == \A code \in Codes : PackageTypes[code].extra \in Nat \ {0}
BY DEF Codes, PackageTypes

\* A parcel that is not too heavy keeps to the limit of its package.
LEMMA PackagesHold ==
  ASSUME NEW code \in Codes, NEW weight \in Nat, ~TooHeavy(code, weight)
  PROVE  PackageTypes[code].max > 0 => weight <= PackageTypes[code].max
<1>1. PackageTypes[code].max \in Nat
  BY DEF Codes, PackageTypes
<1>2. QED
  BY <1>1 DEF TooHeavy

LEMMA RowsAsSent ==
  ASSUME Inv, MessagesOK, RowsOK
  PROVE  StoredAsSent
<1> SUFFICES ASSUME NEW c \in Calls, NEW i \in DOMAIN item[c], Accepting(c),
                    Stage(c, i) \in {"done", "lost"}
             PROVE  LET sent == Order(c, i)
                        shown == mapDomainOrderToProto(Row(sent.order))
                        limit == PackageTypes[Code(c, i)].max
                    IN /\ shown.user = sent.user /\ shown.package = sent.package
                       /\ shown.weight = sent.weight /\ sent.weight > 0
                       /\ limit > 0 => sent.weight <= limit
                       /\ shown.price > sent.price /\ sent.price > 0
                       /\ shown.expires \in {sent.expires,
                                             sent.expires - (sent.expires % Day)}
  BY DEF StoredAsSent
<1> DEFINE sent == Order(c, i)
           shown == mapDomainOrderToProto(Row(sent.order))
<1>1. /\ ~TooHeavy(Code(c, i), sent.weight) /\ Inserts(c, i)
  BY DEF RowsOK
<1>2. /\ handler[c] \in {"running", "finished"} /\ sent \in Parcels(msg[c])
      /\ sent.order = Target(c, i)
  BY ItemHasOrder
<1>3. /\ sent.weight > 0 /\ sent.price > 0
      /\ sent.price \in Nat /\ sent.weight \in Nat
  <2>1. PICK now \in 0..MaxTime : ValidateAll(msg[c], now) = {}
    BY <1>2 DEF MessagesOK
  <2>2. WellFormed(msg[c])
    BY <1>2 DEF Inv, CallsOK
  <2>3. QED
    BY <1>2, <2>1, <2>2, RulesOfParcels DEF WellFormed
<1>4. /\ shown.user = terms[Target(c, i)].receiver
      /\ shown.expires = terms[Target(c, i)].until
      /\ shown.weight = parcel[Target(c, i)].weight
      /\ shown.price = parcel[Target(c, i)].price
      /\ shown.package = mapStringToPackageType(parcel[Target(c, i)].code)
  BY <1>2 DEF mapDomainOrderToProto, Row
<1>5. /\ shown.user = sent.user /\ shown.expires = StorageUntil(c, i)
      /\ shown.weight = sent.weight
      /\ shown.price = TotalPrice(Code(c, i), sent.price)
      /\ shown.package = mapStringToPackageType(Code(c, i))
      /\ Code(c, i) \in Codes
  BY <1>1, <1>4 DEF Inserts, Sent, Boxed, Storable
<1>6. shown.package = sent.package
  BY <1>5, PackagesBack DEF Code
<1>7. PackageTypes[Code(c, i)].max > 0 => sent.weight <= PackageTypes[Code(c, i)].max
  BY <1>1, <1>3, <1>5, PackagesHold
<1>8. shown.expires \in {sent.expires, sent.expires - (sent.expires % Day)}
  BY <1>5 DEF StorageUntil
<1> HIDE DEF sent, shown
<1>9. shown.price > sent.price
  <2>1. shown.price = sent.price + PackageTypes[Code(c, i)].extra
    BY <1>5 DEF TotalPrice
  <2>2. PackageTypes[Code(c, i)].extra \in Nat \ {0}
    BY <1>5, PackagesCost
  <2>3. QED
    BY <1>3, <2>1, <2>2
<1>10. QED
  BY <1>3, <1>5, <1>6, <1>7, <1>8, <1>9 DEF sent, shown

\* An order is stored and shown as it was sent, whatever else calls do to it
\* and whatever they were told.
THEOREM OrdersAreStoredAsSent == Spec => []StoredAsSent
<1>1. Init => MessagesOK /\ RowsOK
  BY DEF Init, MessagesOK, RowsOK
<1>2. Inv /\ MessagesOK /\ RowsOK /\ [Next]_vars => MessagesOK' /\ RowsOK'
  BY MessagesStep, RowsStep
<1>3. Inv /\ MessagesOK /\ RowsOK => StoredAsSent
  BY RowsAsSent
<1>4. QED
  BY <1>1, <1>2, <1>3, ServerInvariance, PTL DEF Spec

-----------------------------------------------------------------------------
(* The counters.                                                           *)

\* The statuses the changes of a request lead to.
StatusesOf(c) ==
    IF Accepting(c) THEN {InStorage}
    ELSE IF msg[c].method = "ReturnOrder" THEN CourierStatuses
    ELSE IF msg[c].action = "ISSUE" THEN {GivenToClient} ELSE {ReturnedFromClient}

\* An item at work and one that was committed have a change of their request.
ChangesOK ==
    \A c \in Calls : \A i \in DOMAIN item[c] :
        Stage(c, i) \in {"committing", "done", "lost"} =>
            item[c][i].change \in Changes /\ item[c][i].change.status \in StatusesOf(c)

FinishedOf(items) == {x \in items : handler[x[1]] = "finished"}

Accepted == Items({"done"}, {InStorage})
Issued == FinishedOf(Items({"done"}, {GivenToClient}))
ByClient == FinishedOf(Items({"done"}, {ReturnedFromClient}))
ToCourier == Items({"done", "lost"}, CourierStatuses)

\* Each counter is the size of a finite set of items, or at least that.
CountsOK ==
    /\ IsFiniteSet(Accepted) /\ counted["accepted"] = Cardinality(Accepted)
    /\ IsFiniteSet(Issued) /\ counted["issued"] = Cardinality(Issued)
    /\ IsFiniteSet(ByClient) /\ counted["by_client"] = Cardinality(ByClient)
    /\ IsFiniteSet(ToCourier) /\ counted["to_courier"] >= Cardinality(ToCourier)

\* The items of a request are about orders to accept, to hand over, to issue
\* or to take back.
LEMMA KindsOfItems ==
  ASSUME Inv, NEW c \in Calls, NEW i \in DOMAIN item[c]
  PROVE  \/ Accepting(c) /\ msg[c].method \in {"AcceptOrder", "ImportOrders"}
         \/ ~Accepting(c) /\ msg[c].method = "ReturnOrder"
         \/ /\ ~Accepting(c) /\ msg[c].method = "ProcessOrders"
            /\ msg[c].action \in {"ISSUE", "RETURN"}
<1>1. WellFormed(msg[c]) /\ i \in DOMAIN Targets(msg[c])
  BY AnItem DEF Inv, TypeOK
<1>2. CASE msg[c].method = "ProcessOrders"
  BY <1>1, <1>2 DEF WellFormed, ActionTypes, Accepting
<1>3. CASE msg[c].method \notin {"AcceptOrder", "ImportOrders", "ReturnOrder", "ProcessOrders"}
  <2>1. Targets(msg[c]) = <<>>
    BY <1>3 DEF Targets
  <2>2. QED
    BY <1>1, <2>1
<1>4. QED
  BY <1>2, <1>3 DEF Accepting

\* What the operation decides without an error leads to a status of its own.
LEMMA JudgedStatus ==
  ASSUME Inv, NEW c \in Calls, NEW i \in DOMAIN item[c], ~Accepting(c), NEW e
  PROVE  Judge(c, Target(c, i), e).change.status \in StatusesOf(c)
<1>1. CASE msg[c].method = "ReturnOrder"
  BY <1>1 DEF Judge, Verdict, StatusesOf, CourierStatuses
<1>2. CASE msg[c].method = "ProcessOrders" /\ msg[c].action = "ISSUE"
  BY <1>2 DEF Judge, Verdict, StatusesOf
<1>3. CASE msg[c].method = "ProcessOrders" /\ msg[c].action = "RETURN"
  BY <1>3 DEF Judge, Verdict, StatusesOf
<1>4. QED
  BY <1>1, <1>2, <1>3, KindsOfItems

\* The one item that moves.
LEMMA ChangesMove ==
  ASSUME Inv, ChangesOK, UNCHANGED msg, NEW c \in Calls, NEW i \in DOMAIN item[c],
         NEW stage, NEW change, Move(c, i, stage, change),
         stage \in {"committing", "done", "lost"} =>
            change \in Changes /\ change.status \in StatusesOf(c)
  PROVE  ChangesOK'
<1>1. /\ DOMAIN item'[c] = DOMAIN item[c]
      /\ item'[c][i].stage = stage /\ item'[c][i].change = change
      /\ \A j \in DOMAIN item[c] : j # i => item'[c][j] = item[c][j]
      /\ \A d \in Calls : d # c => item'[d] = item[d]
  BY ItemChanges
<1>2. \A d \in Calls : StatusesOf(d)' = StatusesOf(d)
  BY DEF StatusesOf, Accepting
<1>3. ASSUME NEW d \in Calls, NEW j \in DOMAIN item'[d],
             item'[d][j].stage \in {"committing", "done", "lost"}
      PROVE  item'[d][j].change \in Changes /\ item'[d][j].change.status \in StatusesOf(d)
  <2>1. CASE d = c /\ j = i
    BY <1>1, <1>3, <2>1
  <2>2. CASE ~(d = c /\ j = i)
    <3>1. j \in DOMAIN item[d] /\ item'[d][j] = item[d][j]
      BY <1>1, <2>2
    <3>2. QED
      BY <1>3, <3>1 DEF ChangesOK, Stage
  <2>3. QED
    BY <2>1, <2>2
<1>4. QED
  BY <1>2, <1>3 DEF ChangesOK, Stage

LEMMA ChangesKept ==
  ASSUME ChangesOK, UNCHANGED item,
         \A c \in Calls : item[c] # <<>> => msg'[c] = msg[c]
  PROVE  ChangesOK'
<1> SUFFICES ASSUME NEW c \in Calls, NEW i \in DOMAIN item[c],
                    Stage(c, i) \in {"committing", "done", "lost"}
             PROVE  /\ item[c][i].change \in Changes
                    /\ item[c][i].change.status \in StatusesOf(c)'
  BY DEF ChangesOK, Stage
<1>1. item[c] # <<>>
  OBVIOUS
<1>2. StatusesOf(c)' = StatusesOf(c)
  BY <1>1 DEF StatusesOf, Accepting
<1>3. QED
  BY <1>2 DEF ChangesOK

LEMMA DecidedStatus ==
  ASSUME Inv, NEW c \in Calls, NEW i \in DOMAIN item[c], NEW v \in Verdicts(c, i),
         v.error = None
  PROVE  v.change \in Changes /\ v.change.status \in StatusesOf(c)
<1>1. CASE Accepting(c)
  <2>1. PICK found : v = Verdict(AcceptError(c, i, found), InStorage, clock)
    BY <1>1 DEF Verdicts
  <2>2. v.change = [status |-> InStorage, at |-> clock]
    BY <2>1 DEF Verdict
  <2>3. QED
    BY <1>1, <2>2 DEF Changes, Statuses, StatusesOf, Inv, TypeOK
<1>2. CASE ~Accepting(c) /\ terms[Target(c, i)] = None
  <2>1. v.error = "NotFound"
    BY <1>2 DEF Verdicts, Verdict
  <2>2. QED
    BY <2>1, InstanceAssumption DEF Errors
<1>3. CASE ~Accepting(c) /\ terms[Target(c, i)] # None
  <2>1. PICK k \in DOMAIN ledger[Target(c, i)] :
           v = Judge(c, Target(c, i), ledger[Target(c, i)][k])
    BY <1>3 DEF Verdicts
  <2>2. Target(c, i) \in Orders
    BY ItemHasOrder
  <2>3. ledger[Target(c, i)] \in Seq(Changes)
    BY <2>2 DEF Inv, TypeOK
  <2>4. ledger[Target(c, i)][k] \in Changes
    BY <2>3
  <2>5. v.change \in Changes
    BY <1>3, <2>1, <2>2, <2>4, JudgedLawfully DEF Inv
  <2>6. QED
    BY <1>3, <2>1, <2>5, JudgedStatus
<1>4. QED
  BY <1>1, <1>2, <1>3

LEMMA ChangesStep ==
  ASSUME Inv, ChangesOK, [Next]_vars
  PROVE  ChangesOK'
<1>1. ASSUME NEW c \in Calls, NEW i \in DOMAIN item[c], Decide(c, i)
      PROVE  ChangesOK'
  <2>1. UNCHANGED msg
    BY <1>1 DEF Decide
  <2>2. PICK v \in Verdicts(c, i) :
           \/ v.error # None /\ Move(c, i, "failed", None)
           \/ v.error = None /\ Move(c, i, "committing", v.change)
    BY <1>1 DEF Decide, Fails
  <2>3. QED
    BY <2>1, <2>2, DecidedStatus, ChangesMove
<1>2. ASSUME NEW c \in Calls, NEW i \in DOMAIN item[c], Stamp(c, i)
      PROVE  ChangesOK'
  <2>1. PICK new : new = [item[c][i].change EXCEPT !.at = clock]
    OBVIOUS
  <2>2. UNCHANGED msg /\ Stage(c, i) = "committing" /\ Move(c, i, "committing", new)
    BY <1>2, <2>1 DEF Stamp
  <2>3. item[c][i].change \in Changes /\ item[c][i].change.status \in StatusesOf(c)
    BY <2>2 DEF ChangesOK
  <2>4. new \in Changes /\ new.status \in StatusesOf(c)
    BY <2>1, <2>3 DEF Changes, Inv, TypeOK
  <2>5. QED
    BY <2>2, <2>4, ChangesMove
<1>3. ASSUME NEW c \in Calls, NEW i \in DOMAIN item[c], Refuse(c, i) \/ Break(c, i)
      PROVE  ChangesOK'
  <2>1. UNCHANGED msg /\ Move(c, i, "failed", None)
    BY <1>3 DEF Refuse, Break, Fails
  <2>2. QED
    BY <2>1, ChangesMove
<1>4. ASSUME NEW c \in Calls, NEW i \in DOMAIN item[c], Commit(c, i) \/ Lose(c, i)
      PROVE  ChangesOK'
  <2>1. UNCHANGED msg /\ Stage(c, i) = "committing"
    BY <1>4 DEF Commit, Lose, MayCommit
  <2>2. PICK stage \in {"done", "lost"} : Move(c, i, stage, item[c][i].change)
    BY <1>4 DEF Commit, Lose
  <2>3. item[c][i].change \in Changes /\ item[c][i].change.status \in StatusesOf(c)
    BY <2>1 DEF ChangesOK
  <2>4. QED
    BY <2>1, <2>2, <2>3, ChangesMove
<1>5. ASSUME NEW c \in Calls, NEW m \in Messages[c], Submit(c, m)
      PROVE  ChangesOK'
  <2>1. item[c] = <<>> /\ UNCHANGED item
    BY <1>5 DEF Submit, Arrive, batch, Inv, CallsOK
  <2>2. \A d \in Calls : d # c => msg'[d] = msg[d]
    BY <1>5 DEF Submit, Inv, Domains
  <2>3. QED
    BY <2>1, <2>2, ChangesKept
<1>6. ASSUME NEW c \in Calls, Begin(c)
      PROVE  ChangesOK'
  <2>1. /\ UNCHANGED msg
        /\ \A i \in DOMAIN item'[c] : item'[c][i].stage = "waiting"
        /\ \A d \in Calls : d # c => item'[d] = item[d]
    BY <1>6 DEF Begin, Inv, Domains
  <2>2. \A d \in Calls : StatusesOf(d)' = StatusesOf(d)
    BY <2>1 DEF StatusesOf, Accepting
  <2>3. QED
    BY <2>1, <2>2 DEF ChangesOK, Stage
<1>7. ASSUME NEW c \in Calls,
             \/ RejectLimited(c) \/ (\E m \in Messages[c] : RejectInvalid(c, m))
             \/ Expire(c) \/ Respond(c) \/ TimeOut(c)
             \/ Skip(c) \/ Finish(c) \/ Read(c) \/ ReadFails(c)
      PROVE  ChangesOK'
  <2>1. UNCHANGED <<item, msg>>
    BY <1>7 DEF RejectLimited, RejectInvalid, Arrive, Expire, Respond, TimeOut,
                Skip, Finish, Read, ReadFails, batch
  <2>2. QED
    BY <2>1, ChangesKept
<1>8. CASE Tick \/ NewPeriod \/ UNCHANGED vars
  BY <1>8, ChangesKept DEF Tick, NewPeriod, vars, batch
<1>9. QED
  BY <1>1, <1>2, <1>3, <1>4, <1>5, <1>6, <1>7, <1>8 DEF Next, Rest

LEMMA ItemsOf ==
  ASSUME NEW stages, NEW statuses, NEW c \in Calls, NEW i \in DOMAIN item[c],
         Stage(c, i) \in stages,
         item[c][i].change # None => item[c][i].change.status \in statuses
  PROVE  <<c, i>> \in Items(stages, statuses)
BY DEF Items

LEMMA ItemsAre ==
  ASSUME NEW stages, NEW statuses, NEW x \in Items(stages, statuses)
  PROVE  \E c \in Calls : \E i \in DOMAIN item[c] :
            /\ x = <<c, i>> /\ Stage(c, i) \in stages
            /\ item[c][i].change # None => item[c][i].change.status \in statuses
BY DEF Items

\* An item that moves is new to a set of items that have been committed.
LEMMA ItemsMove ==
  ASSUME Inv, NEW c \in Calls, NEW i \in DOMAIN item[c], NEW stage, NEW change,
         Move(c, i, stage, change), Stage(c, i) \in {"waiting", "committing"},
         NEW stages \in SUBSET {"done", "lost"}, NEW statuses
  PROVE  /\ <<c, i>> \notin Items(stages, statuses)
         /\ Items(stages, statuses)' =
              IF stage \in stages /\ (change # None => change.status \in statuses)
              THEN Items(stages, statuses) \cup {<<c, i>>} ELSE Items(stages, statuses)
<1> DEFINE new == IF stage \in stages /\ (change # None => change.status \in statuses)
                  THEN {<<c, i>>} ELSE {}
<1>1. /\ DOMAIN item'[c] = DOMAIN item[c]
      /\ item'[c][i].stage = stage /\ item'[c][i].change = change
      /\ \A j \in DOMAIN item[c] : j # i => item'[c][j] = item[c][j]
      /\ \A d \in Calls : d # c => item'[d] = item[d]
  BY ItemChanges
<1>2. <<c, i>> \notin Items(stages, statuses)
  BY DEF Items
<1>3. ASSUME NEW d \in Calls, NEW j \in DOMAIN item[d]
      PROVE  <<d, j>> \in Items(stages, statuses)'
                <=> <<d, j>> \in Items(stages, statuses) \cup new
  <2>1. <<d, j>> \in Items(stages, statuses)' <=>
           /\ item'[d][j].stage \in stages
           /\ item'[d][j].change # None => item'[d][j].change.status \in statuses
    BY <1>1 DEF Items, Stage
  <2>2. <<d, j>> \in Items(stages, statuses) <=>
           /\ item[d][j].stage \in stages
           /\ item[d][j].change # None => item[d][j].change.status \in statuses
    BY DEF Items, Stage
  <2>3. CASE d = c /\ j = i
    BY <1>1, <1>2, <2>1, <2>3
  <2>4. CASE ~(d = c /\ j = i)
    <3>1. item'[d][j] = item[d][j] /\ <<d, j>> # <<c, i>>
      BY <1>1, <2>4
    <3>2. QED
      BY <2>1, <2>2, <3>1
  <2>5. QED
    BY <2>3, <2>4
<1>4. Items(stages, statuses)' = Items(stages, statuses) \cup new
  <2>1. \A x \in Items(stages, statuses)' : \E d \in Calls : \E j \in DOMAIN item[d] : x = <<d, j>>
    BY <1>1 DEF Items
  <2>2. \A x \in Items(stages, statuses) \cup new :
           \E d \in Calls : \E j \in DOMAIN item[d] : x = <<d, j>>
    BY DEF Items
  <2> HIDE DEF new
  <2>3. QED
    BY <1>3, <2>1, <2>2
<1>5. QED
  BY <1>2, <1>4

\* What the four sets become when an item moves.
LEMMA CountedMove ==
  ASSUME Inv, NEW c \in Calls, NEW i \in DOMAIN item[c], NEW stage, NEW change,
         Move(c, i, stage, change), Stage(c, i) \in {"waiting", "committing"},
         handler[c] = "running", UNCHANGED handler,
         stage \in {"done", "lost"} => change \in Changes
  PROVE  /\ <<c, i>> \notin Accepted /\ <<c, i>> \notin ToCourier
         /\ Issued' = Issued /\ ByClient' = ByClient
         /\ Accepted' = IF stage = "done" /\ change.status = InStorage
                        THEN Accepted \cup {<<c, i>>} ELSE Accepted
         /\ ToCourier' = IF stage \in {"done", "lost"} /\ change.status \in CourierStatuses
                         THEN ToCourier \cup {<<c, i>>} ELSE ToCourier
<1>1. stage \in {"done", "lost"} => change # None
  BY InstanceAssumption
<1>2. ASSUME NEW stages \in SUBSET {"done", "lost"}, NEW statuses
      PROVE  /\ <<c, i>> \notin Items(stages, statuses)
             /\ Items(stages, statuses)' =
                  IF stage \in stages /\ change.status \in statuses
                  THEN Items(stages, statuses) \cup {<<c, i>>} ELSE Items(stages, statuses)
  <2>1. /\ <<c, i>> \notin Items(stages, statuses)
        /\ Items(stages, statuses)' =
             IF stage \in stages /\ (change # None => change.status \in statuses)
             THEN Items(stages, statuses) \cup {<<c, i>>} ELSE Items(stages, statuses)
    BY ItemsMove
  <2>2. stage \in stages => change # None
    BY <1>1
  <2>3. QED
    BY <2>1, <2>2
<1>3. Issued' = Issued
  <2>1. PICK stages \in SUBSET {"done", "lost"}, statuses \in {{GivenToClient}} :
           stages = {"done"}
    OBVIOUS
  <2>2. Issued = FinishedOf(Items(stages, statuses))
    BY <2>1 DEF Issued
  <2>3. Issued' = FinishedOf(Items(stages, statuses))'
    BY <2>1 DEF Issued, FinishedOf, Items
  <2>4. \A x : /\ x \in Items(stages, statuses)'
               /\ handler[x[1]] = "finished"
              <=> x \in Items(stages, statuses) /\ handler[x[1]] = "finished"
    BY <1>2
  <2>5. QED
    BY <2>2, <2>3, <2>4 DEF FinishedOf
<1>4. ByClient' = ByClient
  <2>1. PICK stages \in SUBSET {"done", "lost"}, statuses \in {{ReturnedFromClient}} :
           stages = {"done"}
    OBVIOUS
  <2>2. ByClient = FinishedOf(Items(stages, statuses))
    BY <2>1 DEF ByClient
  <2>3. ByClient' = FinishedOf(Items(stages, statuses))'
    BY <2>1 DEF ByClient, FinishedOf, Items
  <2>4. \A x : /\ x \in Items(stages, statuses)'
               /\ handler[x[1]] = "finished"
              <=> x \in Items(stages, statuses) /\ handler[x[1]] = "finished"
    BY <1>2
  <2>5. QED
    BY <2>2, <2>3, <2>4 DEF FinishedOf
<1>5. /\ <<c, i>> \notin Accepted
      /\ Accepted' = IF stage = "done" /\ change.status = InStorage
                     THEN Accepted \cup {<<c, i>>} ELSE Accepted
  <2>1. PICK stages \in SUBSET {"done", "lost"}, statuses \in {{InStorage}} :
           stages = {"done"}
    OBVIOUS
  <2>2. Accepted = Items(stages, statuses)
    BY <2>1 DEF Accepted
  <2>3. Accepted' = Items(stages, statuses)'
    BY <2>1 DEF Accepted, Items
  <2>4. QED
    BY <1>2, <2>1, <2>2, <2>3
<1>6. /\ <<c, i>> \notin ToCourier
      /\ ToCourier' = IF stage \in {"done", "lost"} /\ change.status \in CourierStatuses
                      THEN ToCourier \cup {<<c, i>>} ELSE ToCourier
  <2>1. PICK stages \in SUBSET {"done", "lost"}, statuses \in {CourierStatuses} :
           stages = {"done", "lost"}
    OBVIOUS
  <2>2. ToCourier = Items(stages, statuses)
    BY <2>1 DEF ToCourier
  <2>3. ToCourier' = Items(stages, statuses)'
    BY <2>1 DEF ToCourier, Items
  <2>4. QED
    BY <1>2, <2>1, <2>2, <2>3
<1>7. QED
  BY <1>3, <1>4, <1>5, <1>6

\* An item that does not commit.
LEMMA CountsUncommitted ==
  ASSUME Inv, CountsOK, NEW c \in Calls, NEW i \in DOMAIN item[c],
         NEW stage \in {"committing", "failed"}, NEW change, Move(c, i, stage, change),
         Stage(c, i) \in {"waiting", "committing"},
         handler[c] = "running", UNCHANGED handler,
         UNCHANGED counted \/ Count("to_courier", 1)
  PROVE  CountsOK'
<1>1. Accepted' = Accepted /\ Issued' = Issued /\ ByClient' = ByClient /\ ToCourier' = ToCourier
  BY CountedMove
<1>2. /\ \A n \in {"accepted", "issued", "by_client"} : counted'[n] = counted[n]
      /\ counted'["to_courier"] >= counted["to_courier"]
      /\ counted["to_courier"] \in Nat /\ counted'["to_courier"] \in Nat
  BY DEF Count, Inv, TypeOK, Counters
<1>3. Cardinality(ToCourier) \in Nat
  BY FS_CardinalityType DEF CountsOK
<1>4. counted'["to_courier"] >= Cardinality(ToCourier)
  BY <1>2, <1>3 DEF CountsOK
<1>5. QED
  BY <1>1, <1>2, <1>4 DEF CountsOK

\* One item is committed, and counted as its operation says.
LEMMA CountsCommitted ==
  ASSUME Inv, ChangesOK, CountsOK, NEW c \in Calls, NEW i \in DOMAIN item[c],
         Commit(c, i) \/ Lose(c, i)
  PROVE  CountsOK'
<1>1. PICK stage \in {"done", "lost"} :
         /\ Move(c, i, stage, item[c][i].change)
         /\ \/ stage = "done" /\ Commit(c, i)
            \/ stage = "lost" /\ Lose(c, i)
  BY DEF Commit, Lose
<1>2. /\ Stage(c, i) = "committing" /\ handler[c] = "running" /\ UNCHANGED handler
  BY DEF Commit, Lose, MayCommit
<1>3. /\ item[c][i].change \in Changes
      /\ item[c][i].change.status \in StatusesOf(c)
  BY <1>2 DEF ChangesOK
<1> DEFINE status == item[c][i].change.status
<1>4. /\ <<c, i>> \notin Accepted /\ <<c, i>> \notin ToCourier
      /\ Issued' = Issued /\ ByClient' = ByClient
      /\ Accepted' = IF stage = "done" /\ status = InStorage
                     THEN Accepted \cup {<<c, i>>} ELSE Accepted
      /\ ToCourier' = IF status \in CourierStatuses
                      THEN ToCourier \cup {<<c, i>>} ELSE ToCourier
  BY <1>1, <1>2, <1>3, CountedMove
<1>5. /\ IsFiniteSet(Accepted) /\ IsFiniteSet(ToCourier)
      /\ Cardinality(Accepted) \in Nat /\ Cardinality(ToCourier) \in Nat
  BY FS_CardinalityType DEF CountsOK
<1>6. /\ IsFiniteSet(Accepted \cup {<<c, i>>})
      /\ Cardinality(Accepted \cup {<<c, i>>}) = Cardinality(Accepted) + 1
      /\ IsFiniteSet(ToCourier \cup {<<c, i>>})
      /\ Cardinality(ToCourier \cup {<<c, i>>}) = Cardinality(ToCourier) + 1
  BY <1>4, <1>5, FS_AddElement
<1> HIDE DEF status
<1>7. /\ counted \in [Counters -> Nat]
      /\ {"accepted", "issued", "by_client", "to_courier"} = Counters
  BY DEF Inv, TypeOK, Counters
<1>8. CASE Accepting(c)
  <2>1. status = InStorage /\ status \notin CourierStatuses
    BY <1>3, <1>8 DEF StatusesOf, status, CourierStatuses, InStorage,
                      ReturnedWithoutClient, GivenToCourier
  <2>2. CASE stage = "done"
    <3>1. Count("accepted", 1)
      <4>1. stage # "lost"
        BY <2>2
      <4>2. Commit(c, i)
        BY <1>1, <4>1
      <4>3. QED
        BY <1>8, <4>2 DEF Commit, Accepting
    <3>2. /\ counted'["accepted"] = counted["accepted"] + 1
          /\ counted'["issued"] = counted["issued"]
          /\ counted'["by_client"] = counted["by_client"]
          /\ counted'["to_courier"] = counted["to_courier"]
      BY <1>7, <3>1 DEF Count
    <3>3. QED
      BY <1>4, <1>6, <2>1, <2>2, <3>2 DEF CountsOK
  <2>3. CASE stage = "lost"
    <3>1. UNCHANGED counted
      BY <1>1, <1>8, <2>3 DEF Lose, Accepting
    <3>2. QED
      BY <1>4, <2>1, <2>3, <3>1 DEF CountsOK
  <2>4. QED
    BY <2>2, <2>3
<1>9. CASE ~Accepting(c) /\ msg[c].method = "ReturnOrder"
  <2>1. status \in CourierStatuses /\ status # InStorage
    BY <1>3, <1>9 DEF StatusesOf, status, CourierStatuses, InStorage,
                      ReturnedWithoutClient, GivenToCourier
  <2>2. Count("to_courier", 1)
    BY <1>1, <1>9 DEF Commit, Lose
  <2>3. /\ counted'["accepted"] = counted["accepted"]
        /\ counted'["issued"] = counted["issued"]
        /\ counted'["by_client"] = counted["by_client"]
        /\ counted'["to_courier"] = counted["to_courier"] + 1
        /\ counted["to_courier"] \in Nat
    BY <1>7, <2>2 DEF Count
  <2>4. counted'["to_courier"] >= Cardinality(ToCourier) + 1
    BY <1>5, <2>3 DEF CountsOK
  <2>5. QED
    BY <1>4, <1>6, <2>1, <2>3, <2>4 DEF CountsOK
<1>10. CASE ~Accepting(c) /\ msg[c].method # "ReturnOrder"
  <2>1. status # InStorage /\ status \notin CourierStatuses
    BY <1>3, <1>10 DEF StatusesOf, status, CourierStatuses, InStorage,
                       GivenToClient, ReturnedFromClient,
                       ReturnedWithoutClient, GivenToCourier
  <2>2. UNCHANGED counted
    BY <1>1, <1>10 DEF Commit, Lose
  <2>3. QED
    BY <1>4, <2>1, <2>2 DEF CountsOK
<1>11. QED
  BY <1>8, <1>9, <1>10

\* A call whose committed items and end are what they were, or that has none.
LEMMA CountsKept ==
  ASSUME CountsOK, UNCHANGED counted,
         \A c \in Calls :
            \/ /\ item'[c] = item[c]
               /\ handler'[c] = "finished" <=> handler[c] = "finished"
            \/ /\ \A i \in DOMAIN item[c] : item[c][i].stage \notin {"done", "lost"}
               /\ \A i \in DOMAIN item'[c] : item'[c][i].stage \notin {"done", "lost"}
  PROVE  CountsOK'
<1>1. ASSUME NEW stages \in SUBSET {"done", "lost"}, NEW statuses
      PROVE  /\ Items(stages, statuses)' = Items(stages, statuses)
             /\ \A x \in Items(stages, statuses) :
                   handler'[x[1]] = "finished" <=> handler[x[1]] = "finished"
  <2>1. ASSUME NEW c \in Calls
        PROVE  /\ \A i \in DOMAIN item'[c] : <<c, i>> \in Items(stages, statuses)'
                     => i \in DOMAIN item[c] /\ <<c, i>> \in Items(stages, statuses)
               /\ \A i \in DOMAIN item[c] : <<c, i>> \in Items(stages, statuses)
                     => /\ i \in DOMAIN item'[c] /\ <<c, i>> \in Items(stages, statuses)'
                        /\ handler'[c] = "finished" <=> handler[c] = "finished"
    <3>1. CASE /\ item'[c] = item[c]
               /\ handler'[c] = "finished" <=> handler[c] = "finished"
      BY <3>1 DEF Items, Stage
    <3>2. CASE /\ \A i \in DOMAIN item[c] : item[c][i].stage \notin {"done", "lost"}
               /\ \A i \in DOMAIN item'[c] : item'[c][i].stage \notin {"done", "lost"}
      BY <3>2 DEF Items, Stage
    <3>3. QED
      BY <3>1, <3>2
  <2>2. /\ \A x \in Items(stages, statuses) : \E c \in Calls : \E i \in DOMAIN item[c] : x = <<c, i>>
        /\ \A x \in Items(stages, statuses)' : \E c \in Calls : \E i \in DOMAIN item'[c] : x = <<c, i>>
    BY DEF Items
  <2>3. \A x \in Items(stages, statuses)' : x \in Items(stages, statuses)
    BY <2>1, <2>2
  <2>4. ASSUME NEW x \in Items(stages, statuses)
        PROVE  /\ x \in Items(stages, statuses)'
               /\ handler'[x[1]] = "finished" <=> handler[x[1]] = "finished"
    <3>1. PICK c \in Calls : \E i \in DOMAIN item[c] : x = <<c, i>>
      BY <2>2
    <3>2. PICK i \in DOMAIN item[c] : x = <<c, i>>
      BY <3>1
    <3>3. QED
      BY <2>1, <2>4, <3>2
  <2>5. QED
    BY <2>3, <2>4
<1>2. PICK done \in SUBSET {"done", "lost"}, both \in SUBSET {"done", "lost"} :
         done = {"done"} /\ both = {"done", "lost"}
  OBVIOUS
<1>3. ASSUME NEW s
      PROVE  FinishedOf(Items(done, {s}))' = FinishedOf(Items(done, {s}))
  <2>1. PICK statuses : statuses = {s}
    OBVIOUS
  <2>2. FinishedOf(Items(done, statuses))' = FinishedOf(Items(done, statuses))
    BY <1>1 DEF FinishedOf
  <2>3. QED
    BY <2>1, <2>2 DEF FinishedOf, Items
<1>4. Issued' = Issued /\ ByClient' = ByClient
  BY <1>2, <1>3 DEF Issued, ByClient, FinishedOf, Items
<1>5. Accepted' = Accepted
  <2>1. PICK statuses \in {{InStorage}} : TRUE
    OBVIOUS
  <2>2. Accepted = Items(done, statuses) /\ Accepted' = Items(done, statuses)'
    BY <1>2, <2>1 DEF Accepted, Items
  <2>3. QED
    BY <1>1, <2>2
<1>6. ToCourier' = ToCourier
  <2>1. PICK statuses \in {CourierStatuses} : TRUE
    OBVIOUS
  <2>2. ToCourier = Items(both, statuses) /\ ToCourier' = Items(both, statuses)'
    BY <1>2, <2>1 DEF ToCourier, Items
  <2>3. QED
    BY <1>1, <2>2
<1>7. QED
  BY <1>4, <1>5, <1>6 DEF CountsOK

\* The end of a call adds its committed items to those of calls that are over.
LEMMA ItemsFinish ==
  ASSUME NEW c \in Calls, UNCHANGED item, handler[c] # "finished",
         handler'[c] = "finished",
         \A d \in Calls : d # c => handler'[d] = handler[d], NEW s
  PROVE  /\ FinishedOf(Items({"done"}, {s})) \cap ({c} \X At(c, "done")) = {}
         /\ (\A i \in At(c, "done") : item[c][i].change # None /\ item[c][i].change.status # s)
              => FinishedOf(Items({"done"}, {s}))' = FinishedOf(Items({"done"}, {s}))
         /\ (\A i \in At(c, "done") : item[c][i].change.status = s)
              => FinishedOf(Items({"done"}, {s}))' =
                   FinishedOf(Items({"done"}, {s})) \cup ({c} \X At(c, "done"))
<1> DEFINE items == FinishedOf(Items({"done"}, {s}))
           after == FinishedOf(Items({"done"}, {s}))'
           new == {c} \X At(c, "done")
           In(d, i) == Stage(d, i) = "done" /\
                         (item[d][i].change # None => item[d][i].change.status = s)
<1>1. ASSUME NEW x
      PROVE  /\ x \in items <=> \E d \in Calls : \E i \in DOMAIN item[d] :
                                   x = <<d, i>> /\ In(d, i) /\ handler[d] = "finished"
             /\ x \in after <=> \E d \in Calls : \E i \in DOMAIN item[d] :
                                   x = <<d, i>> /\ In(d, i) /\ handler'[d] = "finished"
             /\ x \in new <=> \E i \in DOMAIN item[c] : x = <<c, i>> /\ Stage(c, i) = "done"
  <2>1. x \in items <=> \E d \in Calls : \E i \in DOMAIN item[d] :
                           x = <<d, i>> /\ In(d, i) /\ handler[d] = "finished"
    BY DEF FinishedOf, Items
  <2>2. x \in after <=> \E d \in Calls : \E i \in DOMAIN item[d] :
                           x = <<d, i>> /\ In(d, i) /\ handler'[d] = "finished"
    BY DEF FinishedOf, Items, Stage
  <2>3. x \in new <=> \E i \in DOMAIN item[c] : x = <<c, i>> /\ Stage(c, i) = "done"
    BY DEF At
  <2>4. QED
    BY <2>1, <2>2, <2>3
<1> HIDE DEF items, after, new
<1>2. items \cap new = {}
  BY <1>1
<1>3. ASSUME \A i \in At(c, "done") : item[c][i].change # None /\ item[c][i].change.status # s
      PROVE  after = items
  <2>1. \A i \in DOMAIN item[c] : ~In(c, i)
    BY <1>3 DEF At
  <2> HIDE DEF In
  <2>2. \A x : x \in after <=> x \in items
    BY <1>1, <2>1
  <2>3. QED
    BY <2>2 DEF after, items
<1>4. ASSUME \A i \in At(c, "done") : item[c][i].change.status = s
      PROVE  after = items \cup new
  <2>1. \A i \in DOMAIN item[c] : In(c, i) <=> Stage(c, i) = "done"
    BY <1>4 DEF At
  <2> HIDE DEF In
  <2>2. \A x : x \in after => x \in items \cup new
    BY <1>1, <2>1
  <2>3. \A x : x \in items \cup new => x \in after
    BY <1>1, <2>1
  <2>4. QED
    BY <2>2, <2>3 DEF after, items, new
<1>5. QED
  BY <1>2, <1>3, <1>4 DEF items, after, new

\* The batches count when they are over what they have committed.
LEMMA CountsFinish ==
  ASSUME Inv, ChangesOK, CountsOK, NEW c \in Calls, Finish(c)
  PROVE  CountsOK'
<1> DEFINE new == {c} \X At(c, "done")
           n == Cardinality(At(c, "done"))
<1>1. /\ handler[c] = "running" /\ msg[c].method \in Writes /\ UNCHANGED item
      /\ handler' = [handler EXCEPT ![c] = "finished"]
      /\ IF msg[c].method = "ProcessOrders" THEN Count(Batches[msg[c].action], n)
         ELSE UNCHANGED counted
  BY DEF Finish, Ok, Return, batch
<1>2. /\ handler'[c] = "finished"
      /\ \A d \in Calls : d # c => handler'[d] = handler[d]
  BY <1>1 DEF Inv, TypeOK
<1>3. Accepted' = Accepted /\ ToCourier' = ToCourier
  BY <1>1 DEF Accepted, ToCourier, Items, Stage
<1>4. \A i \in At(c, "done") : /\ item[c][i].change # None
                               /\ item[c][i].change.status \in StatusesOf(c)
  BY InstanceAssumption DEF At, ChangesOK
<1>5. IsFiniteSet(At(c, "done"))
  <2>1. WellFormed(msg[c]) /\ DOMAIN item[c] = DOMAIN Targets(msg[c])
    BY <1>1 DEF Inv, CallsOK
  <2>2. Targets(msg[c]) \in Seq(Orders)
    BY <2>1 DEF WellFormed
  <2>3. DOMAIN item[c] = 1..Len(Targets(msg[c])) /\ Len(Targets(msg[c])) \in Nat
    BY <2>1, <2>2
  <2>4. IsFiniteSet(DOMAIN item[c])
    BY <2>3, FS_Interval
  <2>5. QED
    BY <2>4, FS_Subset DEF At
<1>6. IsFiniteSet(new) /\ Cardinality(new) = n /\ n \in Nat
  <2>1. IsFiniteSet({c}) /\ Cardinality({c}) = 1
    BY FS_Singleton
  <2>2. n \in Nat
    BY <1>5, FS_CardinalityType
  <2>3. IsFiniteSet(new) /\ Cardinality(new) = Cardinality({c}) * n
    BY <1>5, <2>1, FS_Product
  <2>4. QED
    BY <2>1, <2>2, <2>3
<1>7. ASSUME NEW s
      PROVE  /\ FinishedOf(Items({"done"}, {s})) \cap new = {}
             /\ s \notin StatusesOf(c) =>
                  FinishedOf(Items({"done"}, {s}))' = FinishedOf(Items({"done"}, {s}))
             /\ StatusesOf(c) = {s} => FinishedOf(Items({"done"}, {s}))' =
                                         FinishedOf(Items({"done"}, {s})) \cup new
  <2>1. handler[c] # "finished"
    BY <1>1
  <2>2. /\ FinishedOf(Items({"done"}, {s})) \cap ({c} \X At(c, "done")) = {}
        /\ (\A i \in At(c, "done") : item[c][i].change # None /\ item[c][i].change.status # s)
             => FinishedOf(Items({"done"}, {s}))' = FinishedOf(Items({"done"}, {s}))
        /\ (\A i \in At(c, "done") : item[c][i].change.status = s)
             => FinishedOf(Items({"done"}, {s}))' =
                  FinishedOf(Items({"done"}, {s})) \cup ({c} \X At(c, "done"))
    BY <1>1, <1>2, <2>1, ItemsFinish
  <2>3. s \notin StatusesOf(c) => \A i \in At(c, "done") :
           item[c][i].change # None /\ item[c][i].change.status # s
    BY <1>4
  <2>4. StatusesOf(c) = {s} => \A i \in At(c, "done") : item[c][i].change.status = s
    BY <1>4
  <2>5. QED
    BY <2>2, <2>3, <2>4
<1> HIDE DEF new, n
<1>8. /\ Issued \cap new = {}
      /\ GivenToClient \notin StatusesOf(c) => Issued' = Issued
      /\ StatusesOf(c) = {GivenToClient} => Issued' = Issued \cup new
  <2>1. PICK s : s = GivenToClient
    OBVIOUS
  <2>2. /\ Issued = FinishedOf(Items({"done"}, {s}))
        /\ Issued' = FinishedOf(Items({"done"}, {s}))'
    BY <2>1 DEF Issued, FinishedOf, Items
  <2>3. QED
    BY <1>7, <2>1, <2>2
<1>9. /\ ByClient \cap new = {}
      /\ ReturnedFromClient \notin StatusesOf(c) => ByClient' = ByClient
      /\ StatusesOf(c) = {ReturnedFromClient} => ByClient' = ByClient \cup new
  <2>1. PICK s : s = ReturnedFromClient
    OBVIOUS
  <2>2. /\ ByClient = FinishedOf(Items({"done"}, {s}))
        /\ ByClient' = FinishedOf(Items({"done"}, {s}))'
    BY <2>1 DEF ByClient, FinishedOf, Items
  <2>3. QED
    BY <1>7, <2>1, <2>2
<1>10. counted \in [Counters -> Nat]
       /\ {"accepted", "issued", "by_client", "to_courier"} = Counters
  BY DEF Inv, TypeOK, Counters
<1>11. /\ GivenToClient # ReturnedFromClient
       /\ GivenToClient \notin CourierStatuses \cup {InStorage}
       /\ ReturnedFromClient \notin CourierStatuses \cup {InStorage}
  BY DEF GivenToClient, ReturnedFromClient, CourierStatuses, InStorage,
         ReturnedWithoutClient, GivenToCourier
<1>12. CASE msg[c].method # "ProcessOrders"
  <2>1. StatusesOf(c) = {InStorage} \/ StatusesOf(c) = CourierStatuses
    BY <1>1, <1>12 DEF StatusesOf, Accepting, Writes
  <2>2. QED
    BY <1>1, <1>3, <1>8, <1>9, <1>11, <1>12, <2>1 DEF CountsOK
<1>13. CASE msg[c].method = "ProcessOrders" /\ msg[c].action = "ISSUE"
  <2>1. StatusesOf(c) = {GivenToClient} /\ Batches[msg[c].action] = "issued"
    BY <1>13 DEF StatusesOf, Accepting, Batches
  <2>2. Issued' = Issued \cup new /\ ByClient' = ByClient
    BY <1>8, <1>9, <1>11, <2>1
  <2>3. /\ IsFiniteSet(Issued \cup new)
        /\ Cardinality(Issued \cup new) = Cardinality(Issued) + n
    <3>1. /\ IsFiniteSet(Issued \cup new)
          /\ Cardinality(Issued \cup new) =
               Cardinality(Issued) + Cardinality(new) - Cardinality(Issued \cap new)
      BY <1>6, FS_Union DEF CountsOK
    <3>2. Cardinality(Issued \cap new) = 0
      BY <1>8, FS_EmptySet
    <3>3. Cardinality(Issued) \in Nat
      BY FS_CardinalityType DEF CountsOK
    <3>4. QED
      BY <1>6, <3>1, <3>2, <3>3
  <2>4. /\ counted'["issued"] = counted["issued"] + n
        /\ \A m \in {"accepted", "by_client", "to_courier"} : counted'[m] = counted[m]
    BY <1>1, <1>10, <1>13, <2>1 DEF Count
  <2>5. QED
    BY <1>3, <2>2, <2>3, <2>4 DEF CountsOK
<1>14. CASE msg[c].method = "ProcessOrders" /\ msg[c].action # "ISSUE"
  <2>1. StatusesOf(c) = {ReturnedFromClient} /\ Batches[msg[c].action] = "by_client"
    <3>1. WellFormed(msg[c])
      BY <1>1 DEF Inv, CallsOK
    <3>2. msg[c].action = "RETURN"
      BY <1>14, <3>1 DEF WellFormed, ActionTypes
    <3>3. QED
      BY <1>14, <3>2 DEF StatusesOf, Accepting, Batches
  <2>2. ByClient' = ByClient \cup new /\ Issued' = Issued
    BY <1>8, <1>9, <1>11, <2>1
  <2>3. /\ IsFiniteSet(ByClient \cup new)
        /\ Cardinality(ByClient \cup new) = Cardinality(ByClient) + n
    <3>1. /\ IsFiniteSet(ByClient \cup new)
          /\ Cardinality(ByClient \cup new) =
               Cardinality(ByClient) + Cardinality(new) - Cardinality(ByClient \cap new)
      BY <1>6, FS_Union DEF CountsOK
    <3>2. Cardinality(ByClient \cap new) = 0
      BY <1>9, FS_EmptySet
    <3>3. Cardinality(ByClient) \in Nat
      BY FS_CardinalityType DEF CountsOK
    <3>4. QED
      BY <1>6, <3>1, <3>2, <3>3
  <2>4. /\ counted'["by_client"] = counted["by_client"] + n
        /\ \A m \in {"accepted", "issued", "to_courier"} : counted'[m] = counted[m]
    BY <1>1, <1>10, <1>14, <2>1 DEF Count
  <2>5. QED
    BY <1>3, <2>2, <2>3, <2>4 DEF CountsOK
<1>15. QED
  BY <1>12, <1>13, <1>14

LEMMA CountsStep ==
  ASSUME Inv, ChangesOK, CountsOK, [Next]_vars
  PROVE  CountsOK'
<1>1. ASSUME NEW c \in Calls, NEW i \in DOMAIN item[c],
             Decide(c, i) \/ Stamp(c, i) \/ Refuse(c, i) \/ Break(c, i)
      PROVE  CountsOK'
  <2>1. /\ handler[c] = "running" /\ UNCHANGED handler
        /\ Stage(c, i) \in {"waiting", "committing"}
        /\ UNCHANGED counted \/ Count("to_courier", 1)
    BY <1>1 DEF Decide, Stamp, Refuse, Break
  <2>2. \E stage \in {"committing", "failed"} : \E change : Move(c, i, stage, change)
    BY <1>1 DEF Decide, Stamp, Refuse, Break, Fails
  <2>3. QED
    BY <2>1, <2>2, CountsUncommitted
<1>2. ASSUME NEW c \in Calls, NEW m \in Messages[c], Submit(c, m)
      PROVE  CountsOK'
  <2>1. /\ UNCHANGED <<item, counted>>
        /\ handler[c] = "none" /\ handler'[c] = "queued"
        /\ \A d \in Calls : d # c => handler'[d] = handler[d]
    BY <1>2 DEF Submit, Arrive, batch, Inv, TypeOK, CallsOK
  <2>2. QED
    BY <2>1, CountsKept
<1>3. ASSUME NEW c \in Calls, Begin(c)
      PROVE  CountsOK'
  <2>1. /\ UNCHANGED counted /\ item[c] = <<>>
        /\ \A i \in DOMAIN item'[c] : item'[c][i].stage = "waiting"
        /\ \A d \in Calls : d # c => item'[d] = item[d] /\ handler'[d] = handler[d]
    BY <1>3 DEF Begin, Inv, TypeOK, Domains, CallsOK
  <2>2. QED
    BY <2>1, CountsKept
<1>4. ASSUME NEW c \in Calls, Skip(c) \/ Read(c) \/ ReadFails(c)
      PROVE  CountsOK'
  <2>1. /\ UNCHANGED <<item, msg, counted>>
        /\ \A d \in Calls : d # c => handler'[d] = handler[d]
    BY <1>4 DEF Skip, Read, ReadFails, Return, Ok, batch, Inv, TypeOK
  <2>2. DOMAIN item[c] = {}
    <3>1. CASE handler[c] = "queued"
      BY <3>1 DEF Inv, CallsOK
    <3>2. CASE handler[c] = "running" /\ msg[c].method \notin Writes
      <4>1. Targets(msg[c]) = <<>>
        BY <3>2 DEF Targets, Writes
      <4>2. QED
        BY <3>2, <4>1 DEF Inv, CallsOK
    <3>3. QED
      BY <1>4, <3>1, <3>2 DEF Skip, Read, ReadFails, Reading
  <2>3. QED
    BY <2>1, <2>2, CountsKept
<1>5. ASSUME UNCHANGED <<item, handler, counted>>
      PROVE  CountsOK'
  BY <1>5, CountsKept
<1>6. ASSUME NEW c \in Calls,
             \/ RejectLimited(c) \/ (\E m \in Messages[c] : RejectInvalid(c, m))
             \/ Expire(c) \/ Respond(c) \/ TimeOut(c)
      PROVE  CountsOK'
  BY <1>5, <1>6 DEF RejectLimited, RejectInvalid, Arrive, Expire, Respond, TimeOut, batch
<1>7. CASE Tick \/ NewPeriod \/ UNCHANGED vars
  BY <1>5, <1>7 DEF Tick, NewPeriod, vars, batch
<1>8. QED
  BY <1>1, <1>2, <1>3, <1>4, <1>6, <1>7, CountsCommitted, CountsFinish DEF Next, Rest

LEMMA CountsInit == Init => ChangesOK /\ CountsOK
<1> SUFFICES ASSUME Init PROVE ChangesOK /\ CountsOK
  OBVIOUS
<1>1. \A c \in Calls : item[c] = <<>>
  BY DEF Init
<1>2. Accepted = {} /\ Issued = {} /\ ByClient = {} /\ ToCourier = {}
  BY <1>1 DEF Accepted, Issued, ByClient, ToCourier, FinishedOf, Items
<1>3. \A n \in Counters : counted[n] = 0
  BY DEF Init
<1>4. CountsOK
  BY <1>2, <1>3, FS_EmptySet DEF CountsOK, Counters
<1>5. QED
  BY <1>1, <1>4 DEF ChangesOK

\* The counters of the dashboards are right: of what is committed, and told to
\* be, none is missing and none is counted twice, however batches end.
THEOREM CountersFollow == Spec => []CountersFollowTheLedger
<1>1. Inv /\ ChangesOK /\ CountsOK /\ [Next]_vars => ChangesOK' /\ CountsOK'
  BY ChangesStep, CountsStep
<1>2. CountsOK => CountersFollowTheLedger
  BY DEF CountsOK, CountersFollowTheLedger, Accepted, Issued, ByClient, ToCourier, FinishedOf
<1>3. QED
  BY <1>1, <1>2, CountsInit, ServerInvariance, PTL DEF Spec

-----------------------------------------------------------------------------
(* The lists.                                                              *)

\* A handler leaves its result when it finishes, and not before.
ReadsOK == \A c \in Calls : handler[c] # "finished" => outcome[c] = None

LEMMA ReadsInit == Init => ReadsOK
  BY DEF Init, ReadsOK

LEMMA ReadsStep ==
  ASSUME Inv, ReadsOK, [Next]_vars
  PROVE  ReadsOK'
<1>1. ASSUME \A d \in Calls : \/ handler'[d] = "finished" \/ outcome'[d] = None
                              \/ handler'[d] = handler[d] /\ outcome'[d] = outcome[d]
      PROVE  ReadsOK'
  BY <1>1 DEF ReadsOK
<1>2. ASSUME NEW c \in Calls, NEW code, NEW value, Return(c, code, value)
      PROVE  ReadsOK'
  <2>1. /\ handler'[c] = "finished"
        /\ \A d \in Calls : d # c => handler'[d] = handler[d] /\ outcome'[d] = outcome[d]
    BY <1>2 DEF Return, Inv, TypeOK, Domains
  <2>2. QED
    BY <1>1, <2>1
<1>3. ASSUME NEW c \in Calls, Skip(c) \/ Finish(c) \/ Read(c) \/ ReadFails(c)
      PROVE  ReadsOK'
  <2>1. \E code : \E value : Return(c, code, value)
    BY <1>3 DEF Skip, Finish, Read, ReadFails, Ok
  <2>2. QED
    BY <1>2, <2>1
<1>4. ASSUME NEW c \in Calls, (\E m \in Messages[c] : Submit(c, m)) \/ Begin(c)
      PROVE  ReadsOK'
  <2>1. /\ UNCHANGED outcome /\ outcome[c] = None
        /\ \A d \in Calls : d # c => handler'[d] = handler[d]
    BY <1>4 DEF Submit, Arrive, Begin, ReadsOK, Inv, TypeOK, CallsOK
  <2>2. QED
    BY <1>1, <2>1
<1>5. ASSUME NEW c \in Calls, Respond(c) \/ TimeOut(c)
      PROVE  ReadsOK'
  <2>1. UNCHANGED handler /\ \A d \in Calls : outcome'[d] \in {None, outcome[d]}
    BY <1>5 DEF Respond, TimeOut, Over, Inv, Domains
  <2>2. QED
    BY <1>1, <2>1
<1>6. ASSUME UNCHANGED <<handler, outcome>> PROVE ReadsOK'
  BY <1>1, <1>6
<1>7. ASSUME NEW c \in Calls, NEW i \in DOMAIN item[c],
             \/ Decide(c, i) \/ Stamp(c, i) \/ Refuse(c, i)
             \/ Commit(c, i) \/ Lose(c, i) \/ Break(c, i)
      PROVE  ReadsOK'
  BY <1>6, <1>7 DEF Decide, Stamp, Refuse, Commit, Lose, Break
<1>8. ASSUME NEW c \in Calls,
             RejectLimited(c) \/ (\E m \in Messages[c] : RejectInvalid(c, m)) \/ Expire(c)
      PROVE  ReadsOK'
  BY <1>6, <1>8 DEF RejectLimited, RejectInvalid, Arrive, Expire
<1>9. CASE Tick \/ NewPeriod \/ UNCHANGED vars
  BY <1>6, <1>9 DEF Tick, NewPeriod, vars
<1>10. QED
  BY <1>3, <1>4, <1>5, <1>7, <1>8, <1>9 DEF Next, Rest

\* Rows are finitely many, each of an order of its own and of some time.
LEMMA TheRows ==
  ASSUME Inv
  PROVE  /\ IsFiniteSet(Rows)
         /\ \A r \in Rows : r.at \in Nat /\ r.order \in Orders /\ Row(r.order) = r
<1>1. IsFiniteSet(Known)
  BY ServerAssumption, FS_Subset DEF Known
<1>2. IsFiniteSet(Rows)
  <2> DEFINE row == [o \in Known |-> Row(o)]
  <2>1. row \in Surjection(Known, Rows)
    BY DEF Surjection, Rows
  <2> HIDE DEF row
  <2>2. QED
    BY <1>1, <2>1, FS_Surjection
<1>3. ASSUME NEW o \in Known
      PROVE  Row(o).at \in Nat /\ Row(o).order = o
  <2>1. ledger[o] \in Seq(Changes) /\ ledger[o] # <<>>
    BY <1>3 DEF Known, Inv, TypeOK
  <2>2. Last(ledger[o]) \in Changes
    <3>1. Last(ledger[o]) = ledger[o][Len(ledger[o])]
      BY DEF Last
    <3>2. Len(ledger[o]) \in 1..Len(ledger[o])
      BY <2>1
    <3>3. QED
      BY <2>1, <3>1, <3>2
  <2>3. Last(ledger[o]).at \in 0..MaxTime
    BY <2>2 DEF Changes
  <2>4. QED
    BY <2>3 DEF Row
<1>4. ASSUME NEW r \in Rows
      PROVE  r.at \in Nat /\ r.order \in Orders /\ Row(r.order) = r
  <2>1. PICK o \in Known : r = Row(o)
    BY DEF Rows
  <2>2. Row(o).order = o /\ o \in Orders /\ r.at \in Nat
    BY <1>3, <2>1 DEF Known
  <2>3. r.order = o
    BY <2>1, <2>2
  <2>4. QED
    BY <2>1, <2>2, <2>3
<1>5. QED
  BY <1>2, <1>4

\* The orders on a page of some of the rows are those of its ranks.
LEMMA PageOfRows ==
  ASSUME Inv, NEW half \in Nat, Word = half * half,
         NEW rows \in SUBSET Rows, NEW s \in ByLastUpdate(rows),
         NEW p, p # Absent, p.page \in 0..half - 1, p.count \in 0..half - 1, p.count > 0,
         NEW orders, NEW shown, shown = PageOf(s, p),
         orders = [i \in DOMAIN shown |-> shown[i].order]
  PROVE  IsPage(orders, p, rows)
<1>1. /\ IsFiniteSet(rows) /\ \A q \in rows : q.at \in Nat
      /\ \A r \in rows : Row(r.order) = r /\ r.order \in Orders
  BY TheRows, FS_Subset
<1>2. PICK page \in Nat, count \in Nat \ {0} :
         page = p.page /\ count = p.count /\ page < half /\ count < half
  OBVIOUS
<1>3. shown = Paginate(s, page, count)
  BY <1>2 DEF PageOf
<1>4. /\ shown \in Seq(rows)
      /\ Len(shown) = Least(Left(Cardinality(rows), Before(page, count)), count)
      /\ \A i \in 1..Len(shown) : HasRank(shown[i], Before(page, count) + i, rows)
      /\ \A i, j \in 1..Len(shown) : i # j => shown[i] # shown[j]
  <2>1. /\ page \in Nat /\ page < half /\ count \in Nat \ {0} /\ count < half
        /\ IsFiniteSet(rows) /\ \A q \in rows : q.at \in Nat
    BY <1>1, <1>2
  <2>2. /\ Paginate(s, page, count) \in Seq(rows)
        /\ Len(Paginate(s, page, count)) =
             Least(Left(Cardinality(rows), Before(page, count)), count)
        /\ \A i \in 1..Len(Paginate(s, page, count)) :
              HasRank(Paginate(s, page, count)[i], Before(page, count) + i, rows)
        /\ \A i, j \in 1..Len(Paginate(s, page, count)) :
              i # j => Paginate(s, page, count)[i] # Paginate(s, page, count)[j]
    BY <2>1, PagesAreByRank, Zenon
  <2>3. QED
    BY <1>3, <2>2, Zenon
<1>5. /\ DOMAIN shown = 1..Len(shown) /\ Len(shown) \in Nat
      /\ DOMAIN orders = 1..Len(shown) /\ Len(orders) = Len(shown)
      /\ \A i \in 1..Len(shown) : shown[i] \in rows /\ orders[i] = shown[i].order
  <2>1. /\ DOMAIN shown = 1..Len(shown) /\ Len(shown) \in Nat
        /\ \A i \in 1..Len(shown) : shown[i] \in rows
    BY <1>4
  <2>2. orders \in Seq(Orders)
    BY <1>1, <2>1
  <2>3. QED
    BY <2>1, <2>2
<1>6. ASSUME NEW i \in 1..Len(shown)
      PROVE  Row(orders[i]) = shown[i] /\ HasRank(shown[i], Before(page, count) + i, rows)
  BY <1>1, <1>4, <1>5
<1>7. ASSUME NEW i \in 1..Len(shown), NEW j \in 1..Len(shown), i # j
      PROVE  orders[i] # orders[j]
  <2>1. shown[i] # shown[j]
    BY <1>4, <1>7
  <2>2. QED
    BY <1>6, <2>1
<1>8. Before(page, count) = (IF p.page = 0 THEN 0 ELSE p.page - 1) * p.count
  BY <1>2 DEF Before
<1>9. QED
  BY <1>2, <1>4, <1>5, <1>6, <1>7, <1>8 DEF IsPage, Left

\* The rules let no page of no rows in.
LEMMA RulesOfPages ==
  ASSUME NEW m, NEW now, ValidateAll(m, now) = {},
         m.method \in {"ListReturns", "GetHistory"}, m.pagination # Absent
  PROVE  m.pagination.count > 0
<1>1. EmbeddedPagination(m.pagination) = {}
  BY DEF ValidateAll, ListReturnsErrors, GetHistoryErrors
<1>2. PaginationErrors(m.pagination) = {}
  BY <1>1, Zenon DEF EmbeddedPagination, Rule
<1>3. QED
  BY <1>2, Zenon DEF PaginationErrors, Rule

\* A list that is answered was read in this step.
LEMMA AnsweredByRead ==
  ASSUME Inv, ReadsOK, [Next]_vars, NEW c \in Calls, Reading(c),
         outcome'[c] # None, outcome'[c].code = "OK"
  PROVE  \E value \in Answers(msg[c]) : outcome'[c].value = value
<1>1. handler[c] = "running" /\ msg[c].method \notin Writes /\ outcome[c] = None
  BY DEF Reading, ReadsOK
<1>2. ASSUME NEW d \in Calls, NEW code, NEW value, Return(d, code, value)
      PROVE  d = c /\ code = "OK" /\ outcome'[c].value = value
  <2>1. d = c /\ outcome'[c] = [code |-> code, value |-> value]
    BY <1>1, <1>2 DEF Return, Inv, Domains
  <2>2. QED
    BY <2>1
<1>3. ASSUME NEW d \in Calls, Read(d)
      PROVE  \E value \in Answers(msg[c]) : outcome'[c].value = value
  <2>1. PICK value \in Answers(msg[d]) :
           Return(d, "NotFound", None) \/ Return(d, "OK", value)
    BY <1>3 DEF Read, Ok
  <2>2. PICK code \in {"NotFound", "OK"} : \E v \in {None, value} :
           Return(d, code, v) /\ (code = "OK" => v = value)
    BY <2>1
  <2>3. code = "OK" /\ d = c /\ outcome'[c].value = value
    BY <1>2, <2>2
  <2>4. QED
    BY <2>1, <2>3
<1>4. ASSUME NEW d \in Calls, Skip(d) \/ ReadFails(d) PROVE FALSE
  <2>1. PICK code \in {"Plain"} : Return(d, code, None)
    BY <1>4 DEF Skip, ReadFails
  <2>2. QED
    BY <1>2, <2>1
<1>5. ASSUME NEW d \in Calls, Finish(d) PROVE FALSE
  <2>1. \E code : \E value : Return(d, code, value)
    BY <1>5 DEF Finish, Ok
  <2>2. d = c
    BY <1>2, <2>1
  <2>3. QED
    BY <1>1, <1>5, <2>2 DEF Finish
<1>6. ASSUME NEW d \in Calls, Respond(d) \/ TimeOut(d) PROVE FALSE
  <2>1. outcome'[c] \in {None, outcome[c]}
    BY <1>6 DEF Respond, TimeOut, Over, Inv, Domains
  <2>2. QED
    BY <1>1, <2>1
<1>7. ASSUME UNCHANGED outcome PROVE FALSE
  BY <1>1, <1>7
<1>8. ASSUME NEW d \in Calls,
             \/ RejectLimited(d) \/ (\E m \in Messages[d] : RejectInvalid(d, m) \/ Submit(d, m))
             \/ Expire(d) \/ Begin(d)
      PROVE  FALSE
  BY <1>7, <1>8 DEF RejectLimited, RejectInvalid, Submit, Arrive, Expire, Begin
<1>9. ASSUME NEW d \in Calls, NEW i \in DOMAIN item[d],
             \/ Decide(d, i) \/ Stamp(d, i) \/ Refuse(d, i)
             \/ Commit(d, i) \/ Lose(d, i) \/ Break(d, i)
      PROVE  FALSE
  BY <1>7, <1>9 DEF Decide, Stamp, Refuse, Commit, Lose, Break
<1>10. CASE Tick \/ NewPeriod \/ UNCHANGED vars
  BY <1>7, <1>10 DEF Tick, NewPeriod, vars
<1>11. QED
  BY <1>3, <1>4, <1>5, <1>6, <1>8, <1>9, <1>10 DEF Next, Rest

\* What a list of returns or of the history is, when it is answered.
LEMMA ListsAnswered ==
  ASSUME Inv, MessagesOK, NEW c \in Calls, Reading(c), NEW value \in Answers(msg[c]),
         msg[c].pagination # Absent
  PROVE  /\ msg[c].method = "ListReturns" =>
              IsPage([i \in DOMAIN value.returns |-> value.returns[i].order],
                     msg[c].pagination, Returned(Rows))
         /\ msg[c].method = "GetHistory" =>
              IsPage([i \in DOMAIN value.history |-> value.history[i].order],
                     msg[c].pagination, Rows)
<1> DEFINE m == msg[c]
           p == m.pagination
<1> SUFFICES ASSUME m.method \in {"ListReturns", "GetHistory"}
             PROVE  /\ m.method = "ListReturns" =>
                         IsPage([i \in DOMAIN value.returns |-> value.returns[i].order],
                                p, Returned(Rows))
                    /\ m.method = "GetHistory" =>
                         IsPage([i \in DOMAIN value.history |-> value.history[i].order],
                                p, Rows)
  OBVIOUS
<1>1. handler[c] # "none" /\ m \in Messages[c]
  BY DEF Reading, Inv, TypeOK, CallsOK
<1>2. p.count > 0
  <2>1. PICK now \in 0..MaxTime : ValidateAll(m, now) = {}
    BY <1>1 DEF MessagesOK
  <2>2. QED
    BY <2>1, RulesOfPages
<1>3. PICK half \in Nat : /\ Word = half * half
                          /\ p.page \in 0..half - 1 /\ p.count \in 0..half - 1
  <2>1. PICK half \in 1..Word :
           /\ Word = half * half
           /\ \A d \in Calls : \A n \in Messages[d] :
                 n.method \in {"ListReturns", "GetHistory"} /\ n.pagination # Absent =>
                    n.pagination.page \in 0..half - 1 /\ n.pagination.count \in 0..half - 1
    BY PagesFitAWord
  <2>2. p.page \in 0..half - 1 /\ p.count \in 0..half - 1
    BY <1>1, <2>1
  <2>3. half \in Nat
    BY <2>2
  <2>4. QED
    BY <2>1, <2>2, <2>3
<1>4. CASE m.method = "ListReturns"
  <2>1. PICK s \in ByLastUpdate(Returned(Rows)) : value.returns = Shown(PageOf(s, p))
    BY <1>4 DEF Answers, GetReturnedOrders
  <2>2. [i \in DOMAIN value.returns |-> value.returns[i].order] =
          [i \in DOMAIN PageOf(s, p) |-> PageOf(s, p)[i].order]
    BY <2>1 DEF Shown, mapDomainOrderToProto
  <2>3. Returned(Rows) \in SUBSET Rows
    BY DEF Returned
  <2>4. QED
    BY <1>2, <1>3, <1>4, <2>2, <2>3, PageOfRows
<1>5. CASE m.method = "GetHistory"
  <2>1. PICK s \in ByLastUpdate(Rows) :
           value.history = [i \in DOMAIN PageOf(s, p) |->
                              Change(PageOf(s, p)[i].order, PageOf(s, p)[i])]
    BY <1>5 DEF Answers, GetOrderHistory
  <2>2. [i \in DOMAIN value.history |-> value.history[i].order] =
          [i \in DOMAIN PageOf(s, p) |-> PageOf(s, p)[i].order]
    BY <2>1 DEF Change
  <2>3. QED
    BY <1>2, <1>3, <1>5, <2>2, PageOfRows
<1>6. QED
  BY <1>4, <1>5

\* Whatever changes the orders while lists are read, a page that is answered
\* is one of the list sorted from the newest change to the oldest.
THEOREM ListsArePages == Spec => ListsAreCutIntoPages
<1> DEFINE Pages(c) ==
      Reading(c) /\ outcome'[c] # None /\ outcome'[c].code = "OK" =>
         LET m == msg[c]
             value == outcome'[c].value
             orders(shown) == [i \in DOMAIN shown |-> shown[i].order]
         IN /\ m.method = "ListReturns" /\ m.pagination # Absent =>
                  IsPage(orders(value.returns), m.pagination, Returned(Rows))
            /\ m.method = "GetHistory" /\ m.pagination # Absent =>
                  IsPage(orders(value.history), m.pagination, Rows)
<1>1. Init => MessagesOK /\ ReadsOK
  BY ReadsInit DEF Init, MessagesOK
<1>2. Inv /\ MessagesOK /\ ReadsOK /\ [Next]_vars => MessagesOK' /\ ReadsOK'
  BY MessagesStep, ReadsStep
<1>3. Inv /\ MessagesOK /\ ReadsOK /\ [Next]_vars => [\A c \in Calls : Pages(c)]_vars
  <2> SUFFICES ASSUME Inv, MessagesOK, ReadsOK, [Next]_vars, NEW c \in Calls,
                      Reading(c), outcome'[c] # None, outcome'[c].code = "OK",
                      msg[c].pagination # Absent
               PROVE  LET value == outcome'[c].value
                          orders(shown) == [i \in DOMAIN shown |-> shown[i].order]
                      IN /\ msg[c].method = "ListReturns" =>
                               IsPage(orders(value.returns), msg[c].pagination, Returned(Rows))
                         /\ msg[c].method = "GetHistory" =>
                               IsPage(orders(value.history), msg[c].pagination, Rows)
    OBVIOUS
  <2>1. PICK value \in Answers(msg[c]) : outcome'[c].value = value
    BY AnsweredByRead
  <2>2. QED
    BY <2>1, ListsAnswered
<1>4. QED
  BY <1>1, <1>2, <1>3, ServerInvariance, PTL DEF Spec, ListsAreCutIntoPages
=============================================================================
