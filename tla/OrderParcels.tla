---------------------------- MODULE OrderParcels -----------------------------
(***************************************************************************)
(* What an order is packed in: the rules of the table package_types, the   *)
(* weight and the price they allow, and the names the packages and the     *)
(* statuses have in the contract (adapter/grpc/util.go).                   *)
(***************************************************************************)
EXTENDS OrderTypes

\* The rows of package_types; a limit of 0 is none.
PackageTypes ==
    [code \in {"bag", "box", "film", "bag+film", "box+film"} |->
        CASE code = "bag" -> [max |-> 10, extra |-> 5]
          [] code = "box" -> [max |-> 30, extra |-> 20]
          [] code = "film" -> [max |-> 0, extra |-> 1]
          [] code = "bag+film" -> [max |-> 10, extra |-> 6]
          [] code = "box+film" -> [max |-> 30, extra |-> 21]]

Codes == DOMAIN PackageTypes

\* PackageType of the contract and the code it stands for.
PackageNames == [BAG |-> "bag", BOX |-> "box", TAPE |-> "film",
                 BAG_TAPE |-> "bag+film", BOX_TAPE |-> "box+film"]

\* Faulty variant: a combined package loses its film.
mapPackageTypeToStringPlain(p) ==
    IF p \notin DOMAIN PackageNames THEN ""
    ELSE IF p = "BAG_TAPE" THEN "bag" ELSE PackageNames[p]

\* A package that is not set, not specified or not known is none.
mapPackageTypeToString(p) == IF p \in DOMAIN PackageNames THEN PackageNames[p] ELSE ""

mapStringToPackageType(code) ==
    IF \E p \in DOMAIN PackageNames : PackageNames[p] = code
    THEN CHOOSE p \in DOMAIN PackageNames : PackageNames[p] = code
    ELSE "UNSPECIFIED"

mapDomainStatusToProto(status) ==
    CASE status = InStorage -> "EXPECTS"
      [] status = GivenToClient -> "ACCEPTED"
      [] status = ReturnedFromClient -> "RETURNED"
      [] status \in CourierStatuses -> "DELETED"

\* An order as ListOrders and ListReturns show it: the row `r'.
mapDomainOrderToProto(r) ==
    [order |-> r.order, user |-> r.user, status |-> mapDomainStatusToProto(r.status),
     expires |-> r.until, weight |-> r.weight, price |-> r.price,
     package |-> mapStringToPackageType(r.code)]

-----------------------------------------------------------------------------
(* AcceptOrder and the table orders.                                       *)

\* Faulty variant: the limit is off by one.
TooHeavyByTwo(code, weight) ==
    code \in Codes /\ PackageTypes[code].max > 0 /\ weight > PackageTypes[code].max + 1

\* A parcel of just the limit passes.
TooHeavy(code, weight) ==
    code \in Codes /\ PackageTypes[code].max > 0 /\ weight > PackageTypes[code].max

TotalPrice(code, price) == IF code \in Codes THEN price + PackageTypes[code].extra ELSE price

\* Faulty variant: the column refers to nothing.
StorableAny(code) == TRUE

\* package_code REFERENCES package_types(code): the empty code, which the
\* INSERT passes for an order without a package, is not NULL and no row has it.
Storable(code) == code \in Codes
=============================================================================
