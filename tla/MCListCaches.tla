---------------------------- MODULE MCListCaches ----------------------------
(***************************************************************************)
(* An instance of ListCaches for TLC: one receiver, whose list competes    *)
(* with the two others for two places.                                     *)
(***************************************************************************)
EXTENDS ListCaches

CONSTANT r1
OwnedByOne == [o \in Orders |-> r1]
StoredOrReturned == {InStorage, ReturnedFromClient}
=============================================================================
