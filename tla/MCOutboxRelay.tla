---------------------------- MODULE MCOutboxRelay ----------------------------
(***************************************************************************)
(* Instances of OutboxRelay for TLC: two or three messages, and a batch    *)
(* that does not hold them all.                                            *)
(***************************************************************************)
EXTENDS OutboxRelay

TwoMessages == 1..2
ThreeMessages == 1..3
=============================================================================
