--------------------------- MODULE MCOrderService ---------------------------
(***************************************************************************)
(* Instances of OrderService for TLC: one order (orders share no state),   *)
(* two receivers of whom one may ask for the other's order, and storage     *)
(* limits that end when the clock moves once (1) or at all (0).            *)
(***************************************************************************)
EXTENDS OrderService, TLC

BothDeadlines == {0, 1}
OneDeadline == {1}
Symmetry == Permutations(Calls) \cup Permutations(Receivers)
=============================================================================
