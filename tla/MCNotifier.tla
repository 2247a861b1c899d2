----------------------------- MODULE MCNotifier -----------------------------
(***************************************************************************)
(* Instances of Notifier for TLC; the cfg files give the bounds.           *)
(***************************************************************************)
EXTENDS Notifier
=============================================================================
