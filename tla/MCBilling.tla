----------------------------- MODULE MCBilling -----------------------------
(***************************************************************************)
(* Billing on small sets.                                                  *)
(***************************************************************************)
EXTENDS Billing, TLC

MCStatuses == {"active"}
=============================================================================
