---------------------------- MODULE MCOnboarding ----------------------------
(***************************************************************************)
(* Onboarding on small sets.                                               *)
(***************************************************************************)
EXTENDS Onboarding, TLC
=============================================================================
