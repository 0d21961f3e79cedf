-------------------------- MODULE MCTeamRefinement --------------------------
(***************************************************************************)
(* TeamRefinement on the sets of MCTeam.                                   *)
(***************************************************************************)
EXTENDS TeamRefinement, MCTeam
=============================================================================
