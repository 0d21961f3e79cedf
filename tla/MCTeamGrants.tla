---------------------------- MODULE MCTeamGrants ----------------------------
(***************************************************************************)
(* TeamHistory and TeamGrants together, on the sets of MCTeam.  The        *)
(* histories are indexed by the same interchangeable sets, so the symmetry *)
(* stays sound.                                                            *)
(***************************************************************************)
EXTENDS TeamHistory, TeamGrants, MCTeam

MCInit == HInit /\ NoPeak
MCNext == HNext /\ Remember
MCSpec == MCInit /\ [][MCNext]_<<hvars, peak>>
=============================================================================
