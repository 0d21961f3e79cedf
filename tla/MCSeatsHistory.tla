--------------------------- MODULE MCSeatsHistory ---------------------------
(***************************************************************************)
(* SeatsHistory on the sets of MCSeats.                                    *)
(***************************************************************************)
EXTENDS SeatsHistory, SeatsRefinement, MCSeats
=============================================================================
