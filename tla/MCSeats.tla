------------------------------ MODULE MCSeats ------------------------------
(***************************************************************************)
(* Seats on small sets: a capped plan, one with a higher cap, and an       *)
(* unlimited one.                                                          *)
(***************************************************************************)
EXTENDS Seats, TLC

CONSTANTS free, pro, business

MCPlans     == {free, pro, business}
MCSeatLimit == (free :> 3) @@ (pro :> 4) @@ (business :> Unlimited)

\* Caps that two invitations reach.
MCTightLimit == (free :> 2) @@ (pro :> 3) @@ (business :> Unlimited)

MCMemberRole == {"member"}
MCTwoRoles   == {"member", "admin"}

MCApi     == ApiEndpoints
MCAll     == AllEndpoints

Symmetric == Permutations(People \ {Founder}) \cup Permutations(Invitations)
                \cup Permutations(Workers)
=============================================================================
