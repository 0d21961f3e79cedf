----------------------------- MODULE MCProjects -----------------------------
(***************************************************************************)
(* Projects on small sets: two organizations with one founder each, a      *)
(* capped and an unlimited plan.                                           *)
(***************************************************************************)
EXTENDS Projects, TLC

CONSTANTS o1, o2, u1, u2, free, business

MCOrgs    == {o1, o2}
MCUsers   == {u1, u2}
MCFounder == (o1 :> u1) @@ (o2 :> u2)
MCRoles   == {NoRole, "member", "admin"}
MCPlans   == {free, business}
MCLimit   == (free :> 1) @@ (business :> Unlimited)
=============================================================================
