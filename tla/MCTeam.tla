------------------------------- MODULE MCTeam -------------------------------
(***************************************************************************)
(* Team on small sets.  Users, memberships and workers are interchangeable *)
(* in Team and in its safety properties, so their permutations are a sound *)
(* symmetry.                                                               *)
(***************************************************************************)
EXTENDS Team, TLC

MCMembers       == {"remove", "setRole"}
MCGuarded       == GuardedOps
MCApi           == ApiOps
MCEverything    == ApiOps \cup StaffOps

Symmetric == Permutations(Users) \cup Permutations(Rows)
                \cup Permutations(Workers) \cup Permutations(Orgs)
=============================================================================
