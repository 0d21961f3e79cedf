------------------------------- MODULE Roles -------------------------------
(***************************************************************************)
(* The role order and the two permission helpers of core/rbac.py.  Every   *)
(* membership decision of the API is made with these operators.            *)
(***************************************************************************)
EXTENDS Naturals

\* organizations.models.Role, and the absence of a membership.
Role   == {"owner", "admin", "member"}
NoRole == "none"

\* Role.rank: a higher rank is more powerful, anything else ranks 0.
Rank(role) == CASE role = "member" -> 1
                [] role = "admin"  -> 2
                [] role = "owner"  -> 3
                [] OTHER           -> 0

MANAGER_ROLES == {"owner", "admin"}

\* can_manage_member: may an actor change or remove a row now at targetRole?
CanManageMember(actorRole, targetRole) ==
    /\ actorRole \in MANAGER_ROLES
    /\ Rank(targetRole) <= Rank(actorRole)

\* A slip for the mutation runs: any manager may grant any role.
CanAssignRole_AnyRank(actorRole, newRole) == actorRole \in MANAGER_ROLES

\* can_assign_role: may an actor grant newRole?
CanAssignRole(actorRole, newRole) ==
    /\ actorRole \in MANAGER_ROLES
    /\ Rank(newRole) <= Rank(actorRole)
=============================================================================
