--------------------------- MODULE OrgTeamProofs ---------------------------
(***************************************************************************)
(* Theorems of Roles and OrgTeam, for every set of users and organizations.*)
(***************************************************************************)
EXTENDS OrgTeam, TLAPS

\* The table at the head of core/rbac.py, read against can_manage_member and
\* can_assign_role: Owners manage and assign every role, Admins every role but
\* Owner, Members none.
THEOREM PermissionMatrix ==
    ASSUME NEW targetRole \in Role
    PROVE  /\ CanManageMember("owner", targetRole)
           /\ CanAssignRole("owner", targetRole)
           /\ CanManageMember("admin", targetRole) <=> targetRole # "owner"
           /\ CanAssignRole("admin", targetRole) <=> targetRole # "owner"
           /\ ~CanManageMember("member", targetRole)
           /\ ~CanAssignRole("member", targetRole)
           /\ ~CanManageMember(NoRole, targetRole)
           /\ ~CanAssignRole(NoRole, targetRole)
  BY DEF Role, NoRole, Rank, MANAGER_ROLES, CanManageMember, CanAssignRole

\* The types the ownership argument needs.
OTypeOK ==
    /\ status \in [Orgs -> {"unissued", "live", "deleted"}]
    /\ team \in [Orgs -> [Users -> Role \cup {NoRole}]]

\* Ownership is inductive once the types are known.
OInv == OTypeOK /\ Owned

\* "No ownerless org" (core/rbac.py): the permission matrix, applied in one
\* step, never leaves a live organization without an Owner.
THEOREM OwnedTheorem == Spec => []Owned
<1>1. Init => OInv
  BY DEF Init, OInv, OTypeOK, Owned, Empty, NoRole
<1>2. OInv /\ [Next]_tvars => OInv'
  <2> SUFFICES ASSUME OInv, [Next]_tvars PROVE OInv'
      OBVIOUS
  <2> USE DEF OInv, OTypeOK
  <2>1. ASSUME NEW o \in Orgs, NEW u \in Users, Found(u, o)
        PROVE  OInv'
    BY <2>1 DEF Found, Owned, Empty, Role, NoRole
  <2>2. ASSUME NEW o \in Orgs, NEW u \in Users, Dissolve(u, o)
        PROVE  OInv'
    BY <2>2 DEF Dissolve, Owned, Empty, NoRole
  <2>3. ASSUME NEW o \in Orgs, NEW u \in Users, NEW role \in Role, Admit(u, o, role)
        PROVE  OInv'
    BY <2>3 DEF Admit, Owned, NoRole
  <2>4. ASSUME NEW o \in Orgs, NEW u \in Users, NEW a \in Users, Remove(a, u, o)
        PROVE  OInv'
    BY <2>4 DEF Remove, Owned, AnotherOwner, NoRole
  <2>5. ASSUME NEW o \in Orgs, NEW u \in Users, NEW a \in Users, NEW role \in Role,
               Change(a, u, o, role)
        PROVE  OInv'
    BY <2>5 DEF Change, Owned, AnotherOwner, NoRole
  <2>6. CASE UNCHANGED tvars
    BY <2>6 DEF tvars, Owned
  <2> QED
    BY <2>1, <2>2, <2>3, <2>4, <2>5, <2>6 DEF Next, ActBy
<1>3. OInv => Owned
  BY DEF OInv
<1> QED
  BY <1>1, <1>2, <1>3, PTL DEF Spec
=============================================================================
