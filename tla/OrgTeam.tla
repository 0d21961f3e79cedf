------------------------------ MODULE OrgTeam ------------------------------
(***************************************************************************)
(* What the permission matrix of core/rbac.py promises of an organization, *)
(* with every decision and its effect in one step: a change is made by     *)
(* somebody whose role allows it at that moment, and the last Owner stays. *)
(***************************************************************************)
EXTENDS Roles

CONSTANTS Users, Orgs

VARIABLES
    status,  \* status[o]: "unissued", "live" or "deleted"
    team     \* team[o][u]: the role of u in o, NoRole when not a member

tvars == <<status, team>>

Empty == [u \in Users |-> NoRole]

Init ==
    /\ status = [o \in Orgs |-> "unissued"]
    /\ team = [o \in Orgs |-> Empty]

\* u founds o and owns it.
Found(u, o) ==
    /\ status[o] = "unissued"
    /\ status' = [status EXCEPT ![o] = "live"]
    /\ team' = [team EXCEPT ![o] = [Empty EXCEPT ![u] = "owner"]]

\* u, invited with that role, joins o.
Admit(u, o, role) ==
    /\ status[o] = "live"
    /\ team[o][u] = NoRole
    /\ team' = [team EXCEPT ![o][u] = role]
    /\ UNCHANGED status

\* Somebody else than u owns o.
AnotherOwner(u, o) == \E v \in Users \ {u} : team[o][v] = "owner"

\* a gives member u another role.
Change(a, u, o, role) ==
    /\ status[o] = "live"
    /\ team[o][u] # NoRole
    /\ CanManageMember(team[o][a], team[o][u])
    /\ CanAssignRole(team[o][a], role)
    /\ team[o][u] = "owner" /\ role # "owner" => AnotherOwner(u, o)
    /\ team' = [team EXCEPT ![o][u] = role]
    /\ UNCHANGED status

\* a removes member u, perhaps themself.
Remove(a, u, o) ==
    /\ status[o] = "live"
    /\ team[o][u] # NoRole
    /\ CanManageMember(team[o][a], team[o][u])
    /\ team[o][u] = "owner" => AnotherOwner(u, o)
    /\ team' = [team EXCEPT ![o][u] = NoRole]
    /\ UNCHANGED status

\* a, an Owner, deletes o.
Dissolve(a, o) ==
    /\ status[o] = "live"
    /\ team[o][a] = "owner"
    /\ status' = [status EXCEPT ![o] = "deleted"]
    /\ team' = [team EXCEPT ![o] = Empty]

\* What member a may do to o.
ActBy(a, o) ==
    \/ Dissolve(a, o)
    \/ \E u \in Users : Remove(a, u, o)
    \/ \E u \in Users, role \in Role : Change(a, u, o, role)

Next ==
    \E o \in Orgs, u \in Users :
        \/ Found(u, o)
        \/ \E role \in Role : Admit(u, o, role)
        \/ ActBy(u, o)

Spec == Init /\ [][Next]_tvars
-----------------------------------------------------------------------------
\* "No ownerless org" (core/rbac.py) holds of the matrix applied atomically.
Owned == \A o \in Orgs : status[o] = "live"
                            => \E u \in Users : team[o][u] = "owner"
=============================================================================
