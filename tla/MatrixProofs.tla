---------------------------- MODULE MatrixProofs ----------------------------
(***************************************************************************)
(* Roles as requests apply them: a member has one role, nobody is granted  *)
(* a role above the highest its granter has had, and one worker at a time  *)
(* implements the permission matrix of OrgTeam.                            *)
(***************************************************************************)
EXTENDS TeamGrants, TeamRefinement, TeamProofs

\* OneRolePerMember without the sets of rows.
LEMMA OneRoleRows ==
    OneRolePerMember <=>
       \A r \in Rows : Exists(r) =>
          /\ org[member[r].org] = "live"
          /\ \A s \in Rows : /\ Exists(s)
                             /\ member[s].user = member[r].user
                             /\ member[s].org = member[r].org
                             => s = r
  BY DEF OneRolePerMember, RowsOf, MembersOf

\* uniq_user_org, the foreign key and the cascade keep it, in every endpoint.
LEMMA OneRoleStep ==
    ASSUME TypeOK, Serving, OneRolePerMember, [Next]_vars
    PROVE  OneRolePerMember'
  <1> DEFINE Keyed(r) == /\ org[member[r].org] = "live"
                         /\ \A s \in Rows : /\ Exists(s)
                                            /\ member[s].user = member[r].user
                                            /\ member[s].org = member[r].org
                                            => s = r
             AllKeyed == \A r \in Rows : Exists(r)' => Keyed(r)'
  <1>0. \A r \in Rows : Exists(r) => Keyed(r) /\ member[r] \in Membership
    BY OneRoleRows DEF TypeOK, Exists
  <1>1. ASSUME \A r \in Rows : Exists(r)' =>
                  /\ Exists(r)
                  /\ member'[r].user = member[r].user
                  /\ member'[r].org = member[r].org
                  /\ org'[member[r].org] = "live"
        PROVE  AllKeyed
    BY <1>0, <1>1
  <1>2. ASSUME NEW k \in Rows, NEW m \in Membership,
               member' = [member EXCEPT ![k] = m], org'[m.org] = "live",
               RowsOf(m.user, m.org) \subseteq {k},
               \A r \in Rows \ {k} : Exists(r) => org'[member[r].org] = "live"
        PROVE  AllKeyed
    <2>1. \A s \in Rows : /\ Exists(s)
                          /\ member[s].user = m.user /\ member[s].org = m.org
                          => s = k
      BY <1>2 DEF RowsOf, MembersOf
    <2>2. member'[k] = m /\ \A s \in Rows \ {k} : member'[s] = member[s] /\ Exists(s)' = Exists(s)
      BY <1>2 DEF TypeOK, Exists
    <2> QED  BY <1>0, <1>2, <2>1, <2>2
  <1>3. ASSUME NEW u \in Users, NEW o \in Orgs, NEW r \in Rows, CreateOrg(u, o, r)
        PROVE  AllKeyed
    <2> DEFINE m == [user |-> u, org |-> o, role |-> "owner"]
    <2>1. m \in Membership /\ m.user = u /\ m.org = o  BY DEF Membership, Role
    <2>2. \A s \in Rows : Exists(s) => member[s].org # o /\ org'[member[s].org] = "live"
      BY <1>0, <1>3 DEF CreateOrg, TypeOK, Membership
    <2>3. RowsOf(u, o) \subseteq {r}  BY <2>2 DEF RowsOf, MembersOf
    <2>4. org'[o] = "live"  BY <1>3 DEF CreateOrg, TypeOK
    <2> HIDE DEF m
    <2>5. member' = [member EXCEPT ![r] = m]  BY <1>3 DEF CreateOrg, m
    <2> QED  BY <1>2, <2>1, <2>2, <2>3, <2>4, <2>5
  <1>4. ASSUME NEW u \in Users, NEW o \in Orgs, NEW r \in Rows, NEW role \in Role,
               Join(u, o, r, role)
        PROVE  AllKeyed
    <2> DEFINE m == [user |-> u, org |-> o, role |-> role]
    <2>1. m \in Membership /\ m.user = u /\ m.org = o  BY DEF Membership
    <2>2. RowsOf(u, o) \subseteq {r} /\ org'[o] = "live"  BY <1>4 DEF Join
    <2>3. \A s \in Rows : Exists(s) => org'[member[s].org] = "live"
      BY <1>0, <1>4 DEF Join
    <2> HIDE DEF m
    <2>4. member' = [member EXCEPT ![r] = m]  BY <1>4 DEF Join, m
    <2> QED  BY <1>2, <2>1, <2>2, <2>3, <2>4
  <1>5. ASSUME NEW w \in Workers, SaveRow(w)
        PROVE  AllKeyed
    <2>0. /\ req[w] \in Request /\ req[w].op \in {"adminRole", "adminChange"}
          /\ req[w].row \in Rows /\ target[w] \in Membership
      <3>1. req[w] \in Request /\ req[w].op \in {"adminRole", "adminChange"}
        BY <1>5 DEF SaveRow, Serving
      <3>2. req[w].row # None  BY <3>1, RequestFields
      <3> QED  BY <1>5, <3>1, <3>2 DEF SaveRow, Serving, Holding
    <2> DEFINE m == [user |-> target[w].user, org |-> req[w].org, role |-> req[w].role]
    <2>1. m \in Membership /\ m.user = target[w].user /\ m.org = req[w].org
      BY <2>0, RequestFields DEF Membership
    <2>2. CASE org[m.org] = "live" /\ RowsOf(m.user, m.org) \subseteq {req[w].row}
      <3>1. member' = [member EXCEPT ![req[w].row] = m] /\ UNCHANGED org
        BY <1>5, <2>2 DEF SaveRow
      <3> HIDE DEF m
      <3> QED  BY <1>0, <1>2, <2>0, <2>1, <2>2, <3>1
    <2>3. CASE ~(org[m.org] = "live" /\ RowsOf(m.user, m.org) \subseteq {req[w].row})
      <3>1. UNCHANGED tables  BY <1>5, <2>3 DEF SaveRow, tables
      <3> QED  BY <1>0, <1>1, <3>1 DEF tables, Exists
    <2> QED  BY <2>2, <2>3
  <1>6. ASSUME NEW w \in Workers, WriteRole(w) \/ DeleteRow(w)
        PROVE  AllKeyed
    <2>1. req[w].row \in Rows
      <3>1. req[w] \in Request /\ req[w].op \in {"remove", "adminDelete", "setRole"}
        BY <1>6 DEF WriteRole, DeleteRow, Serving
      <3>2. req[w].row # None  BY <3>1, RequestFields
      <3> QED  BY <1>6, <3>1, <3>2 DEF WriteRole, DeleteRow, Serving, Holding
    <2> QED  BY <1>0, <1>1, <1>6, <2>1 DEF WriteRole, DeleteRow, TypeOK, Exists, Membership
  <1>7. ASSUME NEW w \in Workers, DestroyOrg(w)
        PROVE  AllKeyed
    BY <1>0, <1>1, <1>7 DEF DestroyOrg, TypeOK, Exists, MembersOf, Membership
  <1>8. ASSUME NEW w \in Workers, SaveOrg(w)
        PROVE  AllKeyed
    BY <1>0, <1>1, <1>8 DEF SaveOrg, TypeOK, Exists, Membership
  <1>9. ASSUME NEW selected \in SUBSET Rows, AdminBulkDelete(selected)
        PROVE  AllKeyed
    BY <1>0, <1>1, <1>9 DEF AdminBulkDelete, Exists
  <1>10. ASSUME NEW o \in Orgs, NEW demoted \in SUBSET MembersOf(o),
                NEW removed \in SUBSET MembersOf(o), NEW role \in Role \ {"owner"},
                AdminInline(o, demoted, removed, role)
         PROVE  AllKeyed
    <2>1. \A r \in demoted : Exists(r)  BY DEF MembersOf
    <2> QED  BY <1>0, <1>1, <1>10, <2>1 DEF AdminInline, Exists, Membership
  <1>11. ASSUME UNCHANGED tables
         PROVE  AllKeyed
    <2>1. member' = member /\ org' = org  BY <1>11 DEF tables
    <2>2. \A r \in Rows : Exists(r)' =>
             /\ Exists(r)
             /\ member'[r].user = member[r].user
             /\ member'[r].org = member[r].org
             /\ org'[member[r].org] = "live"
      BY <1>0, <2>1 DEF Exists
    <2> QED  BY <1>1, <2>2
  <1>12. \/ UNCHANGED tables
         \/ \E u \in Users, o \in Orgs, r \in Rows : CreateOrg(u, o, r)
         \/ \E u \in Users, o \in Orgs, r \in Rows, role \in Role : Join(u, o, r, role)
         \/ \E w \in Workers : \/ SaveRow(w) \/ WriteRole(w) \/ DeleteRow(w)
                               \/ DestroyOrg(w) \/ SaveOrg(w)
         \/ \E selected \in SUBSET Rows : AdminBulkDelete(selected)
         \/ \E o \in Orgs : \E demoted, removed \in SUBSET MembersOf(o),
                              role \in Role \ {"owner"} :
               AdminInline(o, demoted, removed, role)
    BY DEF Next, Step, LoadOrg, OpenAdminPage, LoadTarget, CountOwners, GuardDelete,
           CleanRole, CleanCount, Goto, vars, tables
  <1> HIDE DEF AllKeyed
  <1>13. AllKeyed
    BY <1>3, <1>4, <1>5, <1>6, <1>7, <1>8, <1>9, <1>10, <1>11, <1>12
  <1> QED  BY <1>13 DEF AllKeyed, OneRolePerMember, RowsOf, MembersOf

\* Whatever the endpoints and the staff do, a member has one role, in an
\* organization that exists.
THEOREM OneRoleTheorem == Spec => []OneRolePerMember
  <1>1. Init => OneRolePerMember
    BY DEF Init, OneRolePerMember, Exists
  <1>2. (TypeOK /\ Serving) /\ OneRolePerMember /\ [Next]_vars => OneRolePerMember'
    BY OneRoleStep
  <1> QED  BY <1>1, <1>2, TypeCorrect, PTL DEF Spec
-----------------------------------------------------------------------------
(* No escalation.                                                          *)

\* The highest rank the caller of worker w's request has had in its
\* organization.
CallerPeak(w) == peak[req[w].org][req[w].actor]

\* Nobody ranks above their peak.
PeakInv ==
    /\ peak \in [Orgs -> [Users -> Nat]]
    /\ \A r \in Rows : Exists(r) =>
          Rank(member[r].role) <= peak[member[r].org][member[r].user]

\* The role a request acts with, and past the checks the role it will write,
\* are within its caller's peak.
GrantInv ==
    \A w \in Workers :
       pc[w] # "idle" /\ req[w].op = "setRole" =>
          /\ pc[w] = "target" => Rank(actorRole[w]) <= CallerPeak(w)
          /\ Holding(w) => Rank(req[w].role) <= CallerPeak(w)

GrantsInv == TypeOK /\ Serving /\ OneRolePerMember /\ PeakInv /\ GrantInv

LEMMA RankNat == \A role : Rank(role) \in Nat
  BY DEF Rank

\* The row a member has is the row their rank is read from.
LEMMA RankOfRow ==
    ASSUME OneRolePerMember, NEW r \in Rows, Exists(r)
    PROVE  RankIn(member[r].user, member[r].org) = Rank(member[r].role)
  BY DEF OneRolePerMember, RankIn

\* The highest rank only grows, and is never below the rank of the moment.
LEMMA PeakStep ==
    ASSUME TypeOK', OneRolePerMember', PeakInv, Remember \/ UNCHANGED gvars
    PROVE  /\ PeakInv'
           /\ \A o \in Orgs, u \in Users : peak[o][u] <= peak'[o][u]
  <1>1. CASE Remember
    <2>1. \A u \in Users, o \in Orgs : RankIn(u, o)' \in Nat
      BY RankNat DEF RankIn
    <2>2. \A o \in Orgs, u \in Users :
             /\ peak'[o][u] = HigherOf(peak[o][u], RankIn(u, o)')
             /\ peak'[o][u] \in Nat
             /\ peak[o][u] <= peak'[o][u] /\ RankIn(u, o)' <= peak'[o][u]
      BY <1>1, <2>1 DEF Remember, PeakInv, HigherOf
    <2>3. peak' \in [Orgs -> [Users -> Nat]]
      BY <1>1, <2>2 DEF Remember
    <2>4. ASSUME NEW r \in Rows, Exists(r)'
          PROVE  Rank(member'[r].role) <= peak'[member'[r].org][member'[r].user]
      <3>1. member'[r].org \in Orgs /\ member'[r].user \in Users
        BY <2>4 DEF TypeOK, Exists, Membership
      <3>2. (RankIn(member[r].user, member[r].org) = Rank(member[r].role))'
        BY <2>4 DEF OneRolePerMember, RankIn
      <3> QED  BY <2>2, <3>1, <3>2
    <2> QED  BY <2>2, <2>3, <2>4 DEF PeakInv
  <1>2. CASE UNCHANGED gvars
    BY <1>2 DEF gvars, vars, PeakInv, Exists
  <1> QED  BY <1>1, <1>2

\* The checks of a request bound the role it writes by the role it read.
LEMMA GrantStep ==
    ASSUME GrantsInv, Next \/ UNCHANGED gvars,
           \A o \in Orgs, u \in Users :
              peak[o][u] \in Nat /\ peak'[o][u] \in Nat /\ peak[o][u] <= peak'[o][u]
    PROVE  GrantInv'
  <1> SUFFICES ASSUME NEW w \in Workers, pc'[w] # "idle", req'[w].op = "setRole",
                      [Next]_vars
               PROVE  /\ pc'[w] = "target" => Rank(actorRole'[w]) <= CallerPeak(w)'
                      /\ Holding(w)' => Rank(req'[w].role) <= CallerPeak(w)'
    BY DEF GrantInv, gvars
  <1> USE RankNat DEF GrantsInv
  <1>1. Serving' /\ LocalsOK'  BY LocalsStep
  <1>2. req'[w] \in Request /\ req'[w].org \in Orgs /\ req'[w].actor \in Users
    <2>1. req'[w] \in Request  BY <1>1 DEF Serving
    <2> QED  BY <2>1 DEF Request
  <1>3. CallerPeak(w)' = peak'[req'[w].org][req'[w].actor]
    BY DEF CallerPeak
  <1>4. ASSUME pc'[w] = pc[w], req'[w] = req[w], actorRole'[w] = actorRole[w]
        PROVE  /\ pc'[w] = "target" => Rank(actorRole'[w]) <= CallerPeak(w)'
               /\ Holding(w)' => Rank(req'[w].role) <= CallerPeak(w)'
    BY <1>2, <1>3, <1>4 DEF GrantInv, CallerPeak, Holding
  <1>5. ASSUME NEW q \in Request, LoadOrg(w, q)
        PROVE  Rank(actorRole'[w]) <= CallerPeak(w)' /\ ~Holding(w)'
    <2>1. req'[w] = q /\ pc'[w] = "target"
      BY <1>2, <1>5, RequestFields DEF LoadOrg, TypeOK
    <2>2. PICK r \in RowsOf(q.actor, q.org) : actorRole'[w] = member[r].role
      BY <1>5 DEF LoadOrg, TypeOK
    <2>3. Rank(member[r].role) <= peak[q.org][q.actor]
      BY <2>2 DEF PeakInv, RowsOf, MembersOf
    <2> QED  BY <1>2, <1>3, <2>1, <2>2, <2>3 DEF Holding
  <1>6. ASSUME LoadTarget(w)
        PROVE  pc'[w] # "target" /\ Rank(req'[w].role) <= CallerPeak(w)'
    <2>1. MayManage(w) /\ pc'[w] \in {"count", "write"} /\ req' = req
      BY <1>6 DEF LoadTarget, Respond, TypeOK
    <2>2. Rank(req[w].role) <= Rank(actorRole[w])
      BY <2>1 DEF MayManage, CanAssignRole
    <2>3. Rank(actorRole[w]) <= CallerPeak(w)
      BY <1>6, <2>1 DEF LoadTarget, GrantInv
    <2> QED  BY <1>2, <1>3, <2>1, <2>2, <2>3 DEF CallerPeak
  <1>7. ASSUME CountOwners(w) \/ GuardDelete(w) \/ CleanRole(w) \/ CleanCount(w)
        PROVE  pc'[w] # "target" /\ Rank(req'[w].role) <= CallerPeak(w)'
    <2>1. Holding(w) /\ req' = req /\ pc'[w] \in {"guard", "write", "cleanCount"}
      BY <1>7 DEF CountOwners, GuardDelete, CleanRole, CleanCount, Goto, Respond,
                  TypeOK, Holding
    <2>2. Rank(req[w].role) <= CallerPeak(w)
      BY <2>1 DEF GrantInv, Holding
    <2> QED  BY <1>2, <1>3, <2>1, <2>2 DEF CallerPeak
  <1>8. ASSUME NEW q \in Request, OpenAdminPage(w, q)
        PROVE  FALSE
    BY <1>8 DEF OpenAdminPage, StaffOps, TypeOK
  <1>9. ASSUME \/ WriteRole(w) \/ DeleteRow(w) \/ SaveOrg(w)
               \/ DestroyOrg(w) \/ SaveRow(w)
        PROVE  FALSE
    BY <1>9 DEF WriteRole, DeleteRow, SaveOrg, DestroyOrg, SaveRow, Respond, TypeOK
  <1>10. ASSUME NEW v \in Workers \ {w},
                \/ \E q \in Request : LoadOrg(v, q) \/ OpenAdminPage(v, q)
                \/ Step(v)
         PROVE  pc'[w] = pc[w] /\ req'[w] = req[w] /\ actorRole'[w] = actorRole[w]
    BY <1>10
       DEF LoadOrg, OpenAdminPage, Step, LoadTarget, CountOwners, GuardDelete, WriteRole,
           DeleteRow, SaveOrg, DestroyOrg, CleanRole, CleanCount, SaveRow, Respond, Goto,
           TypeOK
  <1>11. \/ UNCHANGED locals
         \/ \E v \in Workers : \/ \E q \in Request : LoadOrg(v, q) \/ OpenAdminPage(v, q)
                               \/ Step(v)
    BY DEF Next, CreateOrg, Join, AdminBulkDelete, AdminInline, vars, locals
  <1> QED
    BY <1>4, <1>5, <1>6, <1>7, <1>8, <1>9, <1>10, <1>11 DEF locals, Step

\* can_assign_role (core/rbac.py), in every endpoint and interleaving: an API
\* request never writes a role above the highest its caller has had in that
\* organization.
THEOREM EscalationTheorem == GSpec => NoEscalation
  <1>1. GInit => GrantsInv
    <2>1. ASSUME GInit PROVE PeakInv
      BY <2>1 DEF GInit, Init, NoPeak, PeakInv, Exists
    <2>2. ASSUME GInit PROVE GrantInv /\ OneRolePerMember /\ Serving /\ TypeOK
      BY <2>2 DEF GInit, Init, GrantInv, OneRolePerMember, Serving, TypeOK, Exists, Holding
    <2> QED  BY <2>1, <2>2 DEF GrantsInv
  <1>2. GrantsInv /\ [GNext]_gvars => GrantsInv'
    <2> SUFFICES ASSUME GrantsInv, [GNext]_gvars PROVE GrantsInv'
      OBVIOUS
    <2>1. [Next]_vars  BY DEF GNext, gvars
    <2>2. TypeOK' /\ Serving'
      BY <2>1, LocalsStep, TablesStep DEF GrantsInv, TypeOK, LocalsOK
    <2>3. OneRolePerMember'  BY <2>1, OneRoleStep DEF GrantsInv
    <2>4. /\ PeakInv'
          /\ \A o \in Orgs, u \in Users : peak[o][u] <= peak'[o][u]
      BY <2>2, <2>3, PeakStep DEF GrantsInv, GNext
    <2>5. GrantInv'
      BY <2>4, GrantStep DEF GrantsInv, GNext, PeakInv
    <2> QED  BY <2>2, <2>3, <2>4, <2>5 DEF GrantsInv
  <1>3. ASSUME GrantsInv, Next, NEW w \in Workers, NEW r \in Rows,
               ApiStep(w), member'[r] # member[r], Exists(r)'
        PROVE  Rank(member'[r].role) <= peak[req[w].org][req[w].actor]
    <2>1. Step(w)  BY <1>3, ApiStatement DEF GrantsInv
    <2>2. WriteRole(w)
      BY <1>3, <2>1
         DEF Step, LoadTarget, CountOwners, GuardDelete, DeleteRow, SaveOrg, DestroyOrg,
             CleanRole, CleanCount, SaveRow, Goto, tables, ApiStep, ApiOps, GrantsInv,
             TypeOK, Exists
    <2>3. r = req[w].row /\ member'[r].role = req[w].role
      BY <1>3, <2>2 DEF WriteRole, GrantsInv, TypeOK, Exists, Membership
    <2>4. Holding(w)
      BY <1>3, <2>2, RequestFields
         DEF WriteRole, GrantsInv, Serving, Holding, Request
    <2> QED  BY <1>3, <2>2, <2>3, <2>4 DEF WriteRole, GrantsInv, GrantInv, CallerPeak
  <1>4. GrantsInv /\ [GNext]_gvars
          => [\A w \in Workers, r \in Rows :
                ApiStep(w) /\ member'[r] # member[r] /\ Exists(r)'
                   => Rank(member'[r].role) <= peak[req[w].org][req[w].actor]]_gvars
    BY <1>3 DEF GNext
  <1> QED  BY <1>1, <1>2, <1>4, PTL DEF GSpec, NoEscalation
-----------------------------------------------------------------------------
(* One worker at a time implements the matrix.                             *)

\* One request at a time, of the API, besides acceptances.
OneByOne == Endpoints \subseteq ApiOps /\ \A v, w \in Workers : v = w

\* What the request at work has read and checked is still so.
StillSo(w) ==
    /\ org[req[w].org] = "live"
    /\ \E r \in RowsOf(req[w].actor, req[w].org) : member[r].role = actorRole[w]
    /\ req[w].op = "destroy" => actorRole[w] = "owner"
    /\ Holding(w) => /\ req[w].row \in MembersOf(req[w].org)
                     /\ target[w] = member[req[w].row]
                     /\ MayManage(w)
    /\ pc[w] \in {"guard", "write"} /\ Holding(w) /\ Unseats(req[w], target[w])
          => TwoOwners(req[w].org)

SerialInv == \A w \in Workers : pc[w] # "idle" => StillSo(w)

MInv == TypeOK /\ Serving /\ OneRolePerMember /\ SerialInv

\* The role of a member is that of their row.
LEMMA RoleOfRow ==
    ASSUME OneRolePerMember, NEW u, NEW o, NEW r \in RowsOf(u, o)
    PROVE  RoleIn(u, o) = member[r].role
  <1>1. RowsOf(u, o) = {r}  BY DEF OneRolePerMember, RowsOf, MembersOf
  <1> QED  BY <1>1 DEF RoleIn

LEMMA SameRole ==
    ASSUME OneRolePerMember, OneRolePerMember', NEW u, NEW o,
           \A r \in Rows : /\ r \in RowsOf(u, o)' <=> r \in RowsOf(u, o)
                           /\ r \in RowsOf(u, o) => member'[r].role = member[r].role
    PROVE  RoleIn(u, o)' = RoleIn(u, o)
  <1>1. CASE RowsOf(u, o) = {}
    <2>1. RowsOf(u, o)' = {}  BY <1>1 DEF RowsOf, MembersOf
    <2> QED  BY <1>1, <2>1 DEF RoleIn
  <1>2. ASSUME NEW r \in RowsOf(u, o) PROVE RoleIn(u, o)' = RoleIn(u, o)
    <2>1. r \in Rows /\ r \in RowsOf(u, o)'  BY DEF RowsOf, MembersOf
    <2>2. RoleIn(u, o)' = member'[r].role
      <3>1. RowsOf(u, o)' = {r}  BY <2>1 DEF OneRolePerMember, RowsOf, MembersOf
      <3> QED  BY <3>1 DEF RoleIn
    <2>3. RoleIn(u, o) = member[r].role  BY RoleOfRow
    <2> QED  BY <2>1, <2>2, <2>3
  <1> QED  BY <1>1, <1>2

\* The membership table as OrgTeam sees it.
TeamNow == [o \in Orgs |-> [u \in Users |-> RoleIn(u, o)]]

LEMMA OneChanges ==
    ASSUME NEW o \in Orgs, NEW u \in Users, NEW x, RoleIn(u, o)' = x,
           \A p \in Orgs, v \in Users :
              p # o \/ v # u => RoleIn(v, p)' = RoleIn(v, p)
    PROVE  TeamNow' = [TeamNow EXCEPT ![o][u] = x]
  BY DEF TeamNow

\* A step that leaves every other row, and the keys of this one, changes one
\* role at most.
LEMMA OneRowChanges ==
    ASSUME MInv, OneRolePerMember', NEW r \in Rows, NEW row \in Membership,
           \A s \in Rows \ {r} : member'[s] = member[s],
           Exists(r) => member[r].user = row.user /\ member[r].org = row.org,
           Exists(r)' => member'[r].user = row.user /\ member'[r].org = row.org
    PROVE  /\ Exists(r)' => TeamNow' = [TeamNow EXCEPT ![row.org][row.user] = member'[r].role]
           /\ ~Exists(r)' /\ Exists(r)
                 => TeamNow' = [TeamNow EXCEPT ![row.org][row.user] = NoRole]
  <1> DEFINE o == row.org
             u == row.user
  <1>0. o \in Orgs /\ u \in Users  BY DEF Membership
  <1>1. ASSUME NEW p \in Orgs, NEW v \in Users, p # o \/ v # u
        PROVE  RoleIn(v, p)' = RoleIn(v, p)
    <2>1. ASSUME NEW s \in Rows
          PROVE  /\ s \in RowsOf(v, p)' <=> s \in RowsOf(v, p)
                 /\ s \in RowsOf(v, p) => member'[s].role = member[s].role
      BY <1>1 DEF RowsOf, MembersOf, Exists
    <2> QED  BY <2>1, SameRole DEF MInv
  <1>2. CASE Exists(r)'
    <2>1. r \in RowsOf(u, o)'  BY <1>2 DEF RowsOf, MembersOf
    <2>2. RowsOf(u, o)' = {r}  BY <2>1 DEF OneRolePerMember, RowsOf, MembersOf
    <2>3. RoleIn(u, o)' = member'[r].role  BY <2>2 DEF RoleIn
    <2> QED  BY <1>0, <1>1, <1>2, <2>3, OneChanges
  <1>3. CASE ~Exists(r)' /\ Exists(r)
    <2>1. RowsOf(u, o) = {r}
      <3>1. r \in RowsOf(u, o)  BY <1>3 DEF RowsOf, MembersOf
      <3> QED  BY <3>1 DEF MInv, OneRolePerMember, RowsOf, MembersOf
    <2>2. RowsOf(u, o)' = {}
      <3>1. ASSUME NEW s \in RowsOf(u, o)' PROVE FALSE
        <4>1. s \in Rows /\ s # r  BY <1>3, <3>1 DEF RowsOf, MembersOf
        <4>2. s \in RowsOf(u, o)  BY <3>1, <4>1 DEF RowsOf, MembersOf, Exists
        <4> QED  BY <2>1, <4>1, <4>2
      <3> QED  BY <3>1
    <2>3. RoleIn(u, o)' = NoRole  BY <2>2 DEF RoleIn
    <2> QED  BY <1>0, <1>1, <1>3, <2>3, OneChanges
  <1> QED  BY <1>2, <1>3

\* Two Owners' rows are of two people: somebody else than u is an Owner.
LEMMA TwoPeople ==
    ASSUME MInv, NEW o \in Orgs, TwoOwners(o), NEW u
    PROVE  \E v \in Users \ {u} : RoleIn(v, o) = "owner"
  <1>1. PICK r1 \in Owners(o), r2 \in Owners(o) : r1 # r2  BY DEF TwoOwners
  <1>2. /\ Exists(r1) /\ Exists(r2) /\ r1 \in Rows /\ r2 \in Rows
        /\ member[r1].org = o /\ member[r2].org = o
        /\ member[r1].role = "owner" /\ member[r2].role = "owner"
    BY <1>1 DEF Owners, MembersOf
  <1>3. member[r1].user \in Users /\ member[r2].user \in Users
    BY <1>2 DEF MInv, TypeOK, Exists, Membership
  <1>4. member[r1].user # member[r2].user
    BY <1>1, <1>2 DEF MInv, OneRolePerMember, RowsOf, MembersOf
  <1>5. RoleIn(member[r1].user, o) = "owner" /\ RoleIn(member[r2].user, o) = "owner"
    <2>1. r1 \in RowsOf(member[r1].user, o) /\ r2 \in RowsOf(member[r2].user, o)
      BY <1>2 DEF RowsOf, MembersOf
    <2> QED  BY <1>2, <2>1, RoleOfRow DEF MInv
  <1> QED  BY <1>3, <1>4, <1>5


\* While the request is at work, only insertions happen beside it.
LEMMA SerialStep ==
    ASSUME OneByOne, MInv, [Next]_vars
    PROVE  SerialInv'
  <1> USE DEF MInv
  <1>0. Serving' /\ LocalsOK'  BY LocalsStep
  <1> SUFFICES ASSUME NEW w \in Workers, pc'[w] # "idle"
               PROVE  StillSo(w)'
    BY DEF SerialInv
  <1>1. ASSUME UNCHANGED locals, \A r \in Rows : Exists(r) => member'[r] = member[r],
               \A o \in Orgs : org[o] = "live" => org'[o] = "live"
        PROVE  StillSo(w)'
    <2>1. pc[w] # "idle" /\ req[w] \in Request /\ req[w].op \in ApiOps
      BY <1>1 DEF locals, Serving, OneByOne
    <2>2. req[w].org \in Orgs  BY <2>1, RequestFields DEF ApiOps, StaffOps
    <2>3. \A r \in Rows : Exists(r) => Exists(r)'  BY <1>1 DEF Exists
    <2>4. \A o, u : /\ MembersOf(o) \subseteq MembersOf(o)'
                    /\ RowsOf(u, o) \subseteq RowsOf(u, o)'
                    /\ Owners(o) \subseteq Owners(o)'
      BY <1>1, <2>3 DEF MembersOf, RowsOf, Owners
    <2>5. \A o : TwoOwners(o) => TwoOwners(o)'  BY <2>4 DEF TwoOwners
    <2>6. \A o : \A r \in MembersOf(o) : member'[r] = member[r]
      BY <1>1 DEF MembersOf
    <2>7. \A o, u : \A r \in RowsOf(u, o) : member'[r] = member[r]
      BY <1>1 DEF MembersOf, RowsOf
    <2> QED
      BY <1>1, <2>1, <2>2, <2>4, <2>5, <2>6, <2>7 DEF SerialInv, StillSo, Holding, MayManage, locals
  <1>2. ASSUME NEW q \in Request, LoadOrg(w, q)
        PROVE  StillSo(w)'
    <2>1. PICK r \in RowsOf(q.actor, q.org) :
             /\ q.op = "destroy" => member[r].role = "owner"
             /\ actorRole' = [actorRole EXCEPT ![w] = member[r].role]
      BY <1>2 DEF LoadOrg
    <2>2. /\ req'[w] = q /\ actorRole'[w] = member[r].role
          /\ pc'[w] = IF q.row = None THEN "write" ELSE "target"
          /\ UNCHANGED tables
      BY <1>2, <2>1 DEF LoadOrg, TypeOK
    <2>3. ~Holding(w)'  BY <2>2 DEF Holding
    <2>4. r \in RowsOf(q.actor, q.org)' /\ member'[r].role = actorRole'[w]
      BY <2>1, <2>2 DEF RowsOf, MembersOf, Exists, tables
    <2> QED  BY <1>2, <2>1, <2>2, <2>3, <2>4 DEF LoadOrg, StillSo, tables
  <1>3. ASSUME UNCHANGED <<tables, req, actorRole>>, pc[w] # "idle",
               /\ Holding(w)' => /\ req[w].row \in MembersOf(req[w].org)
                                 /\ target'[w] = member[req[w].row]
                                 /\ MayManage(w)
               /\ pc'[w] \in {"guard", "write"} /\ Holding(w)'
                     /\ Unseats(req[w], target'[w]) => TwoOwners(req[w].org)
        PROVE  StillSo(w)'
    <2>1. \A o, u : /\ MembersOf(o)' = MembersOf(o) /\ RowsOf(u, o)' = RowsOf(u, o)
                    /\ Owners(o)' = Owners(o)
      BY <1>3 DEF MembersOf, RowsOf, Owners, Exists, tables
    <2>2. \A o : TwoOwners(o)' <=> TwoOwners(o)  BY <2>1 DEF TwoOwners
    <2> QED  BY <1>3, <2>1, <2>2 DEF SerialInv, StillSo, MayManage, tables
  <1>4. ASSUME LoadTarget(w)
        PROVE  StillSo(w)'
    <2>1. /\ TargetVisible(w) /\ MayManage(w)
          /\ target'[w] = member[req[w].row]
          /\ pc'[w] = IF Unseats(req[w], member[req[w].row]) THEN "count" ELSE "write"
          /\ UNCHANGED <<tables, req, actorRole>> /\ pc[w] # "idle"
      BY <1>4 DEF LoadTarget, Respond, TypeOK
    <2> QED  BY <1>3, <2>1 DEF TargetVisible
  <1>5. ASSUME CountOwners(w) \/ GuardDelete(w)
        PROVE  StillSo(w)'
    <2>1. /\ OthersOwn(target[w].org) /\ Holding(w)
          /\ target'[w] = target[w]
          /\ UNCHANGED <<tables, req, actorRole>> /\ pc[w] # "idle"
      BY <1>5 DEF CountOwners, GuardDelete, Goto, Respond, TypeOK, Holding
    <2>2. /\ req[w].row \in MembersOf(req[w].org) /\ target[w] = member[req[w].row]
          /\ MayManage(w)
      BY <2>1 DEF SerialInv, StillSo
    <2>3. target[w].org = req[w].org  BY <2>2 DEF MembersOf
    <2>4. req[w].org \in Orgs
      BY <2>1, RequestFields DEF Serving, OneByOne, ApiOps, StaffOps
    <2>5. TwoOwners(req[w].org)  BY <2>1, <2>3, <2>4, OthersOwnTwo
    <2> QED  BY <1>3, <2>1, <2>2, <2>5
  <1>6. ASSUME \/ CleanRole(w) \/ CleanCount(w) \/ SaveRow(w)
        PROVE  FALSE
    <2>1. req[w].op \in ApiOps
      BY <1>6 DEF CleanRole, CleanCount, SaveRow, Serving, OneByOne
    <2> QED  BY <1>6, <2>1 DEF CleanRole, CleanCount, SaveRow, Serving, ApiOps
  <1>7. ASSUME WriteRole(w) \/ DeleteRow(w) \/ SaveOrg(w) \/ DestroyOrg(w)
        PROVE  FALSE
    BY <1>7 DEF WriteRole, DeleteRow, SaveOrg, DestroyOrg, Respond, TypeOK
  <1>8. ASSUME NEW u \in Users, NEW o \in Orgs, NEW r \in Rows, CreateOrg(u, o, r)
        PROVE  StillSo(w)'
    <2>1. \A s \in Rows : Exists(s) => member'[s] = member[s]
      BY <1>8 DEF CreateOrg, Exists, TypeOK
    <2> QED  BY <1>1, <1>8, <2>1 DEF CreateOrg, TypeOK
  <1>9. ASSUME NEW u \in Users, NEW o \in Orgs, NEW r \in Rows, NEW role \in Role,
               Join(u, o, r, role)
        PROVE  StillSo(w)'
    <2>1. \A s \in Rows : Exists(s) => member'[s] = member[s]
      BY <1>9 DEF Join, Exists, TypeOK
    <2> QED  BY <1>1, <1>9, <2>1 DEF Join, locals
  <1>10. ASSUME UNCHANGED vars
         PROVE  StillSo(w)'
    BY <1>1, <1>10 DEF vars, locals
  <1>11. \/ UNCHANGED vars
         \/ \E u \in Users, o \in Orgs, r \in Rows : CreateOrg(u, o, r)
         \/ \E u \in Users, o \in Orgs, r \in Rows, role \in Role : Join(u, o, r, role)
         \/ \E q \in Request : LoadOrg(w, q)
         \/ Step(w)
    <2>1. \A v \in Workers : v = w  BY DEF OneByOne
    <2>2. ASSUME NEW v \in Workers, NEW q \in Request, OpenAdminPage(v, q) PROVE FALSE
      BY <2>2 DEF OpenAdminPage, OneByOne, ApiOps, StaffOps
    <2>3. ~\E selected \in SUBSET Rows : AdminBulkDelete(selected)
      BY DEF AdminBulkDelete, OneByOne, ApiOps
    <2>4. "adminInline" \notin Endpoints  BY DEF OneByOne, ApiOps
    <2> QED  BY <2>1, <2>2, <2>3, <2>4 DEF Next, AdminInline
  <1> QED
    BY <1>2, <1>4, <1>5, <1>6, <1>7, <1>8, <1>9, <1>10, <1>11 DEF Step


\* The matrix over the tables, with its definitions unfolded.
LEMMA MatrixActs ==
    ASSUME NEW a \in Users, NEW o \in Orgs
    PROVE  /\ /\ org[o] = "live" /\ RoleIn(a, o) = "owner"
              /\ org' = [org EXCEPT ![o] = "deleted"]
              /\ TeamNow' = [TeamNow EXCEPT ![o] = [u \in Users |-> NoRole]]
              => Matrix!ActBy(a, o)
           /\ \A u \in Users, role \in Role \cup {NoRole} :
                 /\ org[o] = "live" /\ RoleIn(u, o) # NoRole
                 /\ CanManageMember(RoleIn(a, o), RoleIn(u, o))
                 /\ role # NoRole => CanAssignRole(RoleIn(a, o), role)
                 /\ RoleIn(u, o) = "owner" /\ role # "owner"
                       => \E v \in Users \ {u} : RoleIn(v, o) = "owner"
                 /\ TeamNow' = [TeamNow EXCEPT ![o][u] = role]
                 /\ UNCHANGED org
                 => Matrix!ActBy(a, o)
  <1>1. \A p \in Orgs, v \in Users : TeamNow[p][v] = RoleIn(v, p)
    BY DEF TeamNow
  <1>2. ASSUME org[o] = "live", RoleIn(a, o) = "owner",
               org' = [org EXCEPT ![o] = "deleted"],
               TeamNow' = [TeamNow EXCEPT ![o] = [u \in Users |-> NoRole]]
        PROVE  Matrix!ActBy(a, o)
    <2>1. Matrix!Dissolve(a, o)
      BY <1>1, <1>2 DEF Matrix!Dissolve, Matrix!Empty, Matrix!NoRole, NoRole, TeamNow
    <2> QED  BY <2>1 DEF Matrix!ActBy
  <1>3. ASSUME NEW u \in Users, NEW role \in Role \cup {NoRole},
               org[o] = "live", RoleIn(u, o) # NoRole,
               CanManageMember(RoleIn(a, o), RoleIn(u, o)),
               role # NoRole => CanAssignRole(RoleIn(a, o), role),
               RoleIn(u, o) = "owner" /\ role # "owner"
                  => \E v \in Users \ {u} : RoleIn(v, o) = "owner",
               TeamNow' = [TeamNow EXCEPT ![o][u] = role], UNCHANGED org
        PROVE  Matrix!ActBy(a, o)
    <2>1. CASE role = NoRole
      <3>1. Matrix!Remove(a, u, o)
        BY <1>1, <1>3, <2>1
           DEF Matrix!Remove, Matrix!CanManageMember, Matrix!MANAGER_ROLES, Matrix!Rank,
               Matrix!AnotherOwner, Matrix!NoRole, CanManageMember, MANAGER_ROLES, Rank,
               NoRole, TeamNow
      <3> QED  BY <3>1 DEF Matrix!ActBy
    <2>2. CASE role \in Role
      <3>1. Matrix!Change(a, u, o, role)
        BY <1>1, <1>3, <2>2
           DEF Matrix!Change, Matrix!CanManageMember, Matrix!CanAssignRole,
               Matrix!MANAGER_ROLES, Matrix!Rank, Matrix!AnotherOwner, Matrix!NoRole,
               CanManageMember, CanAssignRole, MANAGER_ROLES, Rank, NoRole, Role, TeamNow
      <3> QED  BY <2>2, <3>1 DEF Matrix!ActBy, Matrix!Role, Role
    <2> QED  BY <2>1, <2>2
  <1> QED  BY <1>2, <1>3


\* What a request changes is what the matrix lets its caller do.
LEMMA RequestActs ==
    ASSUME OneByOne, MInv, MInv', NEW w \in Workers, Step(w), ~UNCHANGED tables
    PROVE  Matrix!ActBy(req[w].actor, req[w].org)
  <1> USE DEF MInv
  <1>1. /\ pc[w] = "write" /\ req[w] \in Request
        /\ WriteRole(w) \/ DeleteRow(w) \/ DestroyOrg(w)
    <2>1. ~(LoadTarget(w) \/ CountOwners(w) \/ GuardDelete(w) \/ CleanRole(w) \/ CleanCount(w))
      BY DEF LoadTarget, CountOwners, GuardDelete, CleanRole, CleanCount, Goto, tables
    <2>2. ASSUME SaveOrg(w) PROVE FALSE
      <3>1. org[req[w].org] = "live"  BY <2>2 DEF SaveOrg, SerialInv, StillSo
      <3>2. org' = org  BY <2>2, <3>1 DEF SaveOrg, TypeOK
      <3> QED  BY <2>2, <3>2 DEF SaveOrg, tables
    <2>3. ASSUME SaveRow(w) PROVE FALSE
      BY <2>3 DEF SaveRow, Serving, OneByOne, ApiOps
    <2>4. WriteRole(w) \/ DeleteRow(w) \/ DestroyOrg(w)
      BY <2>1, <2>2, <2>3 DEF Step
    <2> QED  BY <2>4 DEF WriteRole, DeleteRow, DestroyOrg, Serving
  <1>2. req[w].op \in ApiOps  BY <1>1 DEF Serving, OneByOne
  <1>3. PICK a \in Users, o \in Orgs : a = req[w].actor /\ o = req[w].org
    BY <1>1, <1>2 DEF Request, ApiOps
  <1>4. StillSo(w)  BY <1>1 DEF SerialInv
  <1>5. org[o] = "live" /\ RoleIn(a, o) = actorRole[w]
    BY <1>3, <1>4, RoleOfRow DEF StillSo
  <1>6. ASSUME NEW r \in Rows, r = req[w].row, WriteRole(w) \/ DeleteRow(w)
        PROVE  /\ Exists(r) /\ member[r] \in Membership
               /\ member[r].user \in Users /\ member[r].org = o
               /\ RoleIn(member[r].user, o) = member[r].role
               /\ CanManageMember(RoleIn(a, o), member[r].role)
               /\ req[w].op = "setRole" => CanAssignRole(RoleIn(a, o), req[w].role)
               /\ member[r].role = "owner" /\ req[w].role # "owner"
                     => \E v \in Users \ {member[r].user} : RoleIn(v, o) = "owner"
    <2>1. Holding(w)  BY <1>1, <1>6, NullAssumption DEF Holding
    <2>2. r \in MembersOf(o) /\ target[w] = member[r] /\ MayManage(w)
      BY <1>3, <1>4, <1>6, <2>1 DEF StillSo
    <2>3. Exists(r) /\ member[r].org = o /\ member[r] \in Membership
      BY <2>2 DEF MembersOf, Exists, TypeOK
    <2>4. member[r].user \in Users  BY <2>3 DEF Membership
    <2>5. r \in RowsOf(member[r].user, o)  BY <2>2 DEF RowsOf
    <2>6. RoleIn(member[r].user, o) = member[r].role  BY <2>5, RoleOfRow
    <2>7. ASSUME member[r].role = "owner", req[w].role # "owner"
          PROVE  \E v \in Users \ {member[r].user} : RoleIn(v, o) = "owner"
      <3>1. TwoOwners(o)  BY <1>1, <1>3, <1>4, <2>1, <2>2, <2>7 DEF StillSo, Unseats
      <3> QED  BY <3>1, TwoPeople
    <2> QED  BY <1>5, <1>6, <2>2, <2>3, <2>4, <2>6, <2>7 DEF MayManage
  <1>7. CASE WriteRole(w)
    <2>1. req[w].op = "setRole" /\ req[w].row \in Rows /\ req[w].role \in Role
      BY <1>1, <1>7 DEF WriteRole, Request
    <2>2. PICK r \in Rows : r = req[w].row  BY <2>1
    <2>3. /\ Exists(r) /\ member[r] \in Membership /\ member[r].user \in Users
          /\ member[r].org = o
          /\ member' = [member EXCEPT ![r].role = req[w].role]
          /\ UNCHANGED org
      BY <1>6, <1>7, <2>2 DEF WriteRole
    <2>4. /\ member'[r] \in Membership /\ member'[r].role = req[w].role
          /\ member'[r].user = member[r].user /\ member'[r].org = member[r].org
      BY <2>1, <2>3 DEF Membership, TypeOK
    <2>5. \A s \in Rows \ {r} : member'[s] = member[s]  BY <2>3 DEF TypeOK
    <2>6. Exists(r)'  BY <2>4, NullAssumption DEF Exists
    <2>7. TeamNow' = [TeamNow EXCEPT ![o][member[r].user] = req[w].role]
      <3>1. PICK row \in Membership : row = member[r]  BY <2>3
      <3>2. TeamNow' = [TeamNow EXCEPT ![row.org][row.user] = member'[r].role]
        BY <2>4, <2>5, <2>6, <3>1, OneRowChanges
      <3> QED  BY <2>3, <2>4, <3>1, <3>2
    <2>8. member[r].role # NoRole  BY <2>3 DEF Membership, Role, NoRole
    <2> QED  BY <1>3, <1>5, <1>6, <1>7, <2>1, <2>2, <2>3, <2>7, <2>8, MatrixActs
  <1>8. CASE DeleteRow(w)
    <2>1. req[w].op = "remove" /\ req[w].row \in Rows /\ req[w].role = NoRole
      BY <1>1, <1>2, <1>8, RequestFields DEF DeleteRow, ApiOps, Request
    <2>2. PICK r \in Rows : r = req[w].row  BY <2>1
    <2>3. /\ Exists(r) /\ member[r] \in Membership /\ member[r].user \in Users
          /\ member[r].org = o
          /\ member' = [member EXCEPT ![r] = Deleted] /\ UNCHANGED org
      BY <1>6, <1>8, <2>2 DEF DeleteRow
    <2>4. \A s \in Rows \ {r} : member'[s] = member[s]  BY <2>3 DEF TypeOK
    <2>5. ~Exists(r)'  BY <2>3 DEF Exists, TypeOK
    <2>6. TeamNow' = [TeamNow EXCEPT ![o][member[r].user] = NoRole]
      BY <2>3, <2>4, <2>5, OneRowChanges
    <2>7. member[r].role # NoRole /\ NoRole # "owner"
      BY <2>3 DEF Membership, Role, NoRole
    <2> QED  BY <1>3, <1>5, <1>6, <1>8, <2>1, <2>2, <2>3, <2>6, <2>7, MatrixActs
  <1>9. CASE DestroyOrg(w)
    <2>1. actorRole[w] = "owner"  BY <1>4, <1>9 DEF DestroyOrg, StillSo
    <2>2. /\ org' = [org EXCEPT ![o] = "deleted"]
          /\ \A r \in Rows : member'[r] = IF r \in MembersOf(o) THEN Deleted ELSE member[r]
      BY <1>3, <1>9 DEF DestroyOrg
    <2>3. \A u \in Users : RoleIn(u, o)' = NoRole
      <3>1. \A u : RowsOf(u, o)' = {}  BY <2>2 DEF RowsOf, MembersOf, Exists
      <3> QED  BY <3>1 DEF RoleIn
    <2>4. ASSUME NEW p \in Orgs, p # o, NEW u \in Users
          PROVE  RoleIn(u, p)' = RoleIn(u, p)
      <3>1. \A r \in Rows : /\ r \in RowsOf(u, p)' <=> r \in RowsOf(u, p)
                            /\ r \in RowsOf(u, p) => member'[r].role = member[r].role
        BY <2>2, <2>4 DEF RowsOf, MembersOf, Exists
      <3> QED  BY <3>1, SameRole
    <2>5. TeamNow' = [TeamNow EXCEPT ![o] = [u \in Users |-> NoRole]]
      BY <2>3, <2>4 DEF TeamNow
    <2> QED  BY <1>3, <1>5, <2>1, <2>2, <2>5, MatrixActs
  <1> QED  BY <1>1, <1>7, <1>8, <1>9

\* A founder or an invitee enters as the matrix has it.
LEMMA EntersAsOwner ==
    ASSUME MInv, MInv', NEW u \in Users, NEW o \in Orgs, NEW r \in Rows, CreateOrg(u, o, r)
    PROVE  Matrix!Found(u, o)
  <1> USE DEF MInv
  <1> DEFINE row == [user |-> u, org |-> o, role |-> "owner"]
  <1>1. /\ org[o] = "unissued" /\ member[r] = Unissued
        /\ org' = [org EXCEPT ![o] = "live"] /\ member' = [member EXCEPT ![r] = row]
    BY DEF CreateOrg
  <1>2. row \in Membership /\ row.user = u /\ row.org = o /\ row.role = "owner"
    BY DEF Membership, Role
  <1> HIDE DEF row
  <1>3. ~Exists(r) /\ Exists(r)' /\ member'[r] = row
    BY <1>1, <1>2, NullAssumption DEF Exists, TypeOK
  <1>4. \A s \in Rows \ {r} : member'[s] = member[s]  BY <1>1 DEF TypeOK
  <1>5. TeamNow' = [TeamNow EXCEPT ![o][u] = "owner"]
    BY <1>2, <1>3, <1>4, OneRowChanges
  <1>6. \A v \in Users : RoleIn(v, o) = NoRole
    <2>1. \A v : RowsOf(v, o) = {}
      BY <1>1 DEF OneRolePerMember, RowsOf, MembersOf
    <2> QED  BY <2>1 DEF RoleIn
  <1>7. TeamNow[o] = [v \in Users |-> NoRole]  BY <1>6 DEF TeamNow
  <1>8. TeamNow' = [TeamNow EXCEPT ![o] = [[v \in Users |-> NoRole] EXCEPT ![u] = "owner"]]
    BY <1>5, <1>7
  <1> QED  BY <1>1, <1>8 DEF Matrix!Found, Matrix!Empty, Matrix!NoRole, NoRole, TeamNow

LEMMA EntersAsInvited ==
    ASSUME MInv, MInv', NEW u \in Users, NEW o \in Orgs, NEW r \in Rows,
           NEW role \in Role, Join(u, o, r, role)
    PROVE  Matrix!Admit(u, o, role)
  <1> USE DEF MInv
  <1> DEFINE row == [user |-> u, org |-> o, role |-> role]
  <1>1. /\ org[o] = "live" /\ member[r] = Unissued /\ RowsOf(u, o) = {}
        /\ UNCHANGED org /\ member' = [member EXCEPT ![r] = row]
    BY DEF Join
  <1>2. row \in Membership /\ row.user = u /\ row.org = o /\ row.role = role
    BY DEF Membership
  <1> HIDE DEF row
  <1>3. ~Exists(r) /\ Exists(r)' /\ member'[r] = row
    BY <1>1, <1>2, NullAssumption DEF Exists, TypeOK
  <1>4. \A s \in Rows \ {r} : member'[s] = member[s]  BY <1>1 DEF TypeOK
  <1>5. TeamNow' = [TeamNow EXCEPT ![o][u] = role]
    BY <1>2, <1>3, <1>4, OneRowChanges
  <1>6. TeamNow[o][u] = NoRole  BY <1>1 DEF TeamNow, RoleIn
  <1> QED  BY <1>1, <1>5, <1>6 DEF Matrix!Admit, Matrix!NoRole, NoRole, TeamNow


LEMMA MInvHolds ==
    ASSUME OneByOne
    PROVE  /\ Init => MInv
           /\ MInv /\ [Next]_vars => MInv'
  <1>1. Init => MInv
    BY DEF Init, MInv, TypeOK, Serving, OneRolePerMember, Exists, SerialInv, Holding
  <1>2. MInv /\ [Next]_vars => MInv'
    <2> SUFFICES ASSUME MInv, [Next]_vars PROVE MInv'  OBVIOUS
    <2>1. TypeOK' /\ Serving'  BY LocalsStep, TablesStep DEF MInv, TypeOK, LocalsOK
    <2>2. OneRolePerMember'  BY OneRoleStep DEF MInv
    <2>3. SerialInv'  BY SerialStep
    <2> QED  BY <2>1, <2>2, <2>3 DEF MInv
  <1> QED  BY <1>1, <1>2

\* A step is one of the matrix, by the caller if it is a request's, or leaves
\* the tables.
LEMMA MatrixStep ==
    ASSUME OneByOne, MInv, MInv', [Next]_vars
    PROVE  /\ Matrix!Next \/ UNCHANGED tables
           /\ \A w \in Workers : ApiStep(w) /\ ~UNCHANGED tables
                => Matrix!ActBy(req[w].actor, req[w].org)
  <1>1. ASSUME NEW w \in Workers, Step(w), ~UNCHANGED tables
        PROVE  Matrix!ActBy(req[w].actor, req[w].org) /\ Matrix!Next
    <2>1. Matrix!ActBy(req[w].actor, req[w].org)  BY <1>1, RequestActs
    <2>2. req[w] \in Request /\ req[w].op \in ApiOps
      <3>1. pc[w] # "idle"
        BY <1>1 DEF Step, LoadTarget, CountOwners, GuardDelete, WriteRole, DeleteRow,
                    SaveOrg, DestroyOrg, CleanRole, CleanCount, SaveRow
      <3> QED  BY <3>1 DEF MInv, Serving, OneByOne
    <2>3. req[w].actor \in Users /\ req[w].org \in Orgs
      BY <2>2 DEF Request, ApiOps
    <2> QED  BY <2>1, <2>3 DEF Matrix!Next
  <1>2. ASSUME NEW u \in Users, NEW o \in Orgs, NEW r \in Rows, CreateOrg(u, o, r)
        PROVE  Matrix!Next /\ UNCHANGED locals
    <2>1. Matrix!Found(u, o)  BY <1>2, EntersAsOwner
    <2> QED  BY <1>2, <2>1 DEF Matrix!Next, CreateOrg
  <1>3. ASSUME NEW u \in Users, NEW o \in Orgs, NEW r \in Rows, NEW role \in Role,
               Join(u, o, r, role)
        PROVE  Matrix!Next /\ UNCHANGED locals
    <2>1. Matrix!Admit(u, o, role)  BY <1>3, EntersAsInvited
    <2> QED  BY <1>3, <2>1 DEF Matrix!Next, Matrix!Role, Role, Join, locals
  <1>4. \/ UNCHANGED tables
        \/ \E u \in Users, o \in Orgs, r \in Rows : CreateOrg(u, o, r)
        \/ \E u \in Users, o \in Orgs, r \in Rows, role \in Role : Join(u, o, r, role)
        \/ \E w \in Workers : Step(w)
    <2>1. "adminBulkDelete" \notin Endpoints /\ "adminInline" \notin Endpoints
      BY DEF OneByOne, ApiOps
    <2> QED
      BY <2>1 DEF Next, LoadOrg, OpenAdminPage, AdminBulkDelete, AdminInline, vars, tables
  <1>5. ASSUME NEW w \in Workers, ApiStep(w), ~UNCHANGED tables
        PROVE  Matrix!ActBy(req[w].actor, req[w].org)
    <2>1. ~UNCHANGED locals  BY <1>5 DEF ApiStep, locals
    <2>2. PICK v \in Workers : Step(v)  BY <1>2, <1>3, <1>4, <1>5, <2>1
    <2>3. v = w  BY DEF OneByOne
    <2> QED  BY <1>1, <1>5, <2>2, <2>3
  <1>6. Matrix!Next \/ UNCHANGED tables
    BY <1>1, <1>2, <1>3, <1>4
  <1> QED  BY <1>5, <1>6

\* The abstract variables are functions of the tables.
LEMMA SameTables ==
    ASSUME MInv, MInv', UNCHANGED tables
    PROVE  UNCHANGED Matrix!tvars
  <1>1. \A u \in Users, o \in Orgs : RoleIn(u, o)' = RoleIn(u, o)
    BY SameRole DEF MInv, tables, RowsOf, MembersOf, Exists
  <1>2. TeamNow' = TeamNow  BY <1>1 DEF TeamNow
  <1> QED  BY <1>2 DEF Matrix!tvars, TeamNow, tables

LEMMA InitMatrix == Init => Matrix!Init
  <1> SUFFICES ASSUME Init PROVE Matrix!Init  OBVIOUS
  <1>1. \A u, o : RowsOf(u, o) = {}  BY DEF Init, RowsOf, MembersOf, Exists
  <1>2. \A u, o : RoleIn(u, o) = NoRole  BY <1>1 DEF RoleIn
  <1> QED  BY <1>2 DEF Init, Matrix!Init, Matrix!Empty, Matrix!NoRole, NoRole

\* The member and organization handlers of organizations/views.py, serving one
\* request at a time while invitations are accepted, implement OrgTeam: the
\* tables only change as the matrix of core/rbac.py allows at that moment.
THEOREM MatrixTheorem ==
    ASSUME OneByOne
    PROVE  Spec => MatrixSpec
  <1>1. MInv /\ MInv' /\ [Next]_vars => [Matrix!Next]_Matrix!tvars
    BY MatrixStep, SameTables
  <1> QED  BY <1>1, InitMatrix, MInvHolds, PTL DEF Spec, MatrixSpec, Matrix!Spec

\* What such a request changes, its caller's role lets the caller do.
THEOREM MatrixBindsTheorem ==
    ASSUME OneByOne
    PROVE  Spec => MatrixBindsCaller
  <1>1. MInv /\ MInv' /\ [Next]_vars =>
          [\A w \in Workers :
              ApiStep(w) /\ tables' # tables
                 => Matrix!ActBy(req[w].actor, req[w].org)]_vars
    BY MatrixStep
  <1> QED  BY <1>1, MInvHolds, PTL DEF Spec, MatrixBindsCaller

\* The theorems of OrgTeam, about the organizations and roles that the rows say.
Facts == INSTANCE OrgTeamProofs WITH
           status <- org,
           team   <- [o \in Orgs |-> [u \in Users |-> RoleIn(u, o)]]

\* "No ownerless org" (core/rbac.py), of the handlers themselves: served one
\* request at a time they keep every organization an Owner, for they implement
\* the matrix and the matrix does.
THEOREM SerialOwnerTheorem ==
    ASSUME OneByOne
    PROVE  Spec => []HasOwner
  <1>1. [Matrix!Next]_Matrix!tvars => [Facts!Next]_Facts!tvars
    BY DEF Matrix!Next, Matrix!tvars, Matrix!Found, Matrix!Admit, Matrix!ActBy,
           Matrix!Dissolve, Matrix!Remove, Matrix!Change, Matrix!AnotherOwner,
           Matrix!Empty, Matrix!Role, Matrix!NoRole, Matrix!CanManageMember,
           Matrix!CanAssignRole, Matrix!MANAGER_ROLES, Matrix!Rank,
           Facts!Next, Facts!tvars, Facts!Found, Facts!Admit, Facts!ActBy,
           Facts!Dissolve, Facts!Remove, Facts!Change, Facts!AnotherOwner, Facts!Empty,
           Facts!Role, Facts!NoRole, Facts!CanManageMember, Facts!CanAssignRole,
           Facts!MANAGER_ROLES, Facts!Rank
  <1>2. Matrix!Init => Facts!Init
    BY DEF Matrix!Init, Matrix!Empty, Matrix!NoRole, Facts!Init, Facts!Empty, Facts!NoRole
  <1>3. Facts!Spec => []Facts!Owned
    BY Facts!OwnedTheorem
  <1>4. MInv /\ Facts!Owned => HasOwner
    <2> SUFFICES ASSUME MInv, Facts!Owned, NEW o \in Orgs, org[o] = "live"
                 PROVE  Owners(o) # {}
        BY DEF HasOwner
    <2>1. PICK u \in Users : RoleIn(u, o) = "owner"
      BY DEF Facts!Owned
    <2>2. PICK r \in RowsOf(u, o) : RoleIn(u, o) = member[r].role
      BY <2>1 DEF RoleIn, NoRole
    <2> QED  BY <2>1, <2>2 DEF RowsOf, Owners
  <1> QED
    BY <1>1, <1>2, <1>3, <1>4, MatrixTheorem, MInvHolds, PTL
       DEF Spec, MatrixSpec, Matrix!Spec, Facts!Spec
=============================================================================
