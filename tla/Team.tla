-------------------------------- MODULE Team --------------------------------
(***************************************************************************)
(* Organizations and their memberships, as the requests that manage them   *)
(* see them.  PostgreSQL runs every statement of these handlers in its own *)
(* transaction (no ATOMIC_REQUESTS, READ COMMITTED), and several gunicorn  *)
(* workers serve requests at once: each statement is an action, what it    *)
(* read stays in the worker's locals, and other workers may act before the *)
(* next one.  A refusal at a request's first statement leaves the worker   *)
(* idle and the tables as they were, so it is no action.                   *)
(***************************************************************************)
EXTENDS Roles, FiniteSets

CONSTANTS
    Users,      \* the people who sign in
    Orgs,       \* primary keys of organizations, issued once
    Rows,       \* primary keys of memberships, issued once
    Workers,    \* request workers
    Endpoints,  \* the operations the environment uses
    Unissued,   \* a primary key that has never been used
    Deleted,    \* a primary key whose row is gone
    None        \* no actor (staff), no row, no request

ApiOps   == {"remove", "setRole", "rename", "destroy"}
\* The admin's delete page; its change page, with the organization field left
\* alone or edited; its "delete selected" action; the members on the page of
\* their organization.
StaffOps == {"adminDelete", "adminRole", "adminChange", "adminBulkDelete",
             "adminInline"}

\* The operations that count the Owners before they take one away.
GuardedOps == {"remove", "setRole", "destroy", "adminDelete", "adminRole"}

\* A row of organizations_membership.
Membership == [user : Users, org : Orgs, role : Role]

\* What a request names: its caller, the organization and membership of its
\* path, and the role of its payload (the form's organization and role, for
\* the admin's change page).
Request ==
    [op : {"remove"}, actor : Users, org : Orgs, row : Rows, role : {NoRole}]
        \cup
    [op : {"setRole"}, actor : Users, org : Orgs, row : Rows, role : Role]
        \cup
    [op : {"rename", "destroy"}, actor : Users, org : Orgs, row : {None},
     role : {NoRole}]
        \cup
    [op : {"adminDelete"}, actor : {None}, org : {None}, row : Rows,
     role : {NoRole}]
        \cup
    [op : {"adminRole", "adminChange"}, actor : {None}, org : Orgs, row : Rows,
     role : Role]

ASSUME EndpointsAssumption == Endpoints \subseteq ApiOps \cup StaffOps

ASSUME NullAssumption ==
    /\ None \notin Users \cup Orgs \cup Rows
    /\ None \notin Membership \cup Request
    /\ Unissued \notin Membership
    /\ Deleted \notin Membership \cup {Unissued}

\* A table holds finitely many rows.
ASSUME RowsAssumption == IsFiniteSet(Rows)

VARIABLES
    org,        \* org[o]: "unissued", "live" or "deleted"
    member,     \* member[r]: the membership table
    pc,         \* pc[w]: the statement worker w runs next
    req,        \* req[w]: its request
    actorRole,  \* actorRole[w]: the caller_role it read with the organization
    target      \* target[w]: the membership it read

tables == <<org, member>>
locals == <<pc, req, actorRole, target>>
vars   == <<org, member, pc, req, actorRole, target>>

TypeOK ==
    /\ org \in [Orgs -> {"unissued", "live", "deleted"}]
    /\ member \in [Rows -> Membership \cup {Unissued, Deleted}]
    /\ pc \in [Workers -> {"idle", "target", "count", "guard", "clean",
                           "cleanCount", "write"}]
    /\ req \in [Workers -> Request \cup {None}]
    /\ actorRole \in [Workers -> Role \cup {NoRole}]
    /\ target \in [Workers -> Membership \cup {None}]

\* Worker w has read its target and has statements to run.
Holding(w) == \/ pc[w] \in {"count", "guard", "clean", "cleanCount"}
              \/ pc[w] = "write" /\ req[w].row # None

\* A busy worker has a request, and past its read of the target a membership.
Serving ==
    \A w \in Workers :
        /\ pc[w] # "idle" => req[w] \in Request /\ req[w].op \in Endpoints
        /\ pc[w] = "target" => req[w].op \in {"remove", "setRole"}
        /\ pc[w] \in {"clean", "cleanCount"} =>
              req[w].op \in {"adminRole", "adminChange"}
        /\ Holding(w) => req[w].row \in Rows /\ target[w] \in Membership
-----------------------------------------------------------------------------
\* Queries over the membership table.
Exists(r)         == member[r] \notin {Unissued, Deleted}
MembersOf(o)      == {r \in Rows : Exists(r) /\ member[r].org = o}
Owners(o)         == {r \in MembersOf(o) : member[r].role = "owner"}
RowsOf(u, o)      == {r \in MembersOf(o) : member[r].user = u}

Init ==
    /\ org = [o \in Orgs |-> "unissued"]
    /\ member = [r \in Rows |-> Unissued]
    /\ pc = [w \in Workers |-> "idle"]
    /\ req = [w \in Workers |-> None]
    /\ actorRole = [w \in Workers |-> NoRole]
    /\ target = [w \in Workers |-> None]

\* The response is sent: the worker forgets the request.
Respond(w) ==
    /\ pc' = [pc EXCEPT ![w] = "idle"]
    /\ req' = [req EXCEPT ![w] = None]
    /\ actorRole' = [actorRole EXCEPT ![w] = NoRole]
    /\ target' = [target EXCEPT ![w] = None]

Goto(w, statement) ==
    /\ pc' = [pc EXCEPT ![w] = statement]
    /\ UNCHANGED <<tables, req, actorRole, target>>
-----------------------------------------------------------------------------
(* The two ways a membership begins: with a new organization, and with an  *)
(* accepted invitation.  Each commits as one transaction.                  *)

\* A slip for the mutation runs: the creator's row without its role.
CreateOrg_NoRole(u, o, r) ==
    /\ org[o] = "unissued"
    /\ member[r] = Unissued
    /\ org' = [org EXCEPT ![o] = "live"]
    /\ member' = [member EXCEPT ![r] = [user |-> u, org |-> o, role |-> NoRole]]
    /\ UNCHANGED locals

\* POST /organizations/: the organization and its creator's Owner row, in one
\* transaction.
CreateOrg(u, o, r) ==
    /\ org[o] = "unissued"
    /\ member[r] = Unissued
    /\ org' = [org EXCEPT ![o] = "live"]
    /\ member' = [member EXCEPT
                    ![r] = [user |-> u, org |-> o, role |-> "owner"]]
    /\ UNCHANGED locals

\* The write of an accepted invitation: the invitee, not a member yet, joins
\* with the invited role.
Join(u, o, r, role) ==
    /\ org[o] = "live"
    /\ RowsOf(u, o) = {}
    /\ member[r] = Unissued
    /\ member' = [member EXCEPT
                    ![r] = [user |-> u, org |-> o, role |-> role]]
    /\ UNCHANGED <<org, locals>>
-----------------------------------------------------------------------------
(* PATCH and DELETE /organizations/{pk}/members/{member_pk}, PATCH and     *)
(* DELETE /organizations/{pk}.                                             *)

\* get_object: the organization among the caller's own, with the caller's
\* role in it; the role checks that need nothing else.
LoadOrg(w, q) ==
    /\ pc[w] = "idle"
    /\ q.op \in Endpoints \cap ApiOps
    /\ org[q.org] = "live"
    /\ \E r \in RowsOf(q.actor, q.org) :
          LET callerRole == member[r].role IN
          /\ q.op = "rename"  => callerRole \in MANAGER_ROLES
          /\ q.op = "destroy" => callerRole = "owner"
          /\ actorRole' = [actorRole EXCEPT ![w] = callerRole]
    /\ req' = [req EXCEPT ![w] = q]
    /\ pc' = [pc EXCEPT ![w] = IF q.row = None THEN "write" ELSE "target"]
    /\ UNCHANGED <<tables, target>>

\* A slip for the mutation runs: the target is looked up by key alone.
TargetVisible_AnyOrg(w) == Exists(req[w].row)

\* get_object_or_404(Membership, organization=org, pk=member_pk)
TargetVisible(w) == req[w].row \in MembersOf(req[w].org)

\* A slip for the mutation runs: any manager may manage any member.
MayManage_AnyTarget(w) ==
    /\ actorRole[w] \in MANAGER_ROLES
    /\ req[w].op = "setRole" => CanAssignRole(actorRole[w], req[w].role)

\* The role checks on the target and on the payload.
MayManage(w) ==
    /\ CanManageMember(actorRole[w], member[req[w].row].role)
    /\ req[w].op = "setRole" => CanAssignRole(actorRole[w], req[w].role)

\* A slip for the mutation runs: only a demotion takes the Owner role away.
Unseats_DemotionOnly(q, row) ==
    row.role = "owner" /\ q.role \in {"admin", "member"}

\* Does the request take the Owner role away from a row that has it?
Unseats(q, row) == row.role = "owner" /\ q.role # "owner"

\* The membership of the path is read and the caller's right to manage it
\* checked; a target that loses the Owner role is counted next.
LoadTarget(w) ==
    /\ pc[w] = "target"
    /\ \/ /\ TargetVisible(w)
          /\ MayManage(w)
          /\ target' = [target EXCEPT ![w] = member[req[w].row]]
          /\ pc' = [pc EXCEPT ![w] =
                      IF Unseats(req[w], member[req[w].row])
                        THEN "count" ELSE "write"]
          /\ UNCHANGED <<req, actorRole>>
       \/ /\ ~(TargetVisible(w) /\ MayManage(w))
          /\ Respond(w)
    /\ UNCHANGED tables

\* A slip for the mutation runs: the last owner passes the count.
OthersOwn_OffByOne(o) == Cardinality(Owners(o)) >= 1

\* The count of is_last_owner and of Membership._org_owner_count.
OthersOwn(o) == Cardinality(Owners(o)) > 1

\* is_last_owner(target): a query of its own, over rows nobody locked.
CountOwners(w) ==
    /\ pc[w] = "count"
    /\ \/ /\ OthersOwn(target[w].org)
          /\ Goto(w, IF req[w].op = "remove" THEN "guard" ELSE "write")
       \/ /\ ~OthersOwn(target[w].org)
          /\ Respond(w)
          /\ UNCHANGED tables

\* Membership.delete counts again, for the role the instance was read with.
GuardDelete(w) ==
    /\ pc[w] = "guard"
    /\ \/ /\ OthersOwn(target[w].org)
          /\ Goto(w, "write")
       \/ /\ ~OthersOwn(target[w].org)
          /\ Respond(w)
          /\ UNCHANGED tables

\* target.save(update_fields=["role"]): an UPDATE by primary key.  A row that
\* is gone raises DatabaseError, which changes nothing.
WriteRole(w) ==
    /\ pc[w] = "write"
    /\ req[w].op = "setRole"
    /\ member' = IF Exists(req[w].row)
                   THEN [member EXCEPT ![req[w].row].role = req[w].role]
                   ELSE member
    /\ Respond(w)
    /\ UNCHANGED org

\* The DELETE by primary key of Model.delete.
DeleteRow(w) ==
    /\ pc[w] = "write"
    /\ req[w].op \in {"remove", "adminDelete"}
    /\ member' = [member EXCEPT ![req[w].row] = Deleted]
    /\ Respond(w)
    /\ UNCHANGED org

\* perform_update: a save of every field.  Model.save updates the row of the
\* primary key and, when there is none any more, inserts it.
SaveOrg(w) ==
    /\ pc[w] = "write"
    /\ req[w].op = "rename"
    /\ org' = [org EXCEPT ![req[w].org] = "live"]
    /\ Respond(w)
    /\ UNCHANGED member

\* perform_destroy: the collector deletes the memberships with the
\* organization in one transaction, past Membership.delete.
DestroyOrg(w) ==
    /\ pc[w] = "write"
    /\ req[w].op = "destroy"
    /\ org' = [org EXCEPT ![req[w].org] = "deleted"]
    /\ member' = [r \in Rows |-> IF r \in MembersOf(req[w].org)
                                   THEN Deleted ELSE member[r]]
    /\ Respond(w)
-----------------------------------------------------------------------------
(* The Django admin's delete page, change page and "delete selected".      *)

\* The page's next statement: the form is cleaned before it is saved, and
\* Membership.delete counts for an Owner.
AfterAdminPage(q, row) ==
    IF q.op # "adminDelete" THEN "clean"
    ELSE IF row.role = "owner" THEN "guard" ELSE "write"

\* The admin reads the membership it will delete or edit.
OpenAdminPage(w, q) ==
    /\ pc[w] = "idle"
    /\ q.op \in Endpoints \cap StaffOps
    /\ Exists(q.row)
    /\ q.op = "adminRole" => q.org = member[q.row].org
    /\ req' = [req EXCEPT ![w] = q]
    /\ target' = [target EXCEPT ![w] = member[q.row]]
    /\ pc' = [pc EXCEPT ![w] = AfterAdminPage(q, member[q.row])]
    /\ UNCHANGED <<tables, actorRole>>

\* Membership.clean reads the role the row has now ...
CleanRole(w) ==
    /\ pc[w] = "clean"
    /\ Goto(w, IF /\ Exists(req[w].row)
                  /\ Unseats(req[w], member[req[w].row])
                 THEN "cleanCount" ELSE "write")

\* ... and counts the owners of the organization the edited instance names,
\* which is the form's organization.
CleanCount(w) ==
    /\ pc[w] = "cleanCount"
    /\ \/ /\ OthersOwn(req[w].org)
          /\ Goto(w, "write")
       \/ /\ ~OthersOwn(req[w].org)
          /\ Respond(w)
          /\ UNCHANGED tables

\* A slip for the mutation runs: memberships without uniq_user_org.
SaveRow_NoUnique(w) ==
    /\ pc[w] = "write"
    /\ req[w].op \in {"adminRole", "adminChange"}
    /\ LET row == [user |-> target[w].user, org |-> req[w].org,
                   role |-> req[w].role]
       IN  member' = IF org[row.org] = "live"
                       THEN [member EXCEPT ![req[w].row] = row]
                       ELSE member
    /\ Respond(w)
    /\ UNCHANGED org

\* The form's save of every field: UPDATE, or INSERT when the row is gone.
\* The foreign key and uniq_user_org turn the rest into an error.
SaveRow(w) ==
    /\ pc[w] = "write"
    /\ req[w].op \in {"adminRole", "adminChange"}
    /\ LET row == [user |-> target[w].user, org |-> req[w].org,
                   role |-> req[w].role]
       IN  member' = IF /\ org[row.org] = "live"
                        /\ RowsOf(row.user, row.org) \subseteq {req[w].row}
                       THEN [member EXCEPT ![req[w].row] = row]
                       ELSE member
    /\ Respond(w)
    /\ UNCHANGED org

\* The "delete selected" action: QuerySet.delete, past Membership.delete.
AdminBulkDelete(selected) ==
    /\ "adminBulkDelete" \in Endpoints
    /\ selected # {}
    /\ \A r \in selected : Exists(r)
    /\ member' = [r \in Rows |-> IF r \in selected THEN Deleted ELSE member[r]]
    /\ UNCHANGED <<org, locals>>

\* The organization's page, with its members inline: every row of the form is
\* cleaned before the first is saved, and each removal is counted when its turn
\* comes.  The turns follow the users' keys, whose order the model leaves open.
AdminInline(o, demoted, removed, role) ==
    /\ "adminInline" \in Endpoints
    /\ demoted \cap removed = {}
    /\ demoted \cap Owners(o) # {} => OthersOwn(o)
    /\ removed \cap Owners(o) # {} => Owners(o) \ removed # {}
    /\ member' = [r \in Rows |->
                    IF r \in removed THEN Deleted
                    ELSE IF r \in demoted THEN [member[r] EXCEPT !.role = role]
                    ELSE member[r]]
    /\ UNCHANGED <<org, locals>>
-----------------------------------------------------------------------------
Step(w) ==
    \/ LoadTarget(w)
    \/ CountOwners(w)
    \/ GuardDelete(w)
    \/ WriteRole(w)
    \/ DeleteRow(w)
    \/ SaveOrg(w)
    \/ DestroyOrg(w)
    \/ CleanRole(w)
    \/ CleanCount(w)
    \/ SaveRow(w)

Next ==
    \/ \E u \in Users, o \in Orgs, r \in Rows : CreateOrg(u, o, r)
    \/ \E u \in Users, o \in Orgs, r \in Rows, role \in Role :
          Join(u, o, r, role)
    \/ \E w \in Workers, q \in Request : LoadOrg(w, q)
    \/ \E w \in Workers, q \in Request : OpenAdminPage(w, q)
    \/ \E w \in Workers : Step(w)
    \/ \E selected \in SUBSET Rows : AdminBulkDelete(selected)
    \/ \E o \in Orgs : \E demoted, removed \in SUBSET MembersOf(o),
                        role \in Role \ {"owner"} :
          AdminInline(o, demoted, removed, role)

Spec == Init /\ [][Next]_vars
-----------------------------------------------------------------------------
\* A caller has one role: a user has at most one membership in an organization,
\* and only in one that exists, whatever staff move and whatever a form saves
\* over.  get_queryset takes the first membership it finds for the caller's
\* role, and the count of Owners takes every row for a person.
OneRolePerMember ==
    \A r \in Rows : Exists(r) => /\ org[member[r].org] = "live"
                                 /\ RowsOf(member[r].user, member[r].org) = {r}

\* Worker w runs a statement of an API request.
ApiStep(w) == /\ pc'[w] # pc[w]
              /\ req[w] # None
              /\ req[w].op \in ApiOps

\* Every organization has an Owner: "you can't demote or remove the last
\* remaining Owner" (core/rbac.py), "the admin, inline forms, and shell can't
\* orphan an org either" (organizations/models.py).
HasOwner == \A o \in Orgs : org[o] = "live" => Owners(o) # {}

\* Tenant isolation of member management: a request on one organization
\* changes or removes no membership of another, however stale the target it
\* read is by the time it writes.  (Staff may move a membership to another
\* organization; this is about the API alone.)
TenantIsolation ==
    [][\A w \in Workers, r \in Rows :
          ApiStep(w) /\ member'[r] # member[r]
             => Exists(r) /\ member[r].org = req[w].org]_vars
=============================================================================
