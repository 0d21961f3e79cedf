------------------------------ MODULE Projects ------------------------------
(***************************************************************************)
(* Projects, the tenant-scoped resource.  A request resolves the active    *)
(* organization once, from the caller's membership, and then acts on what  *)
(* it has read: creation counts under the billing lock, update and delete  *)
(* write a row read before, in a statement of their own.                   *)
(***************************************************************************)
EXTENDS Roles, Integers, FiniteSets

CONSTANTS
    Users, Orgs, Workers,
    ProjectIds,      \* primary keys of projects, issued once
    Founder,         \* Founder[o]: who created organization o
    RolesUsed,       \* the roles memberships change to
    Plans, FreePlan, \* billing plans, and the one with code "free"
    ProjectLimit,    \* ProjectLimit[plan]: max_projects, or Unlimited
    Unlimited,
    MaxChanges,      \* bound: how often memberships, plans and organizations change
    Unissued,        \* a project key that has never been used
    Deleted,         \* a project key whose row was deleted
    Nobody, Idle     \* no lock holder; a worker without a request

\* The columns of projects_project that the handlers never change are all that
\* matters here: a save writes them, the name and the description.
Project == [org : Orgs, creator : Users]
Caller  == [user : Users, org : Orgs, role : Role]

Job == [pc : {"resolved", "limit", "create"}, by : Caller]
         \cup [pc : {"count"}, by : Caller, limit : Nat]
         \cup [pc : {"write"}, by : Caller, project : ProjectIds, row : Project]

ASSUME ProjectsAssumption ==
    /\ IsFiniteSet(ProjectIds)
    /\ Founder \in [Orgs -> Users]
    /\ RolesUsed \subseteq Role \cup {NoRole}
    /\ FreePlan \in Plans
    /\ \A p \in Plans : ProjectLimit[p] \in Nat \/ ProjectLimit[p] = Unlimited
    /\ Unlimited \notin Nat
    /\ MaxChanges \in Nat
    /\ Unissued \notin Project /\ Deleted \notin Project \cup {Unissued}
    /\ Nobody \notin Workers /\ Idle \notin Job

VARIABLES
    live,     \* the organizations that exist
    role,     \* role[o][u]: the membership of u in o, NoRole without one
    project,  \* project[p]: the project table
    plan,     \* plan[o]: the plan of the subscription row
    holder,   \* holder[o]: the transaction that holds that row's lock
    job,      \* job[w]: the request worker w serves, and what it has read
    changes,  \* how many changes there have been
    revived,  \* auxiliary: projects that an update inserted again
    stale     \* auxiliary: workers whose caller's membership has changed

tables == <<live, role, project, plan>>
vars   == <<live, role, project, plan, holder, job, changes, revived, stale>>

TypeOK ==
    /\ live \subseteq Orgs
    /\ role \in [Orgs -> [Users -> Role \cup {NoRole}]]
    /\ project \in [ProjectIds -> Project \cup {Unissued, Deleted}]
    /\ plan \in [Orgs -> Plans]
    /\ holder \in [Orgs -> Workers \cup {Nobody}]
    /\ job \in [Workers -> Job \cup {Idle}]
    /\ changes \in 0..MaxChanges
    /\ revived \subseteq ProjectIds
    /\ stale \subseteq Workers

Init ==
    /\ live = Orgs
    /\ role = [o \in Orgs |-> [u \in Users |-> IF u = Founder[o] THEN "owner" ELSE NoRole]]
    /\ project = [p \in ProjectIds |-> Unissued]
    /\ plan = [o \in Orgs |-> FreePlan]
    /\ holder = [o \in Orgs |-> Nobody]
    /\ job = [w \in Workers |-> Idle]
    /\ changes = 0 /\ revived = {} /\ stale = {}

At(w, pc)   == job[w] # Idle /\ job[w].pc = pc
Exists(p)   == project[p] \notin {Unissued, Deleted}
ProjectsOf(o) == {p \in ProjectIds : Exists(p) /\ project[p].org = o}
Become(w, j)  == job' = [job EXCEPT ![w] = j]

\* A slip for the mutation runs: a refusal leaves its transaction open.
EndRequest_KeepsLock(w) ==
    /\ Become(w, Idle)
    /\ UNCHANGED holder
    /\ stale' = stale \ {w}

\* The request ends, and with it its transaction, by COMMIT or by ROLLBACK.
EndRequest(w) ==
    /\ Become(w, Idle)
    /\ holder' = [o \in Orgs |-> IF holder[o] = w THEN Nobody ELSE holder[o]]
    /\ stale' = stale \ {w}
-----------------------------------------------------------------------------
\* IsOrganizationMember: the header names an organization, the membership of
\* the user in it becomes request.membership.  Nothing reads it again.
Resolve(w, u, o) ==
    /\ job[w] = Idle
    /\ role[o][u] # NoRole
    /\ Become(w, [pc |-> "resolved", by |-> [user |-> u, org |-> o, role |-> role[o][u]]])
    /\ UNCHANGED <<tables, holder, changes, revived, stale>>
-----------------------------------------------------------------------------
(* POST /projects                                                          *)

\* A bound of the finite model: every creation in progress finds a fresh key.
KeysLeft == Cardinality({w \in Workers : \E pc \in {"limit", "count", "create"} : At(w, pc)})
              < Cardinality({p \in ProjectIds : project[p] = Unissued})

\* A slip for the mutation runs: the row is selected, not locked.
LockBilling_NoLock(w) ==
    /\ At(w, "resolved")
    /\ KeysLeft
    /\ Become(w, [pc |-> "limit", by |-> job[w].by])
    /\ UNCHANGED <<tables, holder, changes, revived, stale>>

\* lock_billing: nothing to lock when the organization is gone.
LockBilling(w) ==
    /\ At(w, "resolved")
    /\ KeysLeft
    /\ LET o == job[w].by.org IN
       IF o \in live
         THEN holder[o] = Nobody /\ holder' = [holder EXCEPT ![o] = w]
         ELSE UNCHANGED holder
    /\ Become(w, [pc |-> "limit", by |-> job[w].by])
    /\ UNCHANGED <<tables, changes, revived, stale>>

\* Plan.limit: the cap of the plan, None for unlimited; without a subscription
\* the default limits of Free.
CapOf(o) == ProjectLimit[IF o \in live THEN plan[o] ELSE FreePlan]

\* A slip for the mutation runs: an unlimited plan's cap is compared with.
ReadLimit_NoneCompared(w) ==
    /\ At(w, "limit")
    /\ Become(w, [pc |-> "count", by |-> job[w].by, limit |-> CapOf(job[w].by.org)])
    /\ UNCHANGED <<tables, holder, changes, revived, stale>>

\* An unlimited plan counts nothing.
ReadLimit(w) ==
    /\ At(w, "limit")
    /\ LET cap == CapOf(job[w].by.org) IN
       Become(w, IF cap = Unlimited THEN [pc |-> "create", by |-> job[w].by]
                 ELSE [pc |-> "count", by |-> job[w].by, limit |-> cap])
    /\ UNCHANGED <<tables, holder, changes, revived, stale>>

\* check_can_create_project: PlanLimitExceeded at the cap.
CountProjects(w) ==
    /\ At(w, "count")
    /\ \/ /\ Cardinality(ProjectsOf(job[w].by.org)) < job[w].limit
          /\ Become(w, [pc |-> "create", by |-> job[w].by])
          /\ UNCHANGED <<holder, stale>>
       \/ /\ Cardinality(ProjectsOf(job[w].by.org)) >= job[w].limit
          /\ EndRequest(w)
    /\ UNCHANGED <<tables, changes, revived>>

\* perform_create stamps the active organization and the caller; the foreign
\* key fails when the organization is gone.
CreateProject(w) ==
    /\ At(w, "create")
    /\ LET by == job[w].by IN
       \/ /\ by.org \in live
          /\ \E p \in ProjectIds :
                /\ project[p] = Unissued
                /\ project' = [project EXCEPT ![p] = [org |-> by.org, creator |-> by.user]]
       \/ /\ by.org \notin live
          /\ UNCHANGED project
    /\ EndRequest(w)
    /\ UNCHANGED <<live, role, plan, changes, revived>>
-----------------------------------------------------------------------------
(* PUT, PATCH and DELETE /projects/{pk}                                    *)

\* CanWriteProject: Owners and Admins, or the creator.
MayWrite(by, row) == by.role \in MANAGER_ROLES \/ row.creator = by.user

\* get_queryset: the projects of the active organization.
Visible(by, p) == p \in ProjectsOf(by.org)

\* A slip for the mutation runs: the object permission is not asked.
LoadProject_AnyMember(w, p) ==
    /\ At(w, "resolved")
    /\ Visible(job[w].by, p)
    /\ Become(w, [pc |-> "write", by |-> job[w].by, project |-> p, row |-> project[p]])
    /\ UNCHANGED <<tables, holder, changes, revived, stale>>

\* get_object: the row, 404 without one, and its permission, 403 without it.
LoadProject(w, p) ==
    /\ At(w, "resolved")
    /\ Visible(job[w].by, p)
    /\ \/ /\ MayWrite(job[w].by, project[p])
          /\ Become(w, [pc |-> "write", by |-> job[w].by, project |-> p, row |-> project[p]])
          /\ UNCHANGED <<holder, stale>>
       \/ /\ ~MayWrite(job[w].by, project[p])
          /\ EndRequest(w)
    /\ UNCHANGED <<tables, changes, revived>>

\* serializer.save(): an UPDATE of all fields; when it finds no row, Model.save
\* inserts one, which the foreign key refuses if the organization is gone.
SaveProject(w) ==
    /\ At(w, "write")
    /\ LET p == job[w].project IN
       \/ /\ Exists(p) \/ job[w].row.org \in live
          /\ project' = [project EXCEPT ![p] = job[w].row]
          /\ revived' = IF Exists(p) THEN revived ELSE revived \cup {p}
       \/ /\ ~Exists(p) /\ job[w].row.org \notin live
          /\ UNCHANGED <<project, revived>>
    /\ EndRequest(w)
    /\ UNCHANGED <<live, role, plan, changes>>

DeleteProject(w) ==
    /\ At(w, "write")
    /\ project' = [project EXCEPT ![job[w].project] = Deleted]
    /\ EndRequest(w)
    /\ UNCHANGED <<live, role, plan, changes, revived>>
-----------------------------------------------------------------------------
(* What changes under a request.                                           *)

Change == changes < MaxChanges /\ changes' = changes + 1

\* A membership begins, ends or changes its role (module Team says when).
ChangeRole(o, u, r) ==
    /\ Change
    /\ o \in live /\ role[o][u] # r
    /\ role' = [role EXCEPT ![o][u] = r]
    /\ stale' = stale \cup {w \in Workers :
                              job[w] # Idle /\ job[w].by.org = o /\ job[w].by.user = u}
    /\ UNCHANGED <<live, project, plan, holder, job, revived>>

\* A webhook saves the subscription: an UPDATE of the locked row.
ChangePlan(o, p) ==
    /\ Change
    /\ o \in live /\ holder[o] = Nobody
    /\ plan' = [plan EXCEPT ![o] = p]
    /\ UNCHANGED <<live, role, project, holder, job, revived, stale>>

\* The organization is deleted with everything that refers to it.
DestroyOrg(o) ==
    /\ Change
    /\ o \in live /\ holder[o] = Nobody
    /\ live' = live \ {o}
    /\ role' = [role EXCEPT ![o] = [u \in Users |-> NoRole]]
    /\ project' = [p \in ProjectIds |-> IF p \in ProjectsOf(o) THEN Deleted ELSE project[p]]
    /\ stale' = stale \cup {w \in Workers : job[w] # Idle /\ job[w].by.org = o}
    /\ UNCHANGED <<plan, holder, job, revived>>
-----------------------------------------------------------------------------
Statement(w) == \/ ReadLimit(w) \/ CountProjects(w) \/ CreateProject(w)
                \/ SaveProject(w) \/ DeleteProject(w)

Choose(w) == LockBilling(w) \/ \E p \in ProjectIds : LoadProject(w, p)

Next ==
    \/ \E w \in Workers, u \in Users, o \in Orgs : Resolve(w, u, o)
    \/ \E w \in Workers : Choose(w)
    \/ \E w \in Workers : Statement(w)
    \/ \E o \in Orgs, u \in Users, r \in RolesUsed : ChangeRole(o, u, r)
    \/ \E o \in Orgs, p \in Plans : ChangePlan(o, p)
    \/ \E o \in Orgs : DestroyOrg(o)

Spec == Init /\ [][Next]_vars

\* The database runs every statement it is given.
FairSpec == Spec /\ \A w \in Workers : WF_vars(Statement(w))
-----------------------------------------------------------------------------
\* "A user physically cannot act on an org they don't belong to"
\* (core/permissions.py), and projects are written by managers and creators
\* only: whoever changes a project, even as it changes under them, acts for its
\* organization and may do so by the membership resolved for the request; and
\* that is the one they have at that very moment, unless it changed meanwhile.
Authorized(w, row) ==
    LET by == job[w].by IN
    /\ row.org = by.org
    /\ by.role \in MANAGER_ROLES \/ row.creator = by.user
    /\ w \in stale \/ role[row.org][by.user] = by.role

WritersAuthorized ==
    [][\A w \in Workers, p \in ProjectIds :
          job[w] # Idle /\ job'[w] = Idle /\ project'[p] # project[p]
             => \A row \in {project[p], project'[p]} \cap Project :
                   Authorized(w, row)]_vars

\* "Two concurrent creates can't both pass a count check and exceed the cap"
\* (billing/limits.py): a creation leaves the organization within the plan in
\* force, not counting the projects that a stale update inserted again.
CreationWithinCap ==
    [][\A w \in Workers, o \in live :
          At(w, "create") /\ job'[w] = Idle /\ job[w].by.org = o
             => \/ CapOf(o) = Unlimited
                \/ Cardinality(ProjectsOf(o)' \ revived) <= CapOf(o)]_vars

\* Whoever holds the billing row gives it back.
LockReturned == \A o \in Orgs : holder[o] # Nobody ~> holder[o] = Nobody
=============================================================================
