------------------------------- MODULE Seats -------------------------------
(***************************************************************************)
(* The seats of one organization: its members, its invitations, and the    *)
(* plan that caps both.  Creating an invitation is one transaction of      *)
(* several statements, begun by locking the subscription row; READ         *)
(* COMMITTED shows every statement what other transactions committed       *)
(* before it.  Everything the endpoint reads is filtered by organization,  *)
(* so one organization is enough.                                          *)
(***************************************************************************)
EXTENDS Roles, Integers, FiniteSets

CONSTANTS
    People,          \* e-mail addresses, and the accounts that own them
    Founder,         \* who created the organization
    Invitations,     \* primary keys of invitations, issued once
    Workers,         \* request workers
    InvitedRoles,    \* the roles invitations are made at
    Plans,           \* billing plans
    FreePlan,        \* the plan with code "free"
    SeatLimit,       \* SeatLimit[plan]: max_members, or Unlimited
    Unlimited,
    InitialPlan,     \* the subscription the organization was created with
    NoSubscription,  \* the organization has no subscription row
    Endpoints,       \* the other operations the environment uses
    Unissued,        \* an invitation key that has never been used
    Gone,            \* an invitation key whose row was deleted
    Nobody           \* no lock holder, no request

Status == {"pending", "accepted", "revoked", "expired"}

\* A row of organizations_invitation.
Invitation == [email : People, role : InvitedRoles, status : Status]

\* The payload of POST .../invitations/.
Request == [email : People, role : InvitedRoles]

\* The API's own operations, and those of the admin that bypass the lock.
ApiEndpoints == {"accept", "remove", "plan", "destroy"}
AllEndpoints == ApiEndpoints \cup {"adminInvitation", "adminSubscription"}

ASSUME PeopleAssumption == Founder \in People /\ IsFiniteSet(People)

ASSUME PlanAssumption ==
    /\ FreePlan \in Plans
    /\ NoSubscription \notin Plans
    /\ InitialPlan \in {FreePlan, NoSubscription}
    /\ \A p \in Plans : SeatLimit[p] \in Nat \/ SeatLimit[p] = Unlimited

ASSUME InvitationAssumption ==
    /\ InvitedRoles \subseteq Role
    /\ IsFiniteSet(Invitations)
    /\ Unissued \notin Invitation
    /\ Gone \notin Invitation \cup {Unissued}

ASSUME WorkerAssumption == Nobody \notin Workers \cup Request

ASSUME EndpointsAssumption == Endpoints \subseteq AllEndpoints

VARIABLES
    live,        \* the organization exists
    role,        \* role[p]: the membership of p, NoRole without one
    invitation,  \* invitation[i]: the invitation table
    overdue,     \* invitations whose expires_at has passed
    plan,        \* the plan of the subscription row
    holder,      \* the transaction that holds the subscription row's lock
    pc,          \* pc[w]: the statement worker w runs next
    req,         \* req[w]: the invitation it was asked for
    limit,       \* limit[w]: the cap it read
    counted      \* counted[w]: the members it counted

tables == <<live, role, invitation, overdue, plan>>
locals == <<pc, req, limit, counted>>
vars   == <<live, role, invitation, overdue, plan, holder, pc, req, limit, counted>>

Statements == {"member", "dedupe", "limit", "members", "pending", "create"}

TypeOK ==
    /\ live \in BOOLEAN
    /\ role \in [People -> Role \cup {NoRole}]
    /\ invitation \in [Invitations -> Invitation \cup {Unissued, Gone}]
    /\ overdue \subseteq Invitations
    /\ plan \in Plans \cup {NoSubscription}
    /\ holder \in Workers \cup {Nobody}
    /\ pc \in [Workers -> {"idle", "lock"} \cup Statements]
    /\ req \in [Workers -> Request \cup {Nobody}]
    /\ limit \in [Workers -> Nat \cup {Unlimited}]
    /\ counted \in [Workers -> Nat]
-----------------------------------------------------------------------------
\* Queries.
Exists(i)   == invitation[i] \notin {Unissued, Gone}
Members     == {p \in People : role[p] # NoRole}
Pending     == {i \in Invitations : Exists(i) /\ invitation[i].status = "pending"}
PendingFor(e) == {i \in Pending : invitation[i].email = e}

\* What check_can_invite_member counts: members and outstanding invitations.
Seats == Cardinality(Members) + Cardinality(Pending)

\* _limit(organization, "max_members"): the plan's cap, or Free's default.
CapOf(p)   == IF p = NoSubscription THEN SeatLimit[FreePlan] ELSE SeatLimit[p]
Within(n, cap) == cap = Unlimited \/ n <= cap

Init ==
    /\ live = TRUE
    /\ role = [p \in People |-> IF p = Founder THEN "owner" ELSE NoRole]
    /\ invitation = [i \in Invitations |-> Unissued]
    /\ overdue = {}
    /\ plan = InitialPlan
    /\ holder = Nobody
    /\ pc = [w \in Workers |-> "idle"]
    /\ req = [w \in Workers |-> Nobody]
    /\ limit = [w \in Workers |-> 0]
    /\ counted = [w \in Workers |-> 0]

\* Nobody holds the subscription row, or there is none to hold: what a
\* statement that locks, updates or deletes the row waits for.
RowFree == holder = Nobody

Goto(w, statement) ==
    /\ pc' = [pc EXCEPT ![w] = statement]
    /\ UNCHANGED <<tables, holder, req>>

\* A slip for the mutation runs: a refusal leaves its transaction open.
EndTransaction_KeepsLock(w) ==
    /\ pc' = [pc EXCEPT ![w] = "idle"]
    /\ req' = [req EXCEPT ![w] = Nobody]
    /\ limit' = [limit EXCEPT ![w] = 0]
    /\ counted' = [counted EXCEPT ![w] = 0]
    /\ UNCHANGED holder

\* The transaction ends, by COMMIT or by the ROLLBACK of an exception, and the
\* response is sent.
EndTransaction(w) ==
    /\ pc' = [pc EXCEPT ![w] = "idle"]
    /\ req' = [req EXCEPT ![w] = Nobody]
    /\ limit' = [limit EXCEPT ![w] = 0]
    /\ counted' = [counted EXCEPT ![w] = 0]
    /\ holder' = IF holder = w THEN Nobody ELSE holder
-----------------------------------------------------------------------------
(* POST /organizations/{pk}/invitations                                    *)

\* A bound of the finite model: every request in progress finds a fresh key.
KeysLeft == Cardinality({w \in Workers : pc[w] # "idle"})
              < Cardinality({i \in Invitations : invitation[i] = Unissued})

\* The caller's role is read with the organization and checked before the
\* transaction begins; nothing looks at it again.
StartInvite(w, q) ==
    /\ pc[w] = "idle"
    /\ KeysLeft
    /\ live
    /\ \E a \in People : CanAssignRole(role[a], q.role)
    /\ pc' = [pc EXCEPT ![w] = "lock"]
    /\ req' = [req EXCEPT ![w] = q]
    /\ UNCHANGED <<tables, holder, limit, counted>>

\* A slip for the mutation runs: the row is selected, not locked.
LockBilling_NoLock(w) ==
    /\ pc[w] = "lock"
    /\ pc' = [pc EXCEPT ![w] = "member"]
    /\ UNCHANGED <<tables, holder, req, limit, counted>>

\* lock_billing: SELECT ... FOR UPDATE of the subscription row.  Without a row
\* it selects, and locks, nothing.
LockBilling(w) ==
    /\ pc[w] = "lock"
    /\ IF plan # NoSubscription
         THEN RowFree /\ holder' = w
         ELSE UNCHANGED holder
    /\ pc' = [pc EXCEPT ![w] = "member"]
    /\ UNCHANGED <<tables, req, limit, counted>>

\* A slip for the mutation runs: members are not looked up.
CheckMember_Absent(w) ==
    /\ pc[w] = "member"
    /\ Goto(w, "dedupe")
    /\ UNCHANGED <<limit, counted>>

\* "That user is already a member of this organization."
CheckMember(w) ==
    /\ pc[w] = "member"
    /\ \/ /\ req[w].email \notin Members
          /\ Goto(w, "dedupe")
          /\ UNCHANGED <<limit, counted>>
       \/ /\ req[w].email \in Members
          /\ EndTransaction(w)
          /\ UNCHANGED tables

\* "An invitation is already pending for that email."
CheckPending(w) ==
    /\ pc[w] = "dedupe"
    /\ \/ /\ PendingFor(req[w].email) = {}
          /\ Goto(w, "limit")
          /\ UNCHANGED <<limit, counted>>
       \/ /\ PendingFor(req[w].email) # {}
          /\ EndTransaction(w)
          /\ UNCHANGED tables

\* check_can_invite_member reads the cap; an unlimited plan counts nothing.
ReadLimit(w) ==
    /\ pc[w] = "limit"
    /\ limit' = [limit EXCEPT ![w] = CapOf(plan)]
    /\ Goto(w, IF CapOf(plan) = Unlimited THEN "create" ELSE "members")
    /\ UNCHANGED counted

\* A slip for the mutation runs: counts the members over the cap.
CountMembers_OverCap(w) ==
    /\ pc[w] = "members"
    /\ counted' = [counted EXCEPT ![w] = Cardinality(Members) - limit[w]]
    /\ Goto(w, "pending")
    /\ UNCHANGED limit

\* members = organization.memberships.count()
CountMembers(w) ==
    /\ pc[w] = "members"
    /\ counted' = [counted EXCEPT ![w] = Cardinality(Members)]
    /\ Goto(w, "pending")
    /\ UNCHANGED limit

\* A slip for the mutation runs: a full organization invites one more.
CountPending_OffByOne(w) ==
    /\ pc[w] = "pending"
    /\ \/ /\ counted[w] + Cardinality(Pending) <= limit[w]
          /\ Goto(w, "create")
          /\ UNCHANGED <<limit, counted>>
       \/ /\ counted[w] + Cardinality(Pending) > limit[w]
          /\ EndTransaction(w)
          /\ UNCHANGED tables

\* pending = organization.invitations.filter(status=PENDING).count(), a second
\* statement, and the comparison of their sum with the cap.
CountPending(w) ==
    /\ pc[w] = "pending"
    /\ \/ /\ counted[w] + Cardinality(Pending) < limit[w]
          /\ Goto(w, "create")
          /\ UNCHANGED <<limit, counted>>
       \/ /\ counted[w] + Cardinality(Pending) >= limit[w]
          /\ EndTransaction(w)
          /\ UNCHANGED tables

\* Invitation.objects.create and the COMMIT.  The foreign key fails when the
\* organization is gone.
CreateInvitation(w) ==
    /\ pc[w] = "create"
    /\ \/ /\ live
          /\ \E i \in Invitations :
                /\ invitation[i] = Unissued
                /\ invitation' = [invitation EXCEPT
                     ![i] = [email |-> req[w].email, role |-> req[w].role,
                             status |-> "pending"]]
          /\ UNCHANGED <<live, role, overdue, plan>>
       \/ /\ ~live
          /\ UNCHANGED tables
    /\ EndTransaction(w)
-----------------------------------------------------------------------------
(* POST /invitations/accept, one transaction that locks the invitation     *)
(* and the organization it joins: no other writer of either comes between  *)
(* its statements.                                                         *)

\* A slip for the mutation runs: a used invitation is accepted again.
Accept_AnyStatus(i) ==
    /\ "accept" \in Endpoints
    /\ Exists(i) /\ i \notin overdue
    /\ LET p == invitation[i].email IN
       role' = IF role[p] = NoRole
                 THEN [role EXCEPT ![p] = invitation[i].role]
                 ELSE role
    /\ invitation' = [invitation EXCEPT ![i].status = "accepted"]
    /\ UNCHANGED <<live, overdue, plan, holder, locals>>

\* The invitee, signed in, joins with the invited role; an existing membership
\* is kept as it is.
Accept(i) ==
    /\ "accept" \in Endpoints
    /\ i \in Pending \ overdue
    /\ LET p == invitation[i].email IN
       role' = IF role[p] = NoRole
                 THEN [role EXCEPT ![p] = invitation[i].role]
                 ELSE role
    /\ invitation' = [invitation EXCEPT ![i].status = "accepted"]
    /\ UNCHANGED <<live, overdue, plan, holder, locals>>

\* An overdue invitation is only marked so when somebody presents its token.
AcceptExpired(i) ==
    /\ "accept" \in Endpoints
    /\ i \in Pending \cap overdue
    /\ invitation' = [invitation EXCEPT ![i].status = "expired"]
    /\ UNCHANGED <<live, role, overdue, plan, holder, locals>>

\* Time passes expires_at.
PassExpiry(i) ==
    /\ "accept" \in Endpoints
    /\ i \in Pending \ overdue
    /\ overdue' = overdue \cup {i}
    /\ UNCHANGED <<live, role, invitation, plan, holder, locals>>
-----------------------------------------------------------------------------
(* What else moves a seat or the cap.                                      *)

\* A membership ends, anybody's: the count of the Owners that comes before it,
\* unlocked and in statements of its own, is module Team's subject, and does not
\* keep the last of them.
RemoveMember(p) ==
    /\ "remove" \in Endpoints
    /\ p \in Members
    /\ role' = [role EXCEPT ![p] = NoRole]
    /\ UNCHANGED <<live, invitation, overdue, plan, holder, locals>>

\* A webhook or the admin saves the subscription: an UPDATE of the locked row.
ChangePlan(p) ==
    /\ "plan" \in Endpoints
    /\ plan # NoSubscription /\ RowFree
    /\ plan' = p
    /\ UNCHANGED <<live, role, invitation, overdue, holder, locals>>

\* The organization is deleted with everything that refers to it.
DestroyOrg ==
    /\ "destroy" \in Endpoints
    /\ live
    /\ plan # NoSubscription => RowFree
    /\ live' = FALSE
    /\ role' = [p \in People |-> NoRole]
    /\ invitation' = [i \in Invitations |-> IF Exists(i) THEN Gone
                                                         ELSE invitation[i]]
    /\ plan' = NoSubscription
    /\ UNCHANGED <<overdue, holder, locals>>

\* The admin's invitation page leaves the address, the role and the status
\* editable, in any direction.
AdminEditInvitation(i, row) ==
    /\ "adminInvitation" \in Endpoints
    /\ Exists(i)
    /\ invitation' = [invitation EXCEPT ![i] = row]
    /\ UNCHANGED <<live, role, overdue, plan, holder, locals>>

\* It leaves the organization editable, too: an invitation goes to another one,
\* or is deleted, ...
AdminLoseInvitation(i) ==
    /\ "adminInvitation" \in Endpoints
    /\ Exists(i)
    /\ invitation' = [invitation EXCEPT ![i] = Gone]
    /\ UNCHANGED <<live, role, overdue, plan, holder, locals>>

\* ... and one of another organization, with a key this one never saw, arrives.
AdminGainInvitation(i, row) ==
    /\ "adminInvitation" \in Endpoints
    /\ live
    /\ invitation[i] = Unissued /\ KeysLeft
    /\ invitation' = [invitation EXCEPT ![i] = row]
    /\ UNCHANGED <<live, role, overdue, plan, holder, locals>>

AdminInvitation(i) ==
    \/ \E row \in Invitation : AdminEditInvitation(i, row)
    \/ AdminLoseInvitation(i)
    \/ \E row \in Invitation : AdminGainInvitation(i, row)

\* The admin deletes the subscription row.
AdminDeleteSubscription ==
    /\ "adminSubscription" \in Endpoints
    /\ plan # NoSubscription /\ RowFree
    /\ plan' = NoSubscription
    /\ UNCHANGED <<live, role, invitation, overdue, holder, locals>>
-----------------------------------------------------------------------------
\* The statements of a transaction that has passed lock_billing.
Statement(w) ==
    \/ CheckMember(w)
    \/ CheckPending(w)
    \/ ReadLimit(w)
    \/ CountMembers(w)
    \/ CountPending(w)
    \/ CreateInvitation(w)

Next ==
    \/ \E w \in Workers, q \in Request : StartInvite(w, q)
    \/ \E w \in Workers : LockBilling(w)
    \/ \E w \in Workers : Statement(w)
    \/ \E i \in Invitations : Accept(i)
    \/ \E i \in Invitations : AcceptExpired(i)
    \/ \E i \in Invitations : PassExpiry(i)
    \/ \E p \in People : RemoveMember(p)
    \/ \E p \in Plans : ChangePlan(p)
    \/ DestroyOrg
    \/ \E i \in Invitations : AdminInvitation(i)
    \/ AdminDeleteSubscription

Spec == Init /\ [][Next]_vars

\* The database runs every statement it is given, and hands a row's lock to
\* those who wait for it in turn.
FairSpec == /\ Spec
            /\ \A w \in Workers : /\ WF_vars(Statement(w))
                                  /\ SF_vars(LockBilling(w))
-----------------------------------------------------------------------------
\* "Concurrent invites can't double-create" (organizations/views.py): an e-mail
\* address has at most one pending invitation.
OnePendingPerEmail == \A i, j \in Pending :
                         invitation[i].email = invitation[j].email => i = j

\* The inductive invariant behind it, for the API's operations on an
\* organization created with a subscription: a live organization has its row
\* to lock, whoever is in a transaction holds it, and whoever has found no
\* pending invitation for an address is still right.
Deduped(w) == pc[w] \in {"limit", "members", "pending", "create"}

LockedInv ==
    /\ TypeOK
    /\ \A w \in Workers : pc[w] # "idle" => req[w] \in Request
    /\ live => plan # NoSubscription
    /\ live => \A w \in Workers : pc[w] \in Statements => holder = w
    /\ live => \A w \in Workers : Deduped(w) => PendingFor(req[w].email) = {}
    /\ OnePendingPerEmail

\* Worker w commits a new invitation.
Creates(w) == pc[w] = "create" /\ Pending' # Pending /\ pc'[w] = "idle"

\* An invitation request never ends in limbo: its transaction commits or rolls
\* back and gives the billing row back, whatever it competes with.
InviteAnswered == \A w \in Workers : pc[w] # "idle" ~> pc[w] = "idle"

\* A joiner was invited: whoever becomes a member does so in the step that uses
\* up a pending, not overdue invitation to them, at its role.
MembershipNeedsInvitation ==
    [][\A p \in People :
          role[p] = NoRole /\ role'[p] # NoRole
             => \E i \in PendingFor(p) \ overdue :
                   /\ invitation[i].role = role'[p]
                   /\ i \notin Pending']_vars
=============================================================================
