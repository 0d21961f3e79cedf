---------------------------- MODULE SeatsProofs ----------------------------
(***************************************************************************)
(* Theorems of Seats, for every set of people, invitations and workers,    *)
(* every plan and every cap.                                               *)
(***************************************************************************)
EXTENDS SeatsHistory, SeatsRefinement, FiniteSetTheorems, TLAPS

\* What holds before a step of the API's operations, and the step.
LockedStep == /\ Endpoints \subseteq ApiEndpoints
              /\ LockedInv
              /\ [Next]_vars

\* The caps are what _limit may return.
LEMMA CapType == ASSUME TypeOK PROVE CapOf(plan) \in Nat \cup {Unlimited}
  BY PlanAssumption DEF TypeOK, CapOf

\* What staff do to an invitation.
LEMMA StaffMoves ==
    ASSUME NEW i \in Invitations, AdminInvitation(i)
    PROVE  /\ \E row \in Invitation \cup {Gone} :
                 invitation' = [invitation EXCEPT ![i] = row]
           /\ UNCHANGED <<live, role, overdue, plan, holder, locals>>
  BY DEF AdminInvitation, AdminEditInvitation, AdminLoseInvitation, AdminGainInvitation

\* Type correctness: every statement of the invitation request, every
\* acceptance and everything else that moves a seat keeps the tables and the
\* workers' locals of their types.
LEMMA TypeOKStep ==
    ASSUME TypeOK, \A w \in Workers : pc[w] # "idle" => req[w] \in Request,
           [Next]_vars
    PROVE  TypeOK' /\ \A w \in Workers : pc'[w] # "idle" => req'[w] \in Request
<1> DEFINE Inv == TypeOK /\ \A w \in Workers : pc[w] # "idle" => req[w] \in Request
<1> USE InvitationAssumption DEF Statements
<1>1. ASSUME NEW w \in Workers, NEW q \in Request, StartInvite(w, q)
      PROVE  Inv'
  BY <1>1 DEF StartInvite, TypeOK, tables
<1>2. ASSUME NEW w \in Workers, LockBilling(w)
      PROVE  Inv'
  BY <1>2 DEF LockBilling, TypeOK, tables
<1>3. ASSUME NEW w \in Workers, EndTransaction(w), UNCHANGED tables
      PROVE  Inv'
  BY <1>3 DEF EndTransaction, TypeOK, tables
<1>4. ASSUME NEW w \in Workers, NEW s \in Statements, pc[w] # "idle", Goto(w, s),
             limit' \in [Workers -> Nat \cup {Unlimited}],
             counted' \in [Workers -> Nat]
      PROVE  Inv'
  BY <1>4 DEF Goto, TypeOK, tables
<1>5. ASSUME NEW w \in Workers, CheckMember(w) \/ CheckPending(w) \/ CountPending(w)
      PROVE  Inv'
  BY <1>3, <1>4, <1>5 DEF CheckMember, CheckPending, CountPending, TypeOK
<1>6. ASSUME NEW w \in Workers, ReadLimit(w)
      PROVE  Inv'
  BY <1>4, <1>6, CapType DEF ReadLimit, TypeOK
<1>7. ASSUME NEW w \in Workers, CountMembers(w)
      PROVE  Inv'
  <2>1. Cardinality(Members) \in Nat
    BY PeopleAssumption, FS_Subset, FS_CardinalityType DEF Members
  <2> QED
    BY <1>4, <1>7, <2>1 DEF CountMembers, TypeOK
<1>8. ASSUME NEW w \in Workers, CreateInvitation(w)
      PROVE  Inv'
  <2>1. req[w] \in Request
    BY <1>8 DEF CreateInvitation
  <2>2. [email |-> req[w].email, role |-> req[w].role, status |-> "pending"]
          \in Invitation
    BY <2>1 DEF Request, Invitation, Status
  <2>3. EndTransaction(w)
    BY <1>8 DEF CreateInvitation
  <2>4. CASE live
    BY <1>8, <2>2, <2>3, <2>4 DEF CreateInvitation, EndTransaction, TypeOK, tables
  <2>5. CASE ~live
    BY <1>3, <1>8, <2>3, <2>5 DEF CreateInvitation
  <2> QED
    BY <2>4, <2>5
<1>9. ASSUME NEW i \in Invitations, Exists(i)
      PROVE  /\ invitation[i] \in Invitation
             /\ \A s \in Status : [invitation[i] EXCEPT !.status = s] \in Invitation
  BY <1>9 DEF Exists, TypeOK, Invitation
<1>10. ASSUME NEW i \in Invitations, NEW s \in Status, Exists(i),
              invitation' = [invitation EXCEPT ![i].status = s]
       PROVE  invitation' \in [Invitations -> Invitation \cup {Unissued, Gone}]
  BY <1>9, <1>10 DEF TypeOK
<1>11. ASSUME NEW i \in Invitations, Accept(i)
       PROVE  Inv'
  <2>1. Exists(i) /\ "accepted" \in Status
    BY <1>11 DEF Accept, Pending, Status
  <2>2. invitation[i].role \in Role
    BY <1>9, <2>1 DEF Invitation
  <2> QED
    BY <1>10, <1>11, <2>1, <2>2 DEF Accept, TypeOK, locals
<1>12. ASSUME NEW i \in Invitations, AcceptExpired(i)
       PROVE  Inv'
  <2>1. Exists(i) /\ "expired" \in Status
    BY <1>12 DEF AcceptExpired, Pending, Status
  <2> QED
    BY <1>10, <1>12, <2>1 DEF AcceptExpired, TypeOK, locals
<1>13. ASSUME NEW i \in Invitations, AdminInvitation(i)
       PROVE  Inv'
  BY <1>13, StaffMoves DEF TypeOK, locals
<1>14. ASSUME NEW i \in Invitations, PassExpiry(i)
       PROVE  Inv'
  BY <1>14 DEF PassExpiry, TypeOK, locals
<1>15. ASSUME NEW p \in People, RemoveMember(p)
       PROVE  Inv'
  BY <1>15 DEF RemoveMember, TypeOK, locals
<1>16. ASSUME NEW p \in Plans, ChangePlan(p)
       PROVE  Inv'
  BY <1>16 DEF ChangePlan, TypeOK, locals
<1>17. CASE DestroyOrg
  BY <1>17 DEF DestroyOrg, TypeOK, locals
<1>18. CASE AdminDeleteSubscription
  BY <1>18 DEF AdminDeleteSubscription, TypeOK, locals
<1>19. CASE UNCHANGED vars
  BY <1>19 DEF vars, TypeOK
<1> QED
  BY <1>1, <1>2, <1>5, <1>6, <1>7, <1>8, <1>11, <1>12, <1>13, <1>14, <1>15,
     <1>16, <1>17, <1>18, <1>19 DEF Next, Statement

\* The five parts of LockedInv after the types, one lemma each.
LEMMA LiveStep == LockedStep => (live' => plan' # NoSubscription)
<1> SUFFICES ASSUME LockedStep PROVE live' => plan' # NoSubscription
    OBVIOUS
<1> USE PlanAssumption DEF LockedStep, LockedInv
<1>1. ~AdminDeleteSubscription
  BY DEF AdminDeleteSubscription, ApiEndpoints
<1> QED
  BY <1>1
     DEF Next, Statement, StartInvite, LockBilling, CheckMember, CheckPending,
         ReadLimit, CountMembers, CountPending, CreateInvitation, Goto, Accept,
         AcceptExpired, PassExpiry, RemoveMember, ChangePlan, DestroyOrg,
         AdminInvitation, AdminEditInvitation, AdminLoseInvitation,
         AdminGainInvitation, tables, vars

\* A dead organization stays dead.
LEMMA StaysDead == LockedStep /\ live' => live
  BY DEF LockedStep, LockedInv, Next, Statement, StartInvite, LockBilling,
         CheckMember, CheckPending, ReadLimit, CountMembers, CountPending,
         CreateInvitation, Goto, Accept, AcceptExpired, PassExpiry, RemoveMember,
         ChangePlan, DestroyOrg, AdminInvitation, AdminEditInvitation,
         AdminLoseInvitation, AdminGainInvitation, AdminDeleteSubscription, tables,
         vars

\* What a step does to the transactions of a live organization: one of them is
\* begun, with a lock that nobody holds; or one that holds the lock goes on or
\* ends; or all stay where they are.
LEMMA TransactionSteps ==
    ASSUME LockedStep, live'
    PROVE  \/ \E w \in Workers : pc[w] = "idle" /\ pc' = [pc EXCEPT ![w] = "lock"]
                                 /\ holder' = holder
           \/ \E w \in Workers : /\ pc[w] = "lock" /\ pc' = [pc EXCEPT ![w] = "member"]
                                 /\ holder = Nobody /\ holder' = w
           \/ \E w \in Workers, s \in Statements :
                 /\ pc[w] \in Statements /\ holder = w
                 /\ pc' = [pc EXCEPT ![w] = s] /\ holder' = holder
           \/ \E w \in Workers : /\ pc[w] \in Statements /\ holder = w
                                 /\ pc' = [pc EXCEPT ![w] = "idle"]
           \/ UNCHANGED <<pc, holder>>
<1> USE StaysDead DEF LockedStep, LockedInv
<1>1. ASSUME NEW w \in Workers, LockBilling(w)
      PROVE  /\ pc[w] = "lock" /\ pc' = [pc EXCEPT ![w] = "member"]
             /\ holder = Nobody /\ holder' = w
  BY <1>1 DEF LockBilling, RowFree
<1>2. ASSUME NEW w \in Workers, Statement(w)
      PROVE  /\ pc[w] \in Statements /\ holder = w
             /\ \/ EndTransaction(w)
                \/ \E s \in Statements : Goto(w, s)
  BY <1>2 DEF Statement, CheckMember, CheckPending, ReadLimit, CountMembers,
              CountPending, CreateInvitation, Statements
<1>3. ASSUME NEW w \in Workers, NEW q \in Request, StartInvite(w, q)
      PROVE  /\ pc[w] = "idle" /\ pc' = [pc EXCEPT ![w] = "lock"]
             /\ holder' = holder
  BY <1>3 DEF StartInvite
<1> QED
  BY <1>1, <1>2, <1>3
     DEF Next, Goto, EndTransaction, Accept, AcceptExpired, PassExpiry, RemoveMember,
         ChangePlan, DestroyOrg, AdminInvitation, AdminEditInvitation,
         AdminLoseInvitation, AdminGainInvitation, AdminDeleteSubscription, locals,
         vars

\* The billing row's lock is held by whoever is in a transaction.
LEMMA HolderStep ==
    LockedStep => (live' => \A w \in Workers : pc'[w] \in Statements => holder' = w)
<1> SUFFICES ASSUME LockedStep, live', NEW v \in Workers, pc'[v] \in Statements
             PROVE  holder' = v
    OBVIOUS
<1> USE StaysDead, WorkerAssumption DEF LockedStep, LockedInv, TypeOK, Statements
<1> QED
  BY TransactionSteps

\* Pending invitations only come from CreateInvitation.
LEMMA PendingGrows ==
    ASSUME LockedStep, NEW i \in Pending', i \notin Pending
    PROVE  \E w \in Workers :
              /\ pc[w] = "create" /\ pc'[w] = "idle" /\ live
              /\ invitation[i] = Unissued
              /\ invitation' = [invitation EXCEPT
                   ![i] = [email |-> req[w].email, role |-> req[w].role,
                           status |-> "pending"]]
<1> USE DEF LockedStep, LockedInv
<1>1. i \in Invitations /\ invitation'[i] # Unissued /\ invitation'[i] # Gone
         /\ invitation'[i].status = "pending" /\ invitation'[i] # invitation[i]
  BY DEF Pending, Exists
<1>2. ASSUME NEW w \in Workers, CreateInvitation(w)
      PROVE  /\ pc[w] = "create" /\ pc'[w] = "idle" /\ live
             /\ invitation[i] = Unissued
             /\ invitation' = [invitation EXCEPT
                   ![i] = [email |-> req[w].email, role |-> req[w].role,
                           status |-> "pending"]]
  <2>1. live
    BY <1>1, <1>2 DEF CreateInvitation, tables
  <2>2. PICK j \in Invitations :
          /\ invitation[j] = Unissued
          /\ invitation' = [invitation EXCEPT
                   ![j] = [email |-> req[w].email, role |-> req[w].role,
                           status |-> "pending"]]
    BY <1>2, <2>1 DEF CreateInvitation
  <2>3. i = j
    BY <1>1, <2>2 DEF TypeOK
  <2> QED
    BY <1>2, <2>1, <2>2, <2>3 DEF CreateInvitation, EndTransaction, TypeOK
<1>3. ASSUME NEW j \in Invitations, Accept(j)
      PROVE  FALSE
  <2>1. i = j
    BY <1>1, <1>3 DEF Accept, TypeOK
  <2> QED
    BY <1>3, <2>1 DEF Accept
<1>4. ASSUME NEW j \in Invitations, AcceptExpired(j)
      PROVE  FALSE
  <2>1. i = j
    BY <1>1, <1>4 DEF AcceptExpired, TypeOK
  <2> QED
    BY <1>4, <2>1 DEF AcceptExpired
<1>5. ASSUME NEW j \in Invitations PROVE ~AdminInvitation(j)
  BY DEF AdminInvitation, AdminEditInvitation, AdminLoseInvitation,
         AdminGainInvitation, ApiEndpoints
<1>6. ~DestroyOrg
  BY <1>1 DEF DestroyOrg
<1>7. invitation' # invitation
  BY <1>1
<1> QED
  BY <1>2, <1>3, <1>4, <1>5, <1>6, <1>7
     DEF Next, Statement, StartInvite, LockBilling, CheckMember, CheckPending,
         ReadLimit, CountMembers, CountPending, Goto, PassExpiry, RemoveMember,
         ChangePlan, AdminDeleteSubscription, tables, vars

\* An invitation keeps the address it was made for.
LEMMA EmailKept ==
    ASSUME LockedStep, NEW i \in Pending, i \in Pending'
    PROVE  invitation'[i].email = invitation[i].email
<1> USE DEF LockedStep, LockedInv
<1>1. i \in Invitations /\ Exists(i) /\ invitation'[i] # Gone
         /\ invitation[i] \in Invitation
  BY DEF Pending, Exists, TypeOK
<1>2. ASSUME NEW w \in Workers, CreateInvitation(w)
      PROVE  invitation'[i] = invitation[i]
  BY <1>1, <1>2 DEF CreateInvitation, tables, Exists, TypeOK
<1>3. ASSUME NEW j \in Invitations, Accept(j)
      PROVE  invitation'[i].email = invitation[i].email
  BY <1>1, <1>3 DEF Accept, TypeOK, Invitation
<1>4. ASSUME NEW j \in Invitations, AcceptExpired(j)
      PROVE  invitation'[i].email = invitation[i].email
  BY <1>1, <1>4 DEF AcceptExpired, TypeOK, Invitation
<1>5. ASSUME NEW j \in Invitations PROVE ~AdminInvitation(j)
  BY DEF AdminInvitation, AdminEditInvitation, AdminLoseInvitation,
         AdminGainInvitation, ApiEndpoints
<1>6. ~DestroyOrg
  BY <1>1 DEF DestroyOrg
<1> QED
  BY <1>2, <1>3, <1>4, <1>5, <1>6
     DEF Next, Statement, StartInvite, LockBilling, CheckMember, CheckPending,
         ReadLimit, CountMembers, CountPending, Goto, PassExpiry, RemoveMember,
         ChangePlan, AdminDeleteSubscription, tables, vars

\* Who has found no pending invitation is still right: nobody else can create
\* one before the lock is given back.
LEMMA DedupedStep ==
    LockedStep =>
       (live' => \A w \in Workers : Deduped(w)' => PendingFor(req[w].email)' = {})
<1> SUFFICES ASSUME LockedStep, live', NEW w \in Workers, Deduped(w)',
                    NEW i \in Pending', (invitation[i].email = req[w].email)'
             PROVE  FALSE
    BY DEF PendingFor
<1> USE DEF LockedStep, LockedInv
<1>1. live
  BY StaysDead
\* Everybody past the dedupe was there before, or saw no pending invitation in
\* this very step.
<1>2. /\ req'[w] = req[w]
      /\ PendingFor(req[w].email) = {}
      /\ pc[w] \in Statements
  <2>1. ASSUME NEW v \in Workers, CheckPending(v), v = w
        PROVE  /\ req'[w] = req[w] /\ PendingFor(req[w].email) = {}
               /\ pc[w] \in Statements
    BY <2>1 DEF CheckPending, EndTransaction, Goto, Deduped, TypeOK, Statements
  <2>2. Deduped(w) => PendingFor(req[w].email) = {} /\ pc[w] \in Statements
    BY <1>1 DEF Deduped, Statements
  <2>3. \/ Deduped(w) /\ req'[w] = req[w]
        \/ \E v \in Workers : CheckPending(v) /\ v = w
    BY <1>1
       DEF Next, Statement, StartInvite, LockBilling, CheckMember, CheckPending,
           ReadLimit, CountMembers, CountPending, CreateInvitation, Goto,
           EndTransaction, Accept, AcceptExpired, PassExpiry, RemoveMember,
           ChangePlan, DestroyOrg, AdminInvitation, AdminEditInvitation,
           AdminLoseInvitation, AdminGainInvitation, AdminDeleteSubscription, tables,
           locals, vars, Deduped, TypeOK
  <2> QED
    BY <2>1, <2>2, <2>3
<1>3. CASE i \in Pending
  BY <1>2, <1>3, EmailKept DEF PendingFor
<1>4. CASE i \notin Pending
  <2>1. PICK v \in Workers : pc[v] = "create" /\ pc'[v] = "idle"
    BY <1>4, PendingGrows
  <2>2. v = w
    BY <1>1, <1>2, <2>1 DEF Statements
  <2> QED
    BY <2>1, <2>2 DEF Deduped
<1> QED
  BY <1>3, <1>4

\* A created invitation is the only pending one for its address.
LEMMA OnePendingStep == LockedStep => OnePendingPerEmail'
<1> SUFFICES ASSUME LockedStep, NEW i \in Pending', NEW j \in Pending',
                    (invitation[i].email = invitation[j].email)', i # j
             PROVE  FALSE
    BY DEF OnePendingPerEmail
<1> USE DEF LockedStep, LockedInv
<1>1. ASSUME NEW a \in Pending', NEW b \in Pending', a # b, a \notin Pending,
             (invitation[a].email = invitation[b].email)'
      PROVE  FALSE
  <2>1. PICK w \in Workers :
          /\ pc[w] = "create" /\ live
          /\ invitation' = [invitation EXCEPT
                   ![a] = [email |-> req[w].email, role |-> req[w].role,
                           status |-> "pending"]]
    BY <1>1, PendingGrows
  <2>2. a \in Invitations /\ b \in Invitations
    BY DEF Pending
  <2>3. invitation'[a].email = req[w].email /\ invitation'[b] = invitation[b]
    BY <1>1, <2>1, <2>2 DEF TypeOK
  <2>4. b \in PendingFor(req[w].email)
    BY <1>1, <2>3 DEF PendingFor, Pending, Exists
  <2> QED
    BY <2>1, <2>4 DEF Deduped
<1>2. CASE i \in Pending /\ j \in Pending
  BY <1>2, EmailKept DEF OnePendingPerEmail
<1> QED
  BY <1>1, <1>2
-----------------------------------------------------------------------------
\* LockedInv is inductive for the API's operations.
LEMMA LockedInit == Init /\ InitialPlan = FreePlan => LockedInv
  BY PeopleAssumption, PlanAssumption, InvitationAssumption, WorkerAssumption
     DEF Init, LockedInv, TypeOK, OnePendingPerEmail, Pending, Exists, Deduped,
         Statements, Role, NoRole

LEMMA LockedInvStep == LockedStep => LockedInv'
<1> SUFFICES ASSUME LockedStep PROVE LockedInv'
    OBVIOUS
<1>1. TypeOK' /\ \A w \in Workers : pc'[w] # "idle" => req'[w] \in Request
  BY TypeOKStep DEF LockedStep, LockedInv
<1> QED
  BY <1>1, LiveStep, HolderStep, DedupedStep, OnePendingStep DEF LockedInv

\* LockedInv is inductive over the API's operations: whoever is between the
\* select_for_update of create() (organizations/views.py) and its commit holds
\* the billing row, and whoever passed the duplicate check under it is still
\* right when the invitation is inserted.
THEOREM LockedInvariant ==
    ASSUME Endpoints \subseteq ApiEndpoints, InitialPlan = FreePlan
    PROVE  Spec => []LockedInv
<1>1. Init => LockedInv
  BY LockedInit
<1>2. LockedInv /\ [Next]_vars => LockedInv'
  BY LockedInvStep DEF LockedStep
<1> QED
  BY <1>1, <1>2, PTL DEF Spec

\* "Concurrent invites can't double-create" (organizations/views.py): as long as
\* the organization has a subscription row to lock, no e-mail address ever has
\* two pending invitations, however many workers serve the requests.
THEOREM OnePendingTheorem ==
    ASSUME Endpoints \subseteq ApiEndpoints, InitialPlan = FreePlan
    PROVE  Spec => []OnePendingPerEmail
<1>1. LockedInv => OnePendingPerEmail
  BY DEF LockedInv
<1> QED
  BY <1>1, LockedInvariant, PTL

\* Type correctness with every operation in use, the admin's included.
THEOREM SeatsTypeCorrect == Spec => []TypeOK
<1> DEFINE Inv == TypeOK /\ \A w \in Workers : pc[w] # "idle" => req[w] \in Request
<1>1. Init => Inv
  BY PeopleAssumption, PlanAssumption, InvitationAssumption
     DEF Init, TypeOK, Role, NoRole
<1>2. Inv /\ [Next]_vars => Inv'
  BY TypeOKStep
<1>3. Inv => TypeOK
  OBVIOUS
<1> QED
  BY <1>1, <1>2, <1>3, PTL DEF Spec
-----------------------------------------------------------------------------
(* Who joins, and who is invited.                                          *)

\* accept_invitation (organizations/views.py): with every operation in use, the
\* admin's included, nobody becomes a member but by an invitation to them.
THEOREM JoinersTheorem == Spec => MembershipNeedsInvitation
<1>1. ASSUME TypeOK, Next, NEW p \in People, role[p] = NoRole, role'[p] # NoRole
      PROVE  \E i \in PendingFor(p) \ overdue :
                invitation[i].role = role'[p] /\ i \notin Pending'
  <2>1. ASSUME NEW i \in Invitations, Accept(i)
        PROVE  /\ i \in PendingFor(p) \ overdue
               /\ invitation[i].role = role'[p] /\ i \notin Pending'
    <3>1. i \in Pending \ overdue /\ invitation[i] \in Invitation
      BY <1>1, <2>1 DEF Accept, Pending, Exists, TypeOK
    <3>2. invitation[i].email = p /\ role'[p] = invitation[i].role
      BY <1>1, <2>1, <3>1 DEF Accept, TypeOK
    <3>3. invitation'[i].status = "accepted"
      BY <1>1, <2>1, <3>1 DEF Accept, TypeOK, Invitation
    <3> QED
      BY <3>1, <3>2, <3>3 DEF PendingFor, Pending
  <2>2. ASSUME NEW q \in People, RemoveMember(q)
        PROVE  FALSE
    BY <1>1, <2>2 DEF RemoveMember, TypeOK
  <2>3. ~DestroyOrg
    BY <1>1 DEF DestroyOrg
  <2> QED
    BY <1>1, <2>1, <2>2, <2>3
       DEF Next, Statement, StartInvite, LockBilling, CheckMember, CheckPending,
           ReadLimit, CountMembers, CountPending, CreateInvitation, Goto,
           AcceptExpired, PassExpiry, ChangePlan, AdminInvitation,
           AdminEditInvitation, AdminLoseInvitation, AdminGainInvitation,
           AdminDeleteSubscription, tables
<1>2. TypeOK /\ [Next]_vars
        => [\A p \in People :
              role[p] = NoRole /\ role'[p] # NoRole
                 => \E i \in PendingFor(p) \ overdue :
                       /\ invitation[i].role = role'[p]
                       /\ i \notin Pending']_vars
  BY <1>1
<1> QED
  BY <1>2, SeatsTypeCorrect, PTL DEF Spec, MembershipNeedsInvitation

\* Worker w has looked for the invitee among the members.
Looked(w) == pc[w] \in Statements \ {"member"}

\* An invitee found to be no member is one now only by having joined since.
JoinedInv == \A w \in Workers :
                Looked(w) /\ req[w].email \in Members => req[w].email \in joined[w]

\* What a step does to what a request knows of its invitee.
LEMMA JoinedStep ==
    ASSUME TypeOK, JoinedInv, [HNext]_hvars
    PROVE  JoinedInv'
<1> USE DEF JoinedInv, Looked, Statements
<1>1. CASE UNCHANGED hvars
  BY <1>1 DEF hvars, vars, Members
<1>2. CASE HNext
  <2> SUFFICES ASSUME NEW w \in Workers, Looked(w)', (req[w].email \in Members)'
               PROVE  (req[w].email \in joined[w])'
      OBVIOUS
  <2>1. /\ req'[w] = req[w]
        /\ \/ Looked(w)
           \/ CheckMember(w) /\ req[w].email \notin Members /\ UNCHANGED Members
    <3>1. ASSUME NEW v \in Workers, CheckMember(v), v = w
          PROVE  /\ req'[w] = req[w]
                 /\ req[w].email \notin Members /\ UNCHANGED Members
      BY <3>1 DEF CheckMember, Goto, EndTransaction, Members, tables, TypeOK
    <3>2. \/ req'[w] = req[w] /\ Looked(w)
          \/ \E v \in Workers : CheckMember(v) /\ v = w
      BY <1>2
         DEF HNext, Next, Statement, StartInvite, LockBilling, CheckMember,
             CheckPending, ReadLimit, CountMembers, CountPending, CreateInvitation,
             Goto, EndTransaction, Accept, AcceptExpired, PassExpiry, RemoveMember,
             ChangePlan, DestroyOrg, AdminInvitation, AdminEditInvitation,
             AdminLoseInvitation, AdminGainInvitation, AdminDeleteSubscription,
             tables, locals, TypeOK
    <3> QED
      BY <3>1, <3>2
  <2>2. CASE Looked(w)
    <3>1. joined'[w] = joined[w] \cup (Members' \ Members)
      BY <1>2, <2>2 DEF HNext
    <3> QED
      BY <2>1, <2>2, <3>1
  <2> QED
    BY <2>1, <2>2
<1> QED
  BY <1>1, <1>2

\* "That user is already a member": with every operation in use, a member is
\* invited only if they joined while their invitation was being made.
THEOREM NewMembersTheorem == HSpec => OnlyNewMembersInvited
<1> DEFINE Typed == TypeOK /\ \A w \in Workers : pc[w] # "idle" => req[w] \in Request
<1>1. HInit => Typed /\ JoinedInv
  BY PeopleAssumption, PlanAssumption, InvitationAssumption
     DEF HInit, Init, TypeOK, Role, NoRole, JoinedInv, Looked, Statements
<1>2. Typed /\ [HNext]_hvars => Typed'
  BY TypeOKStep DEF HNext, hvars
<1>3. Typed /\ JoinedInv /\ [HNext]_hvars => JoinedInv'
  BY JoinedStep
<1>4. JoinedInv => \A w \in Workers :
                      Creates(w) /\ req[w].email \in Members => req[w].email \in joined[w]
  BY DEF JoinedInv, Looked, Statements, Creates
<1>5. JoinedInv /\ [HNext]_hvars
        => [\A w \in Workers :
              Creates(w) /\ req[w].email \in Members => req[w].email \in joined[w]]_hvars
  BY <1>4
<1> QED
  BY <1>1, <1>2, <1>3, <1>5, PTL DEF HSpec, OnlyNewMembersInvited
-----------------------------------------------------------------------------
(* The seat cap.                                                           *)

LEMMA SeatsFinite ==
    /\ IsFiniteSet(Members) /\ IsFiniteSet(Pending)
    /\ Cardinality(Members) \in Nat /\ Cardinality(Pending) \in Nat
    /\ IsFiniteSet(Members') /\ IsFiniteSet(Pending')
    /\ Cardinality(Members') \in Nat /\ Cardinality(Pending') \in Nat
    /\ IsFiniteSet(Members' \ Members) /\ Cardinality(Members' \ Members) \in Nat
<1>1. /\ Members \subseteq People /\ Members' \subseteq People
      /\ Members' \ Members \subseteq People
      /\ Pending \subseteq Invitations /\ Pending' \subseteq Invitations
  BY DEF Members, Pending
<1>2. /\ IsFiniteSet(Members) /\ IsFiniteSet(Members') /\ IsFiniteSet(Pending)
      /\ IsFiniteSet(Pending') /\ IsFiniteSet(Members' \ Members)
  BY <1>1, FS_Subset, PeopleAssumption, InvitationAssumption
<1> QED
  BY <1>2, FS_CardinalityType

\* The only seats a step adds are those of the people who join.
LEMMA SeatsMove ==
    ASSUME LockedStep, live',
           ~\E w \in Workers : CreateInvitation(w)
    PROVE  /\ Cardinality(Pending') <= Cardinality(Pending)
           /\ Cardinality(Members') <= Cardinality(Members) + Cardinality(Members' \ Members)
           /\ Seats' <= Seats
<1> USE DEF LockedStep, LockedInv
<1> USE SeatsFinite DEF Seats
<1>1. CASE Pending' \subseteq Pending /\ Members' \subseteq Members
  <2>1. Cardinality(Pending') <= Cardinality(Pending)
    BY <1>1, FS_Subset
  <2>2. Cardinality(Members') <= Cardinality(Members)
    BY <1>1, FS_Subset
  <2> QED
    BY <2>1, <2>2
<1>2. ASSUME NEW i \in Invitations, Accept(i)
      PROVE  /\ Cardinality(Pending') <= Cardinality(Pending)
             /\ Cardinality(Members') <= Cardinality(Members) + Cardinality(Members' \ Members)
             /\ Seats' <= Seats
  <2>1. i \in Pending /\ invitation[i] \in Invitation
    BY <1>2 DEF Accept, Pending, Exists, TypeOK
  <2> DEFINE p == invitation[i].email
  <2>2. Pending' \subseteq Pending \ {i}
    BY <1>2, <2>1 DEF Accept, Pending, Exists, TypeOK, Invitation
  <2>3. Cardinality(Pending') + 1 <= Cardinality(Pending)
    <3>1. Cardinality(Pending \ {i}) = Cardinality(Pending) - 1
      BY <2>1, FS_RemoveElement
    <3>2. IsFiniteSet(Pending \ {i})
      BY FS_RemoveElement
    <3>3. Cardinality(Pending') <= Cardinality(Pending \ {i})
      BY <2>2, <3>2, FS_Subset
    <3> QED
      BY <3>1, <3>3
  <2>4. CASE Members' \subseteq Members
    <3>1. Cardinality(Members') <= Cardinality(Members)
      BY <2>4, FS_Subset
    <3> QED
      BY <2>3, <3>1
  <2>5. CASE ~(Members' \subseteq Members)
    <3>1. Members' = Members \cup {p} /\ p \notin Members /\ Members' \ Members = {p}
      BY <1>2, <2>1, <2>5 DEF Accept, Members, TypeOK, Invitation
    <3>2. Cardinality(Members') = Cardinality(Members) + 1
      BY <3>1, FS_AddElement
    <3>3. Cardinality(Members' \ Members) = 1
      BY <3>1, FS_Singleton
    <3> QED
      BY <2>3, <3>2, <3>3
  <2> QED
    BY <2>4, <2>5
<1>3. ASSUME NEW i \in Invitations, AcceptExpired(i)
      PROVE  Pending' \subseteq Pending /\ Members' \subseteq Members
  BY <1>3 DEF AcceptExpired, Pending, Exists, Members, TypeOK, Invitation
<1>4. ASSUME NEW q \in People, RemoveMember(q)
      PROVE  Pending' \subseteq Pending /\ Members' \subseteq Members
  BY <1>4 DEF RemoveMember, Pending, Exists, Members, TypeOK
<1>5. ASSUME NEW i \in Invitations PROVE ~AdminInvitation(i)
  BY DEF AdminInvitation, AdminEditInvitation, AdminLoseInvitation,
         AdminGainInvitation, ApiEndpoints
<1>6. ~DestroyOrg
  BY DEF DestroyOrg
<1>7. \/ UNCHANGED <<role, invitation>>
      \/ \E i \in Invitations : Accept(i) \/ AcceptExpired(i)
      \/ \E q \in People : RemoveMember(q)
  BY <1>5, <1>6
     DEF Next, Statement, StartInvite, LockBilling, CheckMember, CheckPending, ReadLimit,
         CountMembers, CountPending, Goto, PassExpiry, ChangePlan,
         AdminDeleteSubscription, tables, vars
<1>8. CASE UNCHANGED <<role, invitation>>
  BY <1>1, <1>8 DEF Members, Pending, Exists
<1> QED
  BY <1>1, <1>2, <1>3, <1>4, <1>7, <1>8

\* A new invitation is one seat more.
LEMMA SeatsGrow ==
    ASSUME LockedStep, NEW w \in Workers, CreateInvitation(w)
    PROVE  Members' = Members /\ Seats' <= Seats + 1
<1>1. Members' = Members
  BY DEF CreateInvitation, Members, tables
<1>2. PICK i : Pending' \subseteq Pending \cup {i}
  BY DEF LockedStep, LockedInv, CreateInvitation, Pending, Exists, TypeOK, tables
<1>3. /\ IsFiniteSet(Pending \cup {i}) /\ Cardinality(Pending \cup {i}) \in Nat
      /\ Cardinality(Pending \cup {i}) <= Cardinality(Pending) + 1
  <2>1. IsFiniteSet(Pending) /\ Cardinality(Pending) \in Nat
    BY SeatsFinite
  <2>2. IsFiniteSet(Pending \cup {i})
    BY <2>1, FS_AddElement
  <2>3. Cardinality(Pending \cup {i}) <= Cardinality(Pending) + 1
    BY <2>1, FS_AddElement
  <2> QED
    BY <2>2, <2>3, FS_CardinalityType
<1>4. Cardinality(Pending') <= Cardinality(Pending \cup {i})
  BY <1>2, <1>3, FS_Subset
<1> QED
  BY <1>1, <1>3, <1>4, SeatsFinite DEF Seats

\* Under the lock what a request read of the cap stays true, and what it counted
\* is off by no more than the acceptances that slipped by.
SlackInv ==
    live => \A w \in Workers :
       /\ pc[w] \in {"members", "pending"} =>
             CapOf(plan) # Unlimited /\ limit[w] = CapOf(plan)
       /\ pc[w] = "pending" => Cardinality(Members) <= counted[w] + slipped[w]
       /\ pc[w] = "create" /\ CapOf(plan) # Unlimited => Seats < CapOf(plan) + slipped[w]

\* What a step under the lock does to the request that holds it.
LEMMA CountingMoves ==
    ASSUME LockedStep, live', NEW w \in Workers,
           pc'[w] \in {"members", "pending", "create"}
    PROVE  /\ plan' = plan
           /\ \/ /\ pc'[w] = pc[w] /\ limit'[w] = limit[w] /\ counted'[w] = counted[w]
                 /\ ~\E v \in Workers : CreateInvitation(v)
              \/ /\ pc[w] = "limit" /\ UNCHANGED <<role, invitation>>
                 /\ limit'[w] = CapOf(plan)
                 /\ pc'[w] = IF CapOf(plan) = Unlimited THEN "create" ELSE "members"
              \/ /\ pc[w] = "members" /\ pc'[w] = "pending" /\ limit'[w] = limit[w]
                 /\ UNCHANGED <<role, invitation>>
                 /\ counted'[w] = Cardinality(Members)
              \/ /\ pc[w] = "pending" /\ pc'[w] = "create"
                 /\ UNCHANGED <<role, invitation>>
                 /\ counted[w] + Cardinality(Pending) < limit[w]
<1> USE DEF LockedStep, LockedInv
<1>1. live
  BY StaysDead
<1>2. pc[w] \in Statements
  BY <1>1, TransactionSteps DEF TypeOK, Statements
<1>3. holder = w /\ plan # NoSubscription
  BY <1>1, <1>2
<1>4. plan' = plan
  <2>1. ~RowFree
    BY <1>3, WorkerAssumption DEF RowFree
  <2> QED
    BY <1>3, <2>1
       DEF Next, Statement, StartInvite, LockBilling, CheckMember, CheckPending,
           ReadLimit, CountMembers, CountPending, CreateInvitation, Goto, Accept,
           AcceptExpired, PassExpiry, RemoveMember, ChangePlan, DestroyOrg,
           AdminInvitation, AdminEditInvitation, AdminLoseInvitation,
           AdminGainInvitation, AdminDeleteSubscription, tables, vars
<1>5. ASSUME NEW v \in Workers, Statement(v)
      PROVE  v = w
  <2>1. pc[v] \in Statements
    BY <1>5 DEF Statement, CheckMember, CheckPending, ReadLimit, CountMembers,
                CountPending, CreateInvitation, Statements
  <2> QED
    BY <1>1, <1>3, <2>1
<1>6. CASE Statement(w)
  <2>1. ~CreateInvitation(w)
    BY DEF CreateInvitation, EndTransaction, TypeOK
  <2>2. ~CheckMember(w)
    BY DEF CheckMember, Goto, EndTransaction, TypeOK
  <2>3. ~CheckPending(w)
    BY DEF CheckPending, Goto, EndTransaction, TypeOK
  <2>4. CASE ReadLimit(w)
    BY <1>4, <2>4 DEF ReadLimit, Goto, tables, TypeOK
  <2>5. CASE CountMembers(w)
    BY <1>4, <2>5 DEF CountMembers, Goto, tables, TypeOK
  <2>6. CASE CountPending(w)
    BY <1>4, <2>6 DEF CountPending, Goto, EndTransaction, tables, TypeOK
  <2> QED
    BY <1>6, <2>1, <2>2, <2>3, <2>4, <2>5, <2>6 DEF Statement
<1>7. CASE ~\E v \in Workers : Statement(v)
  <2>1. ~\E v \in Workers : CreateInvitation(v)
    BY <1>7 DEF Statement
  <2>2. ASSUME NEW v \in Workers, NEW q \in Request, StartInvite(v, q)
        PROVE  pc'[w] = pc[w] /\ limit'[w] = limit[w] /\ counted'[w] = counted[w]
    BY <1>2, <2>2 DEF StartInvite, TypeOK, Statements
  <2>3. ASSUME NEW v \in Workers, LockBilling(v)
        PROVE  pc'[w] = pc[w] /\ limit'[w] = limit[w] /\ counted'[w] = counted[w]
    BY <1>2, <2>3 DEF LockBilling, TypeOK, Statements
  <2>4. pc'[w] = pc[w] /\ limit'[w] = limit[w] /\ counted'[w] = counted[w]
    BY <1>7, <2>2, <2>3
       DEF Next, Accept, AcceptExpired, PassExpiry, RemoveMember, ChangePlan,
           DestroyOrg, AdminInvitation, AdminEditInvitation, AdminLoseInvitation,
           AdminGainInvitation, AdminDeleteSubscription, locals, vars
  <2> QED
    BY <1>4, <2>1, <2>4
<1> QED
  BY <1>5, <1>6, <1>7

\* The history of an invitation request: nothing slips by but between its counts.
LEMMA SlipMoves ==
    ASSUME slipped \in [Workers -> Nat], HNext, NEW w \in Workers, pc'[w] # "idle"
    PROVE  /\ slipped' \in [Workers -> Nat]
           /\ slipped'[w] = IF pc[w] = "pending"
                              THEN slipped[w] + Cardinality(Members' \ Members)
                              ELSE slipped[w]
  BY SeatsFinite DEF HNext

LEMMA SlackStep ==
    ASSUME LockedStep, SlackInv, slipped \in [Workers -> Nat], [HNext]_hvars
    PROVE  SlackInv'
<1>1. CASE UNCHANGED hvars
  BY <1>1 DEF hvars, vars, SlackInv, CapOf, Seats, Members, Pending, Exists
<1>2. CASE HNext
  <2> SUFFICES ASSUME live', NEW w \in Workers,
                      pc'[w] \in {"members", "pending", "create"}
               PROVE  (/\ pc[w] \in {"members", "pending"} =>
                             CapOf(plan) # Unlimited /\ limit[w] = CapOf(plan)
                       /\ pc[w] = "pending" =>
                             Cardinality(Members) <= counted[w] + slipped[w]
                       /\ pc[w] = "create" /\ CapOf(plan) # Unlimited =>
                             Seats < CapOf(plan) + slipped[w])'
      BY DEF SlackInv
  <2>1. live
    BY StaysDead
  <2>2. CapOf(plan)' = CapOf(plan)
    BY CountingMoves DEF CapOf
  <2>3. /\ CapOf(plan) \in Nat \cup {Unlimited}
        /\ counted[w] \in Nat /\ slipped[w] \in Nat /\ slipped'[w] \in Nat
    BY <1>2, CapType, SlipMoves DEF LockedStep, LockedInv, TypeOK
  <2>4. /\ pc[w] \in {"members", "pending"} =>
              CapOf(plan) # Unlimited /\ limit[w] = CapOf(plan)
        /\ pc[w] = "pending" => Cardinality(Members) <= counted[w] + slipped[w]
        /\ pc[w] = "create" /\ CapOf(plan) # Unlimited => Seats < CapOf(plan) + slipped[w]
    BY <2>1 DEF SlackInv
  <2>5. /\ Cardinality(Members) \in Nat /\ Cardinality(Pending) \in Nat
        /\ Cardinality(Members') \in Nat /\ Cardinality(Pending') \in Nat
        /\ Cardinality(Members' \ Members) \in Nat
    BY SeatsFinite
  <2>6. CASE /\ pc'[w] = pc[w] /\ limit'[w] = limit[w] /\ counted'[w] = counted[w]
             /\ ~\E v \in Workers : CreateInvitation(v)
    <3>1. /\ Cardinality(Members') <= Cardinality(Members) + Cardinality(Members' \ Members)
          /\ Seats' <= Seats
      BY <2>6, SeatsMove
    <3>2. Seats \in Nat /\ Seats' \in Nat
      BY <2>5 DEF Seats
    <3>3. CASE pc[w] = "members"
      BY <2>2, <2>4, <2>6, <3>3
    <3>4. CASE pc[w] = "pending"
      <4>1. slipped'[w] = slipped[w] + Cardinality(Members' \ Members)
        BY <1>2, <2>6, <3>4, SlipMoves
      <4> QED
        BY <2>2, <2>3, <2>4, <2>5, <2>6, <3>1, <3>4, <4>1
    <3>5. CASE pc[w] = "create"
      <4>1. slipped'[w] = slipped[w]
        BY <1>2, <2>6, <3>5, SlipMoves
      <4> QED
        BY <2>2, <2>3, <2>4, <2>6, <3>1, <3>2, <3>5, <4>1
    <3> QED
      BY <2>6, <3>3, <3>4, <3>5
  <2>7. ASSUME UNCHANGED <<role, invitation>>
        PROVE  Members' = Members /\ Pending' = Pending
    BY <2>7 DEF Members, Pending, Exists
  <2>8. CASE /\ pc[w] = "limit" /\ UNCHANGED <<role, invitation>>
             /\ limit'[w] = CapOf(plan)
             /\ pc'[w] = IF CapOf(plan) = Unlimited THEN "create" ELSE "members"
    BY <2>2, <2>8
  <2>9. CASE /\ pc[w] = "members" /\ pc'[w] = "pending" /\ limit'[w] = limit[w]
             /\ UNCHANGED <<role, invitation>>
             /\ counted'[w] = Cardinality(Members)
    <3>1. Members' = Members
      BY <2>7, <2>9
    <3> QED
      BY <2>2, <2>3, <2>4, <2>5, <2>9, <3>1
  <2>10. CASE /\ pc[w] = "pending" /\ pc'[w] = "create"
              /\ UNCHANGED <<role, invitation>>
              /\ counted[w] + Cardinality(Pending) < limit[w]
    <3>1. Members' = Members /\ Pending' = Pending
      BY <2>7, <2>10
    <3>2. Seats' = Cardinality(Members) + Cardinality(Pending)
      BY <3>1 DEF Seats
    <3>3. slipped'[w] >= slipped[w]
      BY <1>2, <2>3, <2>5, <2>10, SlipMoves
    <3>4. limit[w] \in Nat /\ limit[w] = CapOf(plan)
      BY <2>3, <2>4, <2>10
    <3> QED
      BY <2>2, <2>3, <2>4, <2>5, <2>10, <3>2, <3>3, <3>4
  <2> QED
    BY <2>6, <2>8, <2>9, <2>10, CountingMoves
<1> QED
  BY <1>1, <1>2

\* check_can_invite_member under lock_billing (billing/limits.py): however many
\* requests compete, a new invitation exceeds the cap of the plan in force by no
\* more than the acceptances that commit between its two counts.
THEOREM SlackTheorem ==
    ASSUME Endpoints \subseteq ApiEndpoints, InitialPlan = FreePlan
    PROVE  HSpec => CapSlack
<1> DEFINE I == LockedInv /\ SlackInv /\ slipped \in [Workers -> Nat]
<1>1. HInit => I
  <2>1. HInit => LockedInv
    BY LockedInit DEF HInit
  <2>2. HInit => SlackInv /\ slipped \in [Workers -> Nat]
    BY DEF HInit, Init, SlackInv
  <2> QED
    BY <2>1, <2>2
<1>2. I /\ [HNext]_hvars => I'
  <2> SUFFICES ASSUME I, [HNext]_hvars PROVE I'
      OBVIOUS
  <2>1. LockedStep
    BY DEF LockedStep, HNext, hvars
  <2>2. slipped' \in [Workers -> Nat]
    <3>1. CASE UNCHANGED hvars
      BY <3>1 DEF hvars
    <3>2. CASE HNext
      BY <3>2, SeatsFinite DEF HNext
    <3> QED
      BY <3>1, <3>2
  <2> QED
    BY <2>1, <2>2, LockedInvStep, SlackStep
<1>3. ASSUME I, HNext, NEW w \in Workers, Creates(w), CapOf(plan) # Unlimited
      PROVE  Seats' <= CapOf(plan) + slipped[w]
  <2>1. LockedStep
    BY <1>3 DEF LockedStep, HNext
  <2>2. CreateInvitation(w)
    <3>1. ASSUME NEW v \in Workers, Statement(v)
          PROVE  v = w
      BY <1>3, <3>1
         DEF Statement, CheckMember, CheckPending, ReadLimit, CountMembers, CountPending,
             CreateInvitation, Goto, EndTransaction, Creates, LockedInv, TypeOK
    <3>2. \E v \in Workers : Statement(v)
      BY <1>3
         DEF HNext, Next, StartInvite, LockBilling, Accept, AcceptExpired,
             PassExpiry, RemoveMember, ChangePlan, DestroyOrg, AdminInvitation,
             AdminEditInvitation, AdminLoseInvitation, AdminGainInvitation,
             AdminDeleteSubscription, locals, Creates, LockedInv, TypeOK
    <3>3. Statement(w)
      BY <3>1, <3>2
    <3> QED
      BY <1>3, <3>3 DEF Statement, CheckMember, CheckPending, ReadLimit, CountMembers,
                        CountPending, Creates
  <2>3. live
    BY <1>3, <2>2 DEF CreateInvitation, Creates, Pending, Exists, tables
  <2>4. Seats < CapOf(plan) + slipped[w] /\ Seats' <= Seats + 1
    BY <1>3, <2>1, <2>2, <2>3, SeatsGrow DEF SlackInv, Creates
  <2>5. Seats \in Nat /\ Seats' \in Nat /\ CapOf(plan) \in Nat /\ slipped[w] \in Nat
    BY <1>3, SeatsFinite, CapType DEF Seats, LockedInv
  <2> QED
    BY <2>4, <2>5
<1>4. I /\ [HNext]_hvars
        => [\A w \in Workers :
              Creates(w) /\ CapOf(plan) # Unlimited
                 => Seats' <= CapOf(plan) + slipped[w]]_hvars
  BY <1>3
<1> QED
  BY <1>1, <1>2, <1>4, PTL DEF HSpec, CapSlack
-----------------------------------------------------------------------------
(* Invitations as Roster has them.                                         *)

\* Only an invitation that was made can be overdue.
OverdueInv == \A i \in overdue : invitation[i] # Unissued

LEMMA OverdueStep == TypeOK /\ OverdueInv /\ [Next]_vars => OverdueInv'
<1> SUFFICES ASSUME TypeOK, OverdueInv, [Next]_vars, NEW i \in overdue'
             PROVE  invitation'[i] # Unissued
    BY DEF OverdueInv
<1> USE InvitationAssumption DEF TypeOK
<1>1. i \in Invitations /\ (i \in overdue \/ Exists(i)) /\ invitation[i] # Unissued
  BY DEF OverdueInv, Next, Statement, StartInvite, LockBilling, CheckMember,
         CheckPending, ReadLimit, CountMembers, CountPending, CreateInvitation, Goto,
         Accept, AcceptExpired, PassExpiry, RemoveMember, ChangePlan, DestroyOrg,
         AdminInvitation, AdminEditInvitation, AdminLoseInvitation,
         AdminGainInvitation, AdminDeleteSubscription, Pending, Exists, tables, vars
<1>2. ASSUME NEW w \in Workers, CreateInvitation(w)
      PROVE  invitation'[i] # Unissued
  BY <1>1, <1>2 DEF CreateInvitation, tables
<1>3. ASSUME NEW j \in Invitations, NEW s \in Status, Exists(j),
             invitation' = [invitation EXCEPT ![j].status = s]
      PROVE  invitation'[i] # Unissued
  <2>1. [invitation[j] EXCEPT !.status = s] \in Invitation
    BY <1>3 DEF Exists, Invitation
  <2> QED
    BY <1>1, <1>3, <2>1
<1>4. CASE DestroyOrg
  BY <1>1, <1>4 DEF DestroyOrg, Exists
<1>5. ASSUME NEW j \in Invitations, Accept(j) \/ AcceptExpired(j)
      PROVE  invitation'[i] # Unissued
  BY <1>3, <1>5 DEF Accept, AcceptExpired, Pending, Status
<1>6. ASSUME NEW j \in Invitations, AdminInvitation(j)
      PROVE  invitation'[i] # Unissued
  BY <1>1, <1>6, StaffMoves
<1> QED
  BY <1>1, <1>2, <1>4, <1>5, <1>6
     DEF Next, Statement, StartInvite, LockBilling, CheckMember, CheckPending, ReadLimit,
         CountMembers, CountPending, Goto, PassExpiry, RemoveMember, ChangePlan,
         AdminDeleteSubscription, tables, vars

\* The invitation of an address is the one that is pending, if there is one.
LEMMA AskedAs ==
    ASSUME OnePendingPerEmail, NEW p, NEW i \in PendingFor(p)
    PROVE  PendingFor(p) = {i} /\ AskedRole(p) = invitation[i].role
  BY DEF OnePendingPerEmail, PendingFor, AskedRole

LEMMA AskedSome ==
    ASSUME TypeOK, OnePendingPerEmail, NEW p, NEW i \in PendingFor(p)
    PROVE  AskedRole(p) \in InvitedRoles /\ AskedRole(p) # NoRole
<1>1. invitation[i].role \in InvitedRoles
  BY DEF PendingFor, Pending, Exists, TypeOK, Invitation
<1> QED
  BY <1>1, AskedAs, InvitationAssumption DEF Role, NoRole

\* The statements that touch no table, and the changes of plan, leave it all.
LEMMA RosterKept ==
    ASSUME UNCHANGED <<live, role, invitation, overdue>>
    PROVE  UNCHANGED Invited!rvars
  BY DEF Invited!rvars, AskedRole, PendingFor, Pending, Exists

\* Somebody answers the pending invitation j.
Answers(j) == \E s \in Status \ {"pending"} :
                 invitation' = [invitation EXCEPT ![j].status = s]

\* An answered invitation is pending no more; everybody else's stays.
LEMMA Answered ==
    ASSUME TypeOK, OnePendingPerEmail, NEW j \in Pending, Answers(j)
    PROVE  \A p : PendingFor(p)' = IF p = invitation[j].email THEN {} ELSE PendingFor(p)
<1>1. j \in Invitations /\ invitation[j] \in Invitation
  BY DEF Pending, Exists, TypeOK
<1>2. /\ invitation'[j].status # "pending"
      /\ invitation'[j].email = invitation[j].email
      /\ \A i \in Invitations \ {j} : invitation'[i] = invitation[i]
  BY <1>1 DEF Answers, TypeOK, Invitation
<1>3. Pending' = Pending \ {j}
  BY <1>1, <1>2 DEF Pending, Exists
<1>4. \A p : PendingFor(p)' = PendingFor(p) \ {j}
  BY <1>2, <1>3 DEF PendingFor, Pending
<1>5. j \in PendingFor(invitation[j].email)
  BY DEF PendingFor
<1>6. PendingFor(invitation[j].email) = {j}
  BY <1>5, AskedAs
<1>7. \A p : p # invitation[j].email => j \notin PendingFor(p)
  BY DEF PendingFor
<1> QED
  BY <1>4, <1>6, <1>7

\* ... and so is everybody else's role.
LEMMA AskedKept ==
    ASSUME TypeOK, OnePendingPerEmail, NEW p,
           PendingFor(p)' = PendingFor(p),
           \A i \in PendingFor(p) : invitation'[i] = invitation[i]
    PROVE  AskedRole(p)' = AskedRole(p)
<1>1. CASE PendingFor(p) = {}
  BY <1>1 DEF AskedRole
<1>2. CASE PendingFor(p) # {}
  <2>1. PICK i \in PendingFor(p) : TRUE
    BY <1>2
  <2>2. PendingFor(p) = {i} /\ AskedRole(p) = invitation[i].role
    BY <2>1, AskedAs
  <2>3. AskedRole(p)' = invitation'[i].role
    BY <2>2 DEF AskedRole
  <2> QED
    BY <2>1, <2>2, <2>3
<1> QED
  BY <1>1, <1>2

LEMMA OneChanged ==
    ASSUME NEW p \in People, NEW r, AskedRole(p)' = r,
           \A q \in People : q # p => AskedRole(q)' = AskedRole(q)
    PROVE  [q \in People |-> AskedRole(q)]'
             = [[q \in People |-> AskedRole(q)] EXCEPT ![p] = r]
<1>1. \A q \in People : AskedRole(q)'
                           = [[a \in People |-> AskedRole(a)] EXCEPT ![p] = r][q]
  OBVIOUS
<1> QED
  BY <1>1

\* accept_invitation, in time and too late, as Roster sees it.
LEMMA AnswerMaps ==
    ASSUME TypeOK, OnePendingPerEmail, NEW j \in Pending, Answers(j),
           NEW p \in People, p = invitation[j].email
    PROVE  /\ AskedRole(p) = invitation[j].role
           /\ AskedRole(p) # NoRole /\ AskedRole(p)' = NoRole
           /\ PendingFor(p) = {j} /\ PendingFor(p)' = {}
           /\ \A q : q # p => /\ PendingFor(q)' = PendingFor(q)
                              /\ AskedRole(q)' = AskedRole(q)
<1>1. j \in PendingFor(p)
  BY DEF PendingFor
<1>2. /\ PendingFor(p) = {j} /\ AskedRole(p) = invitation[j].role
      /\ AskedRole(p) # NoRole
  BY <1>1, AskedAs, AskedSome
<1>3. PendingFor(p)' = {} /\ \A q : q # p => PendingFor(q)' = PendingFor(q)
  BY Answered
<1>4. AskedRole(p)' = NoRole
  BY <1>3 DEF AskedRole
<1>5. ASSUME NEW q, q # p
      PROVE  AskedRole(q)' = AskedRole(q)
  <2>1. \A i \in PendingFor(q) : i # j /\ i \in Invitations
    BY <1>5 DEF PendingFor, Pending
  <2>2. \A i \in PendingFor(q) : invitation'[i] = invitation[i]
    BY <2>1 DEF Answers, TypeOK
  <2> QED
    BY <1>3, <1>5, <2>2, AskedKept
<1> QED
  BY <1>1, <1>2, <1>3, <1>4, <1>5

LEMMA AcceptMaps ==
    ASSUME LockedStep, NEW j \in Invitations, Accept(j)
    PROVE  \E p \in People : Invited!Join(p)
<1> PICK p \in People : p = invitation[j].email
  BY DEF LockedStep, LockedInv, Accept, AcceptExpired, PassExpiry, Pending, Exists, TypeOK,
         Invitation
<1>1. /\ TypeOK /\ OnePendingPerEmail /\ j \in Pending /\ j \notin overdue
      /\ Answers(j)
      /\ UNCHANGED <<live, overdue>>
      /\ role' = IF role[p] = NoRole THEN [role EXCEPT ![p] = invitation[j].role] ELSE role
  BY DEF LockedStep, LockedInv, Accept, Answers, Status
<1>2. /\ AskedRole(p) = invitation[j].role
      /\ AskedRole(p) # NoRole /\ AskedRole(p)' = NoRole
      /\ PendingFor(p) = {j} /\ PendingFor(p)' = {}
      /\ \A q : q # p => /\ PendingFor(q)' = PendingFor(q)
                         /\ AskedRole(q)' = AskedRole(q)
  BY <1>1, AnswerMaps
<1>3. role' = [role EXCEPT ![p] = IF role[p] = NoRole THEN AskedRole(p) ELSE role[p]]
  BY <1>1, <1>2 DEF TypeOK
<1>4. [q \in People |-> AskedRole(q)]'
        = [[q \in People |-> AskedRole(q)] EXCEPT ![p] = NoRole]
  BY <1>2, OneChanged
<1>5. /\ p \notin {q \in People : PendingFor(q) \cap overdue # {}}
      /\ {q \in People : PendingFor(q) \cap overdue # {}}'
           = {q \in People : PendingFor(q) \cap overdue # {}}
  BY <1>1, <1>2
<1>6. Invited!Join(p)
  BY <1>1, <1>2, <1>3, <1>4, <1>5 DEF Invited!Join, Invited!NoRole, NoRole
<1> QED
  BY <1>2, <1>6

LEMMA AcceptExpiredMaps ==
    ASSUME LockedStep, NEW j \in Invitations, AcceptExpired(j)
    PROVE  \E p \in People : Invited!TurnDown(p)
<1> PICK p \in People : p = invitation[j].email
  BY DEF LockedStep, LockedInv, Accept, AcceptExpired, PassExpiry, Pending, Exists, TypeOK,
         Invitation
<1>1. /\ TypeOK /\ OnePendingPerEmail /\ j \in Pending /\ j \in overdue
      /\ Answers(j)
      /\ UNCHANGED <<live, overdue, role>>
  BY DEF LockedStep, LockedInv, AcceptExpired, Answers, Status
<1>2. /\ AskedRole(p)' = NoRole
      /\ PendingFor(p) = {j} /\ PendingFor(p)' = {}
      /\ \A q : q # p => /\ PendingFor(q)' = PendingFor(q)
                         /\ AskedRole(q)' = AskedRole(q)
  BY <1>1, AnswerMaps
<1>3. [q \in People |-> AskedRole(q)]'
        = [[q \in People |-> AskedRole(q)] EXCEPT ![p] = NoRole]
  BY <1>2, OneChanged
<1>4. /\ p \in {q \in People : PendingFor(q) \cap overdue # {}}
      /\ {q \in People : PendingFor(q) \cap overdue # {}}'
           = {q \in People : PendingFor(q) \cap overdue # {}} \ {p}
  BY <1>1, <1>2
<1>5. Invited!TurnDown(p)
  BY <1>1, <1>2, <1>3, <1>4 DEF Invited!TurnDown, Invited!NoRole, NoRole
<1> QED
  BY <1>2, <1>5

LEMMA PassExpiryMaps ==
    ASSUME LockedStep, NEW j \in Invitations, PassExpiry(j)
    PROVE  \E p \in People : Invited!Expire(p)
<1> PICK p \in People : p = invitation[j].email
  BY DEF LockedStep, LockedInv, Accept, AcceptExpired, PassExpiry, Pending, Exists, TypeOK,
         Invitation
<1>1. /\ TypeOK /\ OnePendingPerEmail /\ j \in Pending
      /\ overdue' = overdue \cup {j}
      /\ UNCHANGED <<live, invitation, role>>
  BY DEF LockedStep, LockedInv, PassExpiry
<1>2. j \in PendingFor(p)
  BY <1>1 DEF PendingFor
<1>3. AskedRole(p) # NoRole
  BY <1>1, <1>2, AskedSome
<1>4. \A q : PendingFor(q)' = PendingFor(q) /\ AskedRole(q)' = AskedRole(q)
  BY <1>1 DEF PendingFor, Pending, Exists, AskedRole
<1>5. \A q : j \in PendingFor(q) => q = p
  BY DEF PendingFor
<1>6. {q \in People : PendingFor(q) \cap overdue # {}}'
           = {q \in People : PendingFor(q) \cap overdue # {}} \cup {p}
  BY <1>1, <1>2, <1>4, <1>5
<1>7. [q \in People |-> AskedRole(q)]' = [q \in People |-> AskedRole(q)]
  BY <1>4
<1>8. Invited!Expire(p)
  BY <1>1, <1>2, <1>3, <1>6, <1>7 DEF Invited!Expire, Invited!NoRole, NoRole
<1> QED
  BY <1>2, <1>8

\* Invitation.objects.create: whoever creates an invitation found no other for
\* its address, and under the lock there still is none.
LEMMA CreateMaps ==
    ASSUME LockedStep, OverdueInv, NEW w \in Workers, CreateInvitation(w)
    PROVE  \/ \E p \in People, r \in InvitedRoles : Invited!Ask(p, r)
           \/ UNCHANGED Invited!rvars
<1> USE DEF LockedStep, LockedInv
<1>1. CASE ~live
  BY <1>1, RosterKept DEF CreateInvitation, tables
<1>2. CASE live
  <2>1. PICK i \in Invitations :
          /\ invitation[i] = Unissued
          /\ invitation' = [invitation EXCEPT
               ![i] = [email |-> req[w].email, role |-> req[w].role,
                       status |-> "pending"]]
    BY <1>2 DEF CreateInvitation
  <2>2. PICK p \in People, r \in InvitedRoles : req[w].email = p /\ req[w].role = r
    BY DEF CreateInvitation, Request
  <2>3. PendingFor(p) = {} /\ UNCHANGED <<live, role, overdue>>
    BY <1>2, <2>2 DEF CreateInvitation, Deduped
  <2>4. /\ invitation'[i] = [email |-> p, role |-> r, status |-> "pending"]
        /\ \A k \in Invitations \ {i} : invitation'[k] = invitation[k]
    BY <2>1, <2>2 DEF TypeOK
  <2>5. i \notin Pending /\ i \notin overdue
    BY <2>1 DEF Pending, Exists, OverdueInv
  <2>6. invitation'[i] \notin {Unissued, Gone}
    <3>1. invitation'[i] \in Invitation
      BY <2>4 DEF Invitation, Status
    <3> QED
      BY <3>1, InvitationAssumption
  <2>7. Pending' = Pending \cup {i}
    BY <2>4, <2>5, <2>6 DEF Pending, Exists
  <2>8. PendingFor(p)' = {i} /\ \A q : q # p => PendingFor(q)' = PendingFor(q)
    BY <2>3, <2>4, <2>5, <2>7 DEF PendingFor, Pending
  <2>9. AskedRole(p) = NoRole /\ AskedRole(p)' = r
    BY <2>3, <2>4, <2>8 DEF AskedRole
  <2>10. ASSUME NEW q \in People, q # p
         PROVE  AskedRole(q)' = AskedRole(q)
    <3>1. \A k \in PendingFor(q) : invitation'[k] = invitation[k]
      BY <2>4, <2>5 DEF PendingFor, Pending
    <3> QED
      BY <2>8, <2>10, <3>1, AskedKept
  <2>11. [q \in People |-> AskedRole(q)]'
           = [[q \in People |-> AskedRole(q)] EXCEPT ![p] = r]
    BY <2>9, <2>10, OneChanged
  <2>12. {q \in People : PendingFor(q) \cap overdue # {}}'
           = {q \in People : PendingFor(q) \cap overdue # {}}
    BY <2>3, <2>5, <2>8
  <2>13. Invited!Ask(p, r)
    BY <1>2, <2>3, <2>9, <2>11, <2>12 DEF Invited!Ask, Invited!NoRole, NoRole
  <2> QED
    BY <2>13
<1> QED
  BY <1>1, <1>2

LEMMA RemoveMaps ==
    ASSUME TypeOK, NEW p \in People, RemoveMember(p)
    PROVE  Invited!Leave(p)
<1>1. UNCHANGED <<live, invitation, overdue>>
  BY DEF RemoveMember
<1>2. \A q : PendingFor(q)' = PendingFor(q) /\ AskedRole(q)' = AskedRole(q)
  BY <1>1 DEF PendingFor, Pending, Exists, AskedRole
<1>3. /\ [q \in People |-> AskedRole(q)]' = [q \in People |-> AskedRole(q)]
      /\ {q \in People : PendingFor(q) \cap overdue # {}}'
           = {q \in People : PendingFor(q) \cap overdue # {}}
  BY <1>1, <1>2
<1> QED
  BY <1>1, <1>3 DEF RemoveMember, Members, Invited!Leave, Invited!NoRole, NoRole

LEMMA DestroyMaps == ASSUME DestroyOrg PROVE Invited!Close
<1>1. \A q : PendingFor(q)' = {} /\ AskedRole(q)' = NoRole
  BY DEF DestroyOrg, PendingFor, Pending, Exists, AskedRole
<1>2. /\ [q \in People |-> AskedRole(q)]' = [q \in People |-> NoRole]
      /\ {q \in People : PendingFor(q) \cap overdue # {}}' = {}
  BY <1>1
<1> QED
  BY <1>2 DEF DestroyOrg, Invited!Close, Invited!NoRoles, Invited!NoRole, NoRole

\* Every step of the API's operations is a step of Roster, or leaves it alone.
LEMMA RosterStep == LockedStep /\ OverdueInv => [Invited!Next]_(Invited!rvars)
<1> SUFFICES ASSUME LockedStep, OverdueInv
             PROVE  Invited!Next \/ UNCHANGED Invited!rvars
    OBVIOUS
<1>1. ASSUME NEW w \in Workers, CreateInvitation(w)
      PROVE  Invited!Next \/ UNCHANGED Invited!rvars
  BY <1>1, CreateMaps DEF Invited!Next
<1>2. ASSUME NEW j \in Invitations, Accept(j)
      PROVE  Invited!Next
  BY <1>2, AcceptMaps DEF Invited!Next
<1>3. ASSUME NEW j \in Invitations, AcceptExpired(j)
      PROVE  Invited!Next
  BY <1>3, AcceptExpiredMaps DEF Invited!Next
<1>4. ASSUME NEW j \in Invitations, PassExpiry(j)
      PROVE  Invited!Next
  BY <1>4, PassExpiryMaps DEF Invited!Next
<1>5. ASSUME NEW p \in People, RemoveMember(p)
      PROVE  Invited!Next
  BY <1>5, RemoveMaps DEF LockedStep, LockedInv, Invited!Next
<1>6. ASSUME DestroyOrg
      PROVE  Invited!Next
  BY <1>6, DestroyMaps DEF Invited!Next
<1>7. ASSUME NEW j \in Invitations PROVE ~AdminInvitation(j)
  BY DEF AdminInvitation, AdminEditInvitation, AdminLoseInvitation,
         AdminGainInvitation, LockedStep, ApiEndpoints
<1>8. \/ UNCHANGED <<live, role, invitation, overdue>>
      \/ \E w \in Workers : CreateInvitation(w)
      \/ \E j \in Invitations : Accept(j) \/ AcceptExpired(j) \/ PassExpiry(j)
      \/ \E p \in People : RemoveMember(p)
      \/ DestroyOrg
  BY <1>7
     DEF LockedStep, Next, Statement, StartInvite, LockBilling, CheckMember, CheckPending,
         ReadLimit, CountMembers, CountPending, Goto, ChangePlan,
         AdminDeleteSubscription, tables, vars
<1> QED
  BY <1>1, <1>2, <1>3, <1>4, <1>5, <1>6, <1>8, RosterKept

LEMMA RosterInit == Init => Invited!Init
<1> SUFFICES ASSUME Init PROVE Invited!Init
    OBVIOUS
<1>1. \A q : PendingFor(q) = {} /\ AskedRole(q) = NoRole
  BY DEF Init, PendingFor, Pending, Exists, AskedRole
<1>2. /\ [q \in People |-> AskedRole(q)] = [q \in People |-> NoRole]
      /\ {q \in People : PendingFor(q) \cap overdue # {}} = {}
  BY <1>1
<1>3. role = [[p \in People |-> NoRole] EXCEPT ![Founder] = "owner"]
  BY PeopleAssumption DEF Init
<1> QED
  BY <1>2, <1>3 DEF Init, Invited!Init, Invited!NoRoles, Invited!NoRole, NoRole

\* Invitations as a whole (organizations/views.py): the statements of the create
\* endpoint, the acceptances and everything else that happens between them come
\* to the steps of Roster: a person has one open invitation, joins by it, at its
\* role and in time, or is turned down and can be asked again.
THEOREM RosterTheorem ==
    ASSUME Endpoints \subseteq ApiEndpoints, InitialPlan = FreePlan
    PROVE  Spec => RosterSpec
<1>1. Init => LockedInv /\ OverdueInv /\ Invited!Init
  BY LockedInit, RosterInit DEF Init, OverdueInv
<1>2. LockedInv /\ OverdueInv /\ [Next]_vars => LockedInv' /\ OverdueInv'
  BY LockedInvStep, OverdueStep DEF LockedStep, LockedInv
<1>3. LockedInv /\ OverdueInv /\ [Next]_vars => [Invited!Next]_(Invited!rvars)
  BY RosterStep DEF LockedStep
<1> QED
  BY <1>1, <1>2, <1>3, PTL DEF Spec, RosterSpec, Invited!Spec
=============================================================================
