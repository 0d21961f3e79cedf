----------------------------- MODULE TeamProofs -----------------------------
(***************************************************************************)
(* Theorems of Team and TeamHistory for every set of users, organizations, *)
(* memberships and workers.                                                *)
(***************************************************************************)
EXTENDS TeamHistory, FiniteSetTheorems, TLAPS

\* What the union of record sets Request says field by field: the shape of
\* every request the endpoints accept.
LEMMA RequestFields ==
    ASSUME NEW q \in Request
    PROVE  /\ q.op \in ApiOps \cup StaffOps
           /\ q.row \in Rows \cup {None}
           /\ q.role \in Role \cup {NoRole}
           /\ q.op \in {"rename", "destroy"} <=> q.row = None
           /\ q.op # "adminDelete" => q.org \in Orgs
           /\ q.op \in {"remove", "adminDelete"} => q.role = NoRole
           /\ q.op \in {"setRole", "adminRole", "adminChange"} => q.role \in Role
  BY NullAssumption DEF Request, ApiOps, StaffOps

\* The type of the workers' locals, apart from the tables.
LocalsOK ==
    /\ pc \in [Workers -> {"idle", "target", "count", "guard", "clean",
                           "cleanCount", "write"}]
    /\ req \in [Workers -> Request \cup {None}]
    /\ actorRole \in [Workers -> Role \cup {NoRole}]
    /\ target \in [Workers -> Membership \cup {None}]

\* A response keeps the locals of their types and the other workers as they
\* are.
LEMMA RespondLocals ==
    ASSUME LocalsOK, Serving, NEW w \in Workers, Respond(w)
    PROVE  LocalsOK' /\ Serving'
  BY DEF LocalsOK, Respond, Serving, Holding

\* Going on to a later statement keeps the request and the target it needs.
LEMMA GotoLocals ==
    ASSUME LocalsOK, Serving, NEW w \in Workers, Holding(w),
           NEW s \in {"guard", "cleanCount", "write"}, Goto(w, s),
           s = "cleanCount" => pc[w] = "clean"
    PROVE  LocalsOK' /\ Serving'
  BY DEF LocalsOK, Goto, Serving, Holding

\* Steps that leave the workers alone keep their locals.
LEMMA SameLocals ==
    ASSUME LocalsOK, Serving, UNCHANGED locals
    PROVE  LocalsOK' /\ Serving'
  BY DEF LocalsOK, locals, Serving, Holding

\* The locals' half of the type invariant is kept by every step.
LEMMA LocalsStep == TypeOK /\ Serving /\ [Next]_vars => LocalsOK' /\ Serving'
<1> SUFFICES ASSUME TypeOK, Serving, [Next]_vars PROVE LocalsOK' /\ Serving'
    OBVIOUS
<1>0. LocalsOK
  BY DEF TypeOK, LocalsOK
<1>1. ASSUME NEW w \in Workers, NEW q \in Request, LoadOrg(w, q)
      PROVE  LocalsOK' /\ Serving'
  <2>1. PICK r \in RowsOf(q.actor, q.org) :
          actorRole' = [actorRole EXCEPT ![w] = member[r].role]
    BY <1>1 DEF LoadOrg
  <2>2. member[r] \in Membership
    BY <2>1 DEF TypeOK, RowsOf, MembersOf, Exists
  <2>3. member[r].role \in Role
    BY <2>2 DEF Membership
  <2>4. q.op \in Endpoints /\ q.op \in ApiOps
    BY <1>1 DEF LoadOrg
  <2>5. q.row # None => q.op \in {"remove", "setRole"}
    BY <2>4, RequestFields DEF ApiOps
  <2>6. LocalsOK'
    BY <1>0, <1>1, <2>1, <2>3 DEF LoadOrg, LocalsOK
  <2> QED
    BY <1>0, <1>1, <2>4, <2>5, <2>6, NullAssumption
       DEF LoadOrg, LocalsOK, Serving, Holding
<1>2. ASSUME NEW w \in Workers, NEW q \in Request, OpenAdminPage(w, q)
      PROVE  LocalsOK' /\ Serving'
  <2>1. q.op \in Endpoints /\ q.op \in StaffOps
    BY <1>2 DEF OpenAdminPage
  <2>2. q.row \in Rows
    BY <2>1, RequestFields DEF StaffOps
  <2>3. member[q.row] \in Membership
    BY <1>2, <2>2 DEF OpenAdminPage, Exists, TypeOK
  <2>4. AfterAdminPage(q, member[q.row]) = "clean"
          => q.op \in {"adminRole", "adminChange"}
    <3>1. q.op \notin {"adminBulkDelete", "adminInline"}
      BY NullAssumption DEF Request
    <3> QED
      BY <2>1, <3>1 DEF AfterAdminPage, StaffOps
  <2>5. AfterAdminPage(q, member[q.row]) \in {"clean", "guard", "write"}
    BY DEF AfterAdminPage
  <2>6. LocalsOK'
    BY <1>0, <1>2, <2>1, <2>3, <2>5 DEF OpenAdminPage, LocalsOK
  <2> QED
    BY <1>0, <1>2, <2>1, <2>2, <2>3, <2>4, <2>5, <2>6
       DEF OpenAdminPage, LocalsOK, Serving, Holding
<1>3. ASSUME NEW w \in Workers, LoadTarget(w)
      PROVE  LocalsOK' /\ Serving'
  <2>1. CASE TargetVisible(w) /\ MayManage(w)
    <3>1. req[w].row \in Rows /\ member[req[w].row] \in Membership
      BY <2>1 DEF TargetVisible, MembersOf, Exists, TypeOK
    <3> QED
      BY <1>0, <1>3, <2>1, <3>1 DEF LoadTarget, LocalsOK, Serving, Holding
  <2>2. CASE ~(TargetVisible(w) /\ MayManage(w))
    BY <1>0, <1>3, <2>2, RespondLocals DEF LoadTarget
  <2> QED
    BY <2>1, <2>2
<1>4. ASSUME NEW w \in Workers,
             CountOwners(w) \/ GuardDelete(w) \/ CleanRole(w) \/ CleanCount(w)
      PROVE  LocalsOK' /\ Serving'
  <2>1. Holding(w)
    BY <1>4 DEF CountOwners, GuardDelete, CleanRole, CleanCount, Holding
  <2>2. \/ Respond(w)
        \/ \E s \in {"guard", "cleanCount", "write"} :
              Goto(w, s) /\ (s = "cleanCount" => pc[w] = "clean")
    BY <1>4 DEF CountOwners, GuardDelete, CleanRole, CleanCount
  <2> QED
    BY <1>0, <2>1, <2>2, RespondLocals, GotoLocals
<1>5. ASSUME NEW w \in Workers,
             \/ WriteRole(w) \/ DeleteRow(w) \/ SaveOrg(w)
             \/ DestroyOrg(w) \/ SaveRow(w)
      PROVE  LocalsOK' /\ Serving'
  <2>1. Respond(w)
    BY <1>5 DEF WriteRole, DeleteRow, SaveOrg, DestroyOrg, SaveRow
  <2> QED
    BY <1>0, <2>1, RespondLocals
<1>6. CASE UNCHANGED locals
  BY <1>0, <1>6, SameLocals
<1> QED
  BY <1>1, <1>2, <1>3, <1>4, <1>5, <1>6
     DEF Next, Step, CreateOrg, Join, AdminBulkDelete, AdminInline, vars, locals

\* The tables' half of the type invariant.
LEMMA TablesStep ==
    TypeOK /\ Serving /\ [Next]_vars =>
       /\ org' \in [Orgs -> {"unissued", "live", "deleted"}]
       /\ member' \in [Rows -> Membership \cup {Unissued, Deleted}]
<1> DEFINE TablesOK ==
       /\ org' \in [Orgs -> {"unissued", "live", "deleted"}]
       /\ member' \in [Rows -> Membership \cup {Unissued, Deleted}]
<1> SUFFICES ASSUME TypeOK, Serving, [Next]_vars PROVE TablesOK
    OBVIOUS
<1>1. ASSUME NEW u \in Users, NEW o \in Orgs, NEW r \in Rows, CreateOrg(u, o, r)
      PROVE  TablesOK
  BY <1>1 DEF CreateOrg, TypeOK, Membership, Role
<1>2. ASSUME NEW u \in Users, NEW o \in Orgs, NEW r \in Rows, NEW role \in Role,
             Join(u, o, r, role)
      PROVE  TablesOK
  BY <1>2 DEF Join, TypeOK, Membership
<1>3. ASSUME NEW w \in Workers, pc[w] = "write", req[w].row # None,
             WriteRole(w) \/ DeleteRow(w) \/ SaveRow(w)
      PROVE  TablesOK
  <2>1. req[w] \in Request /\ req[w].row \in Rows /\ target[w] \in Membership
    BY <1>3 DEF Serving, Holding
  <2>2. CASE WriteRole(w)
    <3>1. req[w].role \in Role
      BY <2>1, <2>2, RequestFields DEF WriteRole
    <3>2. CASE Exists(req[w].row)
      <4>1. member[req[w].row] \in Membership
        BY <2>1, <3>2 DEF Exists, TypeOK
      <4>2. [member[req[w].row] EXCEPT !.role = req[w].role] \in Membership
        BY <3>1, <4>1 DEF Membership
      <4> QED
        BY <2>1, <2>2, <3>2, <4>2 DEF WriteRole, TypeOK
    <3> QED
      BY <2>2, <3>2 DEF WriteRole, TypeOK
  <2>3. CASE DeleteRow(w)
    BY <2>1, <2>3 DEF DeleteRow, TypeOK
  <2>4. CASE SaveRow(w)
    <3>1. req[w].role \in Role /\ req[w].org \in Orgs
      BY <2>1, <2>4, RequestFields DEF SaveRow
    <3>2. [user |-> target[w].user, org |-> req[w].org, role |-> req[w].role]
            \in Membership
      BY <2>1, <3>1 DEF Membership
    <3> QED
      BY <2>1, <2>4, <3>2 DEF SaveRow, TypeOK
  <2> QED
    BY <1>3, <2>2, <2>3, <2>4
<1>4. ASSUME NEW w \in Workers, SaveOrg(w) \/ DestroyOrg(w)
      PROVE  TablesOK
  BY <1>4 DEF SaveOrg, DestroyOrg, TypeOK
<1>5. ASSUME NEW selected \in SUBSET Rows, AdminBulkDelete(selected)
      PROVE  TablesOK
  BY <1>5 DEF AdminBulkDelete, TypeOK
<1>6. CASE UNCHANGED tables
  BY <1>6 DEF tables, TypeOK
<1>7. ASSUME NEW w \in Workers, WriteRole(w) \/ DeleteRow(w) \/ SaveRow(w)
      PROVE  pc[w] = "write" /\ req[w].row # None
  <2>1. pc[w] = "write" /\ req[w].op \notin {"rename", "destroy"}
    BY <1>7 DEF WriteRole, DeleteRow, SaveRow
  <2>2. req[w] \in Request
    BY <2>1 DEF Serving
  <2> QED
    BY <2>1, <2>2, RequestFields
<1>8. ASSUME NEW w \in Workers,
             \/ LoadTarget(w) \/ CountOwners(w) \/ GuardDelete(w)
             \/ CleanRole(w) \/ CleanCount(w)
      PROVE  UNCHANGED tables
  BY <1>8 DEF LoadTarget, CountOwners, GuardDelete, CleanRole, CleanCount, Goto
<1>9. ASSUME NEW o \in Orgs, NEW demoted \in SUBSET MembersOf(o),
             NEW removed \in SUBSET MembersOf(o), NEW role \in Role \ {"owner"},
             AdminInline(o, demoted, removed, role)
      PROVE  TablesOK
  BY <1>9 DEF AdminInline, TypeOK, MembersOf, Exists, Membership
<1> QED
  BY <1>1, <1>2, <1>3, <1>4, <1>5, <1>6, <1>7, <1>8, <1>9
     DEF Next, Step, LoadOrg, OpenAdminPage, vars, tables

\* Type correctness of the member handlers, with what a busy worker holds:
\* whatever the operations in use and however many workers serve them.
THEOREM TypeCorrect == Spec => [](TypeOK /\ Serving)
<1>1. Init => TypeOK /\ Serving
  BY DEF Init, TypeOK, Serving, Holding
<1>2. TypeOK /\ Serving /\ [Next]_vars => (TypeOK /\ Serving)'
  BY LocalsStep, TablesStep DEF TypeOK, LocalsOK
<1> QED
  BY <1>1, <1>2, PTL DEF Spec
-----------------------------------------------------------------------------
(* The last owner.  Three lemmas say what one step does: to the tables     *)
(* (Effects), to what a worker holds (Holdings), and what a count that     *)
(* passed means (OthersOwnTwo).  The rest is about those, not the actions. *)

\* The count that lets a removal go on sees two different Owners.
LEMMA OthersOwnTwo ==
    ASSUME NEW o \in Orgs, OthersOwn(o)
    PROVE  TwoOwners(o)
<1> DEFINE S == Owners(o)
<1>1. IsFiniteSet(S)
  BY RowsAssumption, FS_Subset DEF Owners, MembersOf
<1>2. ASSUME ~TwoOwners(o) PROVE FALSE
  <2>1. CASE S = {}
    BY <2>1, FS_EmptySet DEF OthersOwn
  <2>2. ASSUME NEW r \in S PROVE FALSE
    <3>1. S = {r}
      BY <1>2, <2>2 DEF TwoOwners
    <3>2. Cardinality(S) = 1
      BY <3>1, FS_Singleton
    <3> QED
      BY <3>2 DEF OthersOwn
  <2> QED
    BY <2>1, <2>2
<1> QED
  BY <1>2

\* One new row, in a live organization or as the Owner of a new one.
Inserted(r, row) ==
    /\ member[r] = Unissued
    /\ row \in Membership
    /\ \/ org[row.org] = "live"
       \/ org[row.org] = "unissued" /\ row.role = "owner"
    /\ org' = [org EXCEPT ![row.org] = "live"]
    /\ member' = [member EXCEPT ![r] = row]

\* The last statement of a request on a membership.
Written(w) ==
    /\ pc[w] = "write" /\ pc'[w] = "idle" /\ req[w].row # None
    /\ UNCHANGED org
    /\ \/ UNCHANGED member
       \/ /\ req[w].role # "owner"
          /\ member' = [member EXCEPT ![req[w].row] = Deleted]
       \/ \E row \in Membership :
             /\ row.org = target[w].org
             /\ row.role = req[w].role
             /\ org[row.org] = "live"
             /\ member' = [member EXCEPT ![req[w].row] = row]

\* An organization and its memberships gone.
Destroyed(o) ==
    /\ org' = [org EXCEPT ![o] = "deleted"]
    /\ member' = [r \in Rows |-> IF r \in MembersOf(o) THEN Deleted ELSE member[r]]

\* With the guarded operations alone, a step has one of these effects.
LEMMA Effects ==
    ASSUME Endpoints \subseteq GuardedOps,
           TypeOK, Serving, TablesInv, TargetsInv, [Next]_vars
    PROVE  \/ UNCHANGED tables
           \/ \E r \in Rows, row \in Membership : Inserted(r, row)
           \/ \E w \in Workers : Written(w)
           \/ \E o \in Orgs : Destroyed(o)
<1>1. ASSUME NEW u \in Users, NEW o \in Orgs, NEW r \in Rows, CreateOrg(u, o, r)
      PROVE  \E row \in Membership : Inserted(r, row)
  <2>1. [user |-> u, org |-> o, role |-> "owner"] \in Membership
    BY DEF Membership, Role
  <2> QED
    BY <1>1, <2>1 DEF CreateOrg, Inserted
<1>2. ASSUME NEW u \in Users, NEW o \in Orgs, NEW r \in Rows, NEW role \in Role,
             Join(u, o, r, role)
      PROVE  \E row \in Membership : Inserted(r, row)
  <2>1. [user |-> u, org |-> o, role |-> role] \in Membership
    BY DEF Membership
  <2>2. org = [org EXCEPT ![o] = "live"]
    BY <1>2 DEF Join, TypeOK
  <2> QED
    BY <1>2, <2>1, <2>2 DEF Join, Inserted
<1>3. ASSUME NEW w \in Workers, WriteRole(w) \/ DeleteRow(w) \/ SaveRow(w)
      PROVE  Written(w)
  <2>1. pc[w] = "write" /\ req[w].op \notin {"rename", "destroy"} /\ Respond(w)
    BY <1>3 DEF WriteRole, DeleteRow, SaveRow
  <2>2. req[w] \in Request /\ req[w].op \in GuardedOps
    BY <2>1 DEF Serving
  <2>3. req[w].row # None /\ Holding(w)
    BY <2>1, <2>2, RequestFields DEF Holding
  <2>4. req[w].row \in Rows /\ target[w] \in Membership
    BY <2>3 DEF Serving
  <2>5. pc'[w] = "idle"
    BY <2>1 DEF Respond, TypeOK
  <2>6. CASE WriteRole(w)
    <3>1. CASE Exists(req[w].row)
      <4> DEFINE row == [member[req[w].row] EXCEPT !.role = req[w].role]
      <4>1. req[w].role \in Role
        BY <2>2, <2>6, RequestFields DEF WriteRole
      <4>2. member[req[w].row] \in Membership
        BY <2>4, <3>1 DEF Exists, TypeOK
      <4>3. row \in Membership /\ row.org = member[req[w].row].org
               /\ row.role = req[w].role
        BY <4>1, <4>2 DEF Membership
      <4>4. row.org = target[w].org /\ org[row.org] = "live"
        BY <2>3, <2>4, <3>1, <4>3 DEF TablesInv, TargetsInv
      <4>5. member' = [member EXCEPT ![req[w].row] = row]
        BY <2>6, <3>1 DEF WriteRole
      <4> QED
        BY <2>1, <2>3, <2>5, <2>6, <4>3, <4>4, <4>5 DEF Written, WriteRole
    <3>2. CASE ~Exists(req[w].row)
      BY <2>1, <2>3, <2>5, <2>6, <3>2 DEF Written, WriteRole
    <3> QED
      BY <3>1, <3>2
  <2>7. CASE DeleteRow(w)
    <3>1. req[w].role # "owner"
      BY <2>2, <2>7, RequestFields DEF DeleteRow, NoRole
    <3> QED
      BY <2>1, <2>3, <2>5, <2>7, <3>1 DEF Written, DeleteRow
  <2>8. CASE SaveRow(w)
    <3> DEFINE row == [user |-> target[w].user, org |-> req[w].org,
                       role |-> req[w].role]
    <3>1. req[w].op # "adminDelete"
      BY <2>8 DEF SaveRow
    <3>2. req[w].role \in Role /\ req[w].org \in Orgs
      BY <2>2, <2>8, <3>1, RequestFields DEF SaveRow
    <3>3. row \in Membership /\ row.org = target[w].org /\ row.role = req[w].role
      BY <2>3, <2>4, <3>1, <3>2 DEF Membership, TargetsInv
    <3>4. \/ UNCHANGED member
          \/ org[row.org] = "live" /\ member' = [member EXCEPT ![req[w].row] = row]
      BY <2>8 DEF SaveRow
    <3>5. UNCHANGED org
      BY <2>8 DEF SaveRow
    <3> HIDE DEF row
    <3> QED
      BY <2>1, <2>3, <2>5, <3>3, <3>4, <3>5 DEF Written
  <2> QED
    BY <1>3, <2>6, <2>7, <2>8
<1>4. ASSUME NEW w \in Workers, DestroyOrg(w)
      PROVE  \E o \in Orgs : Destroyed(o)
  <2>1. req[w] \in Request /\ req[w].op = "destroy"
    BY <1>4 DEF DestroyOrg, Serving
  <2>2. req[w].org \in Orgs
    BY <2>1, RequestFields
  <2> QED
    BY <1>4, <2>2 DEF DestroyOrg, Destroyed
<1>5. ASSUME NEW w \in Workers PROVE ~SaveOrg(w)
  BY DEF SaveOrg, Serving, GuardedOps
<1>6. ASSUME NEW selected \in SUBSET Rows PROVE ~AdminBulkDelete(selected)
  BY DEF AdminBulkDelete, GuardedOps
<1>7. ASSUME NEW w \in Workers,
             \/ LoadTarget(w) \/ CountOwners(w) \/ GuardDelete(w)
             \/ CleanRole(w) \/ CleanCount(w)
      PROVE  UNCHANGED tables
  BY <1>7 DEF LoadTarget, CountOwners, GuardDelete, CleanRole, CleanCount, Goto
<1>8. CASE UNCHANGED vars
  BY <1>8 DEF vars, tables
<1>9. ASSUME NEW o \in Orgs, NEW demoted \in SUBSET MembersOf(o),
             NEW removed \in SUBSET MembersOf(o), NEW role \in Role \ {"owner"}
      PROVE  ~AdminInline(o, demoted, removed, role)
  BY DEF AdminInline, GuardedOps
<1> QED
  BY <1>1, <1>2, <1>3, <1>4, <1>5, <1>6, <1>7, <1>8, <1>9
     DEF Next, Step, LoadOrg, OpenAdminPage

\* Worker w holds the same request and target, at the same statement or, the
\* tables untouched, at one that may take away its row's Owner role only if
\* there is another Owner.
Kept(w) ==
    /\ Holding(w)
    /\ req'[w] = req[w] /\ target'[w] = target[w]
    /\ \/ pc'[w] = pc[w]
       \/ /\ UNCHANGED tables
          /\ Unseating(w)' => \/ req[w].row \notin Owners(target[w].org)
                              \/ TwoOwners(target[w].org)

\* Worker w reads its target, the tables untouched.
Read(w) ==
    /\ UNCHANGED tables
    /\ Exists(req'[w].row)
    /\ target'[w] = member[req'[w].row]
    /\ req'[w].op # "adminDelete" => req'[w].org = target'[w].org
    /\ Unseating(w)' => req'[w].row \notin Owners(target'[w].org)

\* A worker that holds a target after a step kept it or has just read it.
LEMMA Holdings ==
    ASSUME Endpoints \subseteq GuardedOps,
           TypeOK, Serving, TablesInv, TargetsInv, [Next]_vars,
           NEW w \in Workers, Holding(w)'
    PROVE  Kept(w) \/ Read(w)
<1> DEFINE Same(v) == pc'[v] = pc[v] /\ req'[v] = req[v] /\ target'[v] = target[v]
<1>0. ASSUME Same(w) PROVE Kept(w)
  BY <1>0 DEF Kept, Holding
<1>1. CASE UNCHANGED locals
  BY <1>0, <1>1 DEF locals
<1>2. ASSUME NEW v \in Workers, NEW q \in Request, LoadOrg(v, q)
      PROVE  Same(w)
  <2>1. q.op \in ApiOps
    BY <1>2 DEF LoadOrg
  <2>2. w # v
    BY <1>2, <2>1 DEF LoadOrg, TypeOK, Holding
  <2> QED
    BY <1>2, <2>2 DEF LoadOrg, TypeOK
<1>3. ASSUME NEW v \in Workers, NEW q \in Request, OpenAdminPage(v, q)
      PROVE  Same(w) \/ Read(w)
  <2>1. CASE w # v
    BY <1>3, <2>1 DEF OpenAdminPage, TypeOK
  <2>2. CASE w = v
    <3>1. /\ req'[w] = q /\ target'[w] = member[q.row] /\ Exists(q.row)
          /\ UNCHANGED tables /\ pc'[w] = AfterAdminPage(q, member[q.row])
      BY <1>3, <2>2 DEF OpenAdminPage, TypeOK
    <3>2. q.op \in {"adminDelete", "adminRole"}
      BY <1>3 DEF OpenAdminPage, StaffOps, GuardedOps
    <3>3. q.op # "adminDelete" => q.org = member[q.row].org
      BY <1>3, <3>2 DEF OpenAdminPage
    <3>4. Unseating(w)' => member[q.row].role # "owner"
      BY <3>1, <3>2 DEF Unseating, AfterAdminPage
    <3> QED
      BY <3>1, <3>3, <3>4 DEF Read, Owners
  <2> QED
    BY <2>1, <2>2
<1>4. ASSUME NEW v \in Workers, LoadTarget(v)
      PROVE  Same(w) \/ Read(w)
  <2>1. CASE w # v
    BY <1>4, <2>1 DEF LoadTarget, Respond, TypeOK
  <2>2. CASE w = v
    <3>1. pc'[w] # "idle"
      BY DEF Holding
    <3>2. TargetVisible(w) /\ MayManage(w)
      BY <1>4, <2>2, <3>1 DEF LoadTarget, Respond, TypeOK
    <3>3. /\ req'[w] = req[w] /\ target'[w] = member[req[w].row]
          /\ UNCHANGED tables
          /\ pc'[w] = IF Unseats(req[w], member[req[w].row])
                        THEN "count" ELSE "write"
      BY <1>4, <2>2, <3>2 DEF LoadTarget, TypeOK
    <3>4. Exists(req[w].row) /\ member[req[w].row].org = req[w].org
      BY <3>2 DEF TargetVisible, MembersOf
    <3>5. Unseating(w)' => member[req[w].row].role # "owner"
      BY <3>3 DEF Unseating, Unseats
    <3> QED
      BY <3>3, <3>4, <3>5 DEF Read, Owners
  <2> QED
    BY <2>1, <2>2
<1>5. ASSUME NEW v \in Workers,
             CountOwners(v) \/ GuardDelete(v) \/ CleanRole(v) \/ CleanCount(v)
      PROVE  Kept(w)
  <2>1. CASE w # v
    BY <1>0, <1>5, <2>1
       DEF CountOwners, GuardDelete, CleanRole, CleanCount, Respond, Goto, TypeOK
  <2>2. CASE w = v
    <3>1. ~Respond(w)
      BY DEF Respond, Holding, TypeOK
    <3>2. UNCHANGED tables /\ req'[w] = req[w] /\ target'[w] = target[w]
      BY <1>5, <2>2, <3>1
         DEF CountOwners, GuardDelete, CleanRole, CleanCount, Goto
    <3>3. Holding(w)
      BY <1>5, <2>2 DEF CountOwners, GuardDelete, CleanRole, CleanCount, Holding
    <3>4. target[w].org \in Orgs /\ req[w].row \in Rows /\ req[w] \in Request
             /\ req[w].op \in GuardedOps
      BY <3>3 DEF Serving, Membership, Holding
    <3>5. CASE CountOwners(w) \/ GuardDelete(w)
      <4>1. OthersOwn(target[w].org)
        BY <3>1, <3>5 DEF CountOwners, GuardDelete
      <4> QED
        BY <3>2, <3>3, <3>4, <4>1, OthersOwnTwo DEF Kept
    <3>6. CASE CleanRole(w)
      <4>1. /\ pc[w] = "clean"
            /\ pc' = [pc EXCEPT ![w] = IF /\ Exists(req[w].row)
                                          /\ Unseats(req[w], member[req[w].row])
                                         THEN "cleanCount" ELSE "write"]
        BY <3>6 DEF CleanRole, Goto
      <4>2. Unseating(w)' => req[w].row \notin Owners(target[w].org)
        BY <3>2, <4>1 DEF Unseating, Unseats, TypeOK, Owners, MembersOf
      <4> QED
        BY <3>2, <3>3, <4>2 DEF Kept
    <3>7. CASE CleanCount(w)
      <4>1. OthersOwn(req[w].org)
        BY <3>1, <3>7 DEF CleanCount
      <4>2. req[w].op # "adminDelete"
        BY <3>7 DEF CleanCount, Serving
      <4>3. req[w].org = target[w].org
        BY <3>3, <4>2 DEF TargetsInv
      <4> QED
        BY <3>2, <3>3, <3>4, <4>1, <4>3, OthersOwnTwo DEF Kept
    <3> QED
      BY <1>5, <2>2, <3>5, <3>6, <3>7
  <2> QED
    BY <2>1, <2>2
<1>6. ASSUME NEW v \in Workers,
             \/ WriteRole(v) \/ DeleteRow(v) \/ SaveOrg(v)
             \/ DestroyOrg(v) \/ SaveRow(v)
      PROVE  Same(w)
  <2>1. Respond(v)
    BY <1>6 DEF WriteRole, DeleteRow, SaveOrg, DestroyOrg, SaveRow
  <2>2. w # v
    BY <2>1 DEF Respond, TypeOK, Holding
  <2> QED
    BY <2>1, <2>2 DEF Respond, TypeOK
<1> HIDE DEF Same
<1> QED
  BY <1>0, <1>1, <1>2, <1>3, <1>4, <1>5, <1>6
     DEF Next, Step, CreateOrg, Join, AdminBulkDelete, AdminInline, vars, locals
-----------------------------------------------------------------------------
(* The conjuncts of GuardInv, one lemma each.                              *)

\* What holds before a step of the guarded operations, and the step.
GuardedStep == /\ Endpoints \subseteq GuardedOps
               /\ GuardInv
               /\ [HNext]_hvars

\* A membership keeps pointing at a live organization.
LEMMA RowsLive == GuardedStep => \A r \in Rows : Exists(r)' => org'[member'[r].org] = "live"
<1> SUFFICES ASSUME GuardedStep, NEW r \in Rows, Exists(r)'
             PROVE  org'[member'[r].org] = "live"
    OBVIOUS
<1> USE NullAssumption DEF GuardedStep, GuardInv, HTypeOK
<1>1. [Next]_vars
  BY DEF HNext, hvars
<1>2. Exists(r) => member[r] \in Membership /\ member[r].org \in Orgs
                      /\ org[member[r].org] = "live"
  BY DEF Exists, TypeOK, TablesInv, Membership
<1>3. CASE UNCHANGED tables
  BY <1>2, <1>3 DEF tables, Exists
<1>4. ASSUME NEW s \in Rows, NEW row \in Membership, Inserted(s, row)
      PROVE  org'[member'[r].org] = "live"
  <2>1. row.org \in Orgs
    BY DEF Membership
  <2> QED
    BY <1>2, <1>4, <2>1 DEF Inserted, TypeOK, Exists
<1>5. ASSUME NEW w \in Workers, Written(w)
      PROVE  org'[member'[r].org] = "live"
  <2>1. Holding(w)
    BY <1>5 DEF Written, Holding
  <2>2. req[w].row \in Rows
    BY <2>1 DEF Serving
  <2> QED
    BY <1>2, <1>5, <2>2 DEF Written, TypeOK, Exists
<1>6. ASSUME NEW o \in Orgs, Destroyed(o)
      PROVE  org'[member'[r].org] = "live"
  <2>1. Exists(r) /\ r \notin MembersOf(o) /\ member'[r] = member[r]
    BY <1>6 DEF Destroyed, Exists
  <2>2. member[r].org # o
    BY <2>1 DEF MembersOf
  <2> QED
    BY <1>2, <1>6, <2>1, <2>2 DEF Destroyed, TypeOK
<1> QED
  BY <1>1, <1>3, <1>4, <1>5, <1>6, Effects

\* Two Owners at once are remembered, and what is remembered stays.
LEMMA SharedRemembers ==
    ASSUME GuardInv, [HNext]_hvars
    PROVE  /\ \A o \in Orgs : TwoOwners(o)' => o \in shared'
           /\ shared \subseteq shared'
<1>1. CASE HNext
  BY <1>1 DEF HNext
<1>2. CASE UNCHANGED hvars
  BY <1>2 DEF hvars, vars, GuardInv, TablesInv, TwoOwners, Owners, MembersOf, Exists
<1> QED
  BY <1>1, <1>2

\* The two facts of TablesInv, after a step.
LEMMA TablesInvStep == GuardedStep => TablesInv'
  BY RowsLive, SharedRemembers DEF GuardedStep, TablesInv

\* An issued row keeps its organization, as long as it is there.
LEMMA RowKeepsOrg ==
    ASSUME GuardedStep, NEW r \in Rows, member[r] # Unissued,
           NEW w \in Workers, Holding(w), req[w].row = r
    PROVE  /\ member'[r] # Unissued
           /\ Exists(r)' => member'[r].org = target[w].org
           /\ org'[target[w].org] # "unissued"
<1> USE NullAssumption DEF GuardedStep, GuardInv, HTypeOK
<1>1. [Next]_vars
  BY DEF HNext, hvars
<1>2. /\ Exists(r) => member[r].org = target[w].org
      /\ org[target[w].org] # "unissued"
      /\ target[w].org \in Orgs
  BY DEF TargetsInv, Serving, Membership
<1>3. CASE UNCHANGED tables
  BY <1>2, <1>3 DEF tables, Exists
<1>4. ASSUME NEW s \in Rows, NEW row \in Membership, Inserted(s, row)
      PROVE  /\ member'[r] = member[r]
             /\ org'[target[w].org] # "unissued"
  <2>1. row.org \in Orgs
    BY DEF Membership
  <2> QED
    BY <1>2, <1>4, <2>1 DEF Inserted, TypeOK
<1>5. ASSUME NEW v \in Workers, Written(v)
      PROVE  /\ member'[r] # Unissued
             /\ Exists(r)' => member'[r].org = target[w].org
             /\ UNCHANGED org
  <2>1. Holding(v) /\ UNCHANGED org
    BY <1>5 DEF Written, Holding
  <2>2. req[v].row \in Rows
    BY <2>1 DEF Serving
  <2>3. CASE req[v].row = r
    <3>1. target[v].org = target[w].org
      BY <2>1, <2>3 DEF TargetsInv
    <3>2. member'[r] # Unissued
      BY <1>5, <2>2, <2>3 DEF Written, TypeOK
    <3> QED
      BY <1>2, <1>5, <2>1, <2>2, <2>3, <3>1, <3>2 DEF Written, TypeOK, Exists
  <2>4. CASE req[v].row # r
    BY <1>2, <1>5, <2>1, <2>2, <2>4 DEF Written, TypeOK, Exists
  <2> QED
    BY <2>3, <2>4
<1>6. ASSUME NEW o \in Orgs, Destroyed(o)
      PROVE  /\ member'[r] \in {member[r], Deleted}
             /\ org'[target[w].org] # "unissued"
  BY <1>2, <1>6 DEF Destroyed, TypeOK
<1> QED
  BY <1>1, <1>2, <1>3, <1>4, <1>5, <1>6, Effects DEF Exists

\* A held target stays true to its row's organization.
LEMMA TargetsInvStep == GuardedStep => TargetsInv'
<1> SUFFICES ASSUME GuardedStep PROVE TargetsInv'
    OBVIOUS
<1> USE DEF GuardedStep, GuardInv, HTypeOK
<1>1. [Next]_vars
  BY DEF HNext, hvars
<1>2. Serving'
  BY <1>1, LocalsStep
\* The row and the organization of what w holds, whether kept or just read.
<1>3. ASSUME NEW w \in Workers, Holding(w)'
      PROVE  /\ member'[req'[w].row] # Unissued
             /\ org'[target'[w].org] # "unissued"
             /\ Exists(req[w].row)' => member'[req'[w].row].org = target'[w].org
             /\ req'[w].op # "adminDelete" => req'[w].org = target'[w].org
  <2>1. req'[w].row \in Rows
    BY <1>2, <1>3 DEF Serving
  <2>2. CASE Kept(w)
    <3>1. Holding(w) /\ req'[w] = req[w] /\ target'[w] = target[w]
      BY <2>2 DEF Kept
    <3>2. member[req[w].row] # Unissued
             /\ (req[w].op # "adminDelete" => req[w].org = target[w].org)
      BY <3>1 DEF TargetsInv
    <3> QED
      BY <2>1, <3>1, <3>2, RowKeepsOrg
  <2>3. CASE Read(w)
    BY <2>1, <2>3 DEF Read, tables, Exists, TablesInv
  <2> QED
    BY <1>1, <1>3, <2>2, <2>3, Holdings
\* Two workers that hold the same row agree on its organization.
<1>4. ASSUME NEW w \in Workers, NEW v \in Workers, Holding(w)', Holding(v)',
             req'[v].row = req'[w].row
      PROVE  target'[v].org = target'[w].org
  <2>1. (Kept(w) \/ Read(w)) /\ (Kept(v) \/ Read(v))
    BY <1>1, <1>4, Holdings
  <2>2. CASE Kept(w) /\ Kept(v)
    BY <1>4, <2>2 DEF Kept, TargetsInv
  <2>3. CASE Read(w) \/ Read(v)
    <3>1. Exists(req[w].row)'
      BY <1>4, <2>3 DEF Read, tables, Exists
    <3> QED
      BY <1>3, <1>4, <3>1
  <2> QED
    BY <2>1, <2>2, <2>3
<1> QED
  BY <1>3, <1>4 DEF TargetsInv

\* A write after which a row is no Owner's any more is the write of a request
\* on that very row, about to take the Owner role away.
LEMMA UnseatingWrite ==
    ASSUME GuardInv, NEW w \in Workers, Written(w),
           NEW o \in Orgs, NEW r \in Owners(o), r \notin Owners(o)'
    PROVE  /\ req[w].row = r
           /\ target[w].org = o
           /\ Unseating(w)
           /\ \A s \in Rows \ {r} : member'[s] = member[s]
<1> USE DEF GuardInv, HTypeOK
<1>1. Holding(w)
  BY DEF Written, Holding
<1>2. r \in Rows /\ Exists(r) /\ member[r].org = o /\ member[r].role = "owner"
  BY DEF Owners, MembersOf
<1>3. req[w].row = r
  BY <1>2 DEF Written, TypeOK, Owners, MembersOf, Exists
<1>4. target[w].org = o
  BY <1>1, <1>2, <1>3 DEF TargetsInv
<1>5. req[w].role # "owner"
  <2>1. ASSUME NEW row \in Membership, row.org = target[w].org,
               row.role = "owner", member' = [member EXCEPT ![r] = row]
        PROVE  r \in Owners(o)'
    BY <1>2, <1>4, <2>1, NullAssumption DEF TypeOK, Owners, MembersOf, Exists
  <2>2. UNCHANGED member => r \in Owners(o)'
    BY <1>2 DEF Owners, MembersOf, Exists
  <2> QED
    BY <1>3, <2>1, <2>2 DEF Written
<1>6. Unseating(w)
  BY <1>5 DEF Written, Unseating
<1>7. \A s \in Rows \ {r} : member'[s] = member[s]
  BY <1>3 DEF Written, TypeOK
<1> QED
  BY <1>3, <1>4, <1>6, <1>7

\* So it hits an organization that has had two Owners.
LEMMA SharedUnseating ==
    ASSUME GuardInv, NEW w \in Workers, Written(w), NEW o \in Orgs, o \notin shared,
           NEW r \in Owners(o), r \notin Owners(o)'
    PROVE  FALSE
<1>1. req[w].row = r /\ target[w].org = o /\ Unseating(w)
  BY UnseatingWrite
<1> QED
  BY <1>1 DEF GuardInv, UnseatingInv

\* Only a write and the deletion of its organization change a row that is an
\* Owner's.
LEMMA OwnersChange ==
    ASSUME GuardedStep, NEW o \in Orgs, NEW r \in Owners(o), r \notin Owners(o)'
    PROVE  \/ \E w \in Workers : Written(w)
           \/ org'[o] = "deleted"
<1> USE DEF GuardedStep, GuardInv, HTypeOK
<1>1. [Next]_vars
  BY DEF HNext, hvars
<1>2. r \in Rows /\ Exists(r) /\ member[r].org = o /\ member[r].role = "owner"
  BY DEF Owners, MembersOf
<1>3. ~UNCHANGED member
  BY <1>2 DEF Owners, MembersOf, Exists
<1>4. ASSUME NEW s \in Rows, NEW row \in Membership, Inserted(s, row)
      PROVE  FALSE
  BY <1>2, <1>4 DEF Inserted, TypeOK, Owners, MembersOf, Exists
<1>5. ASSUME NEW p \in Orgs, Destroyed(p)
      PROVE  org'[o] = "deleted"
  BY <1>2, <1>5 DEF Destroyed, TypeOK, Owners, MembersOf, Exists
<1> QED
  BY <1>1, <1>3, <1>4, <1>5, Effects DEF tables

\* The organization that never had two Owners keeps its one.
LEMMA SoleOwnerStep == GuardedStep => SoleOwnerKept'
<1> SUFFICES ASSUME GuardedStep, NEW o \in Orgs,
                    org'[o] = "live", o \notin shared'
             PROVE  Owners(o)' # {}
    BY DEF SoleOwnerKept
<1> USE DEF GuardedStep, GuardInv, HTypeOK
<1>1. [Next]_vars
  BY DEF HNext, hvars
<1>2. o \notin shared
  BY SharedRemembers
<1>3. CASE org[o] = "live"
  <2>1. PICK r \in Owners(o) : TRUE
    BY <1>2, <1>3 DEF SoleOwnerKept
  <2>2. r \in Owners(o)'
    BY <1>2, <2>1, OwnersChange, SharedUnseating
  <2> QED
    BY <2>2
<1>4. CASE org[o] # "live"
  <2>1. ~UNCHANGED org
    BY <1>4
  <2>2. ASSUME NEW s \in Rows, NEW row \in Membership, Inserted(s, row)
        PROVE  s \in Owners(o)'
    <3>1. row.org = o /\ row.role = "owner" /\ member'[s] = row
      BY <1>4, <2>2 DEF Inserted, TypeOK, Membership
    <3> QED
      BY <3>1, NullAssumption DEF Owners, MembersOf, Exists
  <2>3. ASSUME NEW p \in Orgs, Destroyed(p)
        PROVE  FALSE
    BY <1>4, <2>3 DEF Destroyed, TypeOK
  <2> QED
    BY <1>1, <2>1, <2>2, <2>3, Effects DEF tables, Written
<1> QED
  BY <1>3, <1>4

\* An issued organization that is live after a step was live before it.
LEMMA StaysDeleted ==
    ASSUME GuardedStep, NEW o \in Orgs, org[o] # "unissued", org'[o] = "live"
    PROVE  org[o] = "live"
<1> USE DEF GuardedStep, GuardInv, HTypeOK
<1>1. [Next]_vars
  BY DEF HNext, hvars
<1>2. ASSUME NEW s \in Rows, NEW row \in Membership, Inserted(s, row)
      PROVE  org[o] = "live"
  BY <1>2 DEF Inserted, TypeOK, Membership
<1>3. ASSUME NEW p \in Orgs, Destroyed(p)
      PROVE  org[o] = "live"
  BY <1>3 DEF Destroyed, TypeOK
<1> QED
  BY <1>1, <1>2, <1>3, Effects DEF tables, Written

\* What a worker is about to unseat in such an organization is no Owner.
LEMMA UnseatingInvStep == GuardedStep => UnseatingInv'
<1> SUFFICES ASSUME GuardedStep, NEW w \in Workers, Unseating(w)',
                    target'[w].org \notin shared'
             PROVE  (req[w].row \notin Owners(target[w].org))'
    BY DEF UnseatingInv
<1> USE DEF GuardedStep, GuardInv, HTypeOK
<1>1. [Next]_vars
  BY DEF HNext, hvars
<1>2. Holding(w)'
  BY DEF Unseating, Holding
<1>3. CASE Read(w)
  BY <1>3 DEF Read, tables, Owners, MembersOf, Exists
<1>4. CASE Kept(w)
  <2> DEFINE o == target[w].org
  <2>1. Holding(w) /\ req'[w] = req[w] /\ target'[w] = target[w]
    BY <1>4 DEF Kept
  <2>2. o \in Orgs /\ org[o] # "unissued"
    BY <2>1 DEF Serving, Membership, TargetsInv
  <2>3. o \notin shared /\ ~TwoOwners(o)'
    BY <2>1, <2>2, SharedRemembers
  <2>4. req[w].row \notin Owners(o)
    <3>1. CASE pc'[w] # pc[w]
      BY <1>4, <2>2, <2>3, <3>1 DEF Kept, TablesInv
    <3>2. CASE pc'[w] = pc[w]
      BY <2>1, <2>3, <3>2 DEF Unseating, UnseatingInv
    <3> QED
      BY <3>1, <3>2
  <2>5. ASSUME (req[w].row \in Owners(o))' PROVE FALSE
    <3>1. Exists(req[w].row)' /\ member'[req[w].row].org = o
             /\ req[w].row \in Rows
      BY <2>1, <2>5 DEF Owners, MembersOf
    <3>2. org'[o] = "live"
      BY <2>1, <3>1, RowsLive DEF Exists
    <3>3. org[o] = "live"
      BY <2>2, <3>2, StaysDeleted
    <3>4. PICK r \in Owners(o) : TRUE
      BY <2>2, <2>3, <3>3 DEF SoleOwnerKept
    <3>5. r \in Owners(o)'
      BY <2>1, <2>2, <2>3, <3>2, <3>4, OwnersChange, SharedUnseating
    <3>6. r # req[w].row
      BY <2>4, <3>4
    <3> QED
      BY <2>1, <2>3, <2>5, <3>5, <3>6 DEF TwoOwners
  <2> QED
    BY <2>5
<1> QED
  BY <1>1, <1>2, <1>3, <1>4, Holdings

\* A worker whose organization's Owners nobody changed since it read its target
\* still sees another Owner.
LEMMA FreshInvStep == GuardedStep => FreshInv'
<1> SUFFICES ASSUME GuardedStep, NEW w \in Workers, Unseating(w)', ~stale'[w],
                    req'[w].row \in Owners(target[w].org)'
             PROVE  TwoOwners(target[w].org)'
    BY DEF FreshInv
<1> USE DEF GuardedStep, GuardInv, HTypeOK
<1>1. [Next]_vars
  BY DEF HNext, hvars
<1>2. Holding(w)'
  BY DEF Unseating, Holding
<1>3. CASE Read(w)
  BY <1>3 DEF Read, tables, Owners, MembersOf, Exists
<1>4. CASE Kept(w)
  <2> DEFINE o == target[w].org
  <2>1. Holding(w) /\ req'[w] = req[w] /\ target'[w] = target[w]
    BY <1>4 DEF Kept
  <2>2. CASE pc'[w] # pc[w]
    <3>1. UNCHANGED tables /\ (req[w].row \notin Owners(o) \/ TwoOwners(o))
      BY <1>4, <2>1, <2>2 DEF Kept
    <3> QED
      BY <2>1, <3>1 DEF tables, TwoOwners, Owners, MembersOf, Exists
  <2>3. CASE pc'[w] = pc[w]
    <3>1. Unseating(w)
      BY <2>1, <2>3 DEF Unseating
    <3>2. target[w] # None /\ pc'[w] # "idle"
      BY <1>2, <2>1, NullAssumption DEF Serving, Holding
    <3>3. ~stale[w] /\ Owners(o)' = Owners(o)
      <4>1. CASE HNext
        BY <2>1, <3>2, <4>1 DEF HNext
      <4>2. CASE UNCHANGED hvars
        BY <4>2 DEF hvars, vars, Owners, MembersOf, Exists
      <4> QED
        BY <4>1, <4>2
    <3>4. TwoOwners(o)
      BY <2>1, <3>1, <3>3 DEF FreshInv
    <3> QED
      BY <2>1, <3>3, <3>4 DEF TwoOwners
  <2> QED
    BY <2>2, <2>3
<1> QED
  BY <1>1, <1>2, <1>3, <1>4, Holdings
-----------------------------------------------------------------------------
\* GuardInv is inductive, whatever the interleaving, for the operations of the
\* member endpoints and of the admin that count the Owners before they take one
\* away.
THEOREM GuardInvariant ==
    ASSUME Endpoints \subseteq GuardedOps
    PROVE  HSpec => []GuardInv
<1>1. HInit => GuardInv
  BY NullAssumption
     DEF HInit, Init, GuardInv, HTypeOK, TypeOK, Serving, TablesInv, TargetsInv,
         UnseatingInv, FreshInv, SoleOwnerKept, Holding, Unseating, TwoOwners,
         Owners, MembersOf, Exists
<1>2. GuardInv /\ [HNext]_hvars => GuardInv'
  <2> SUFFICES ASSUME GuardInv, [HNext]_hvars PROVE GuardInv'
      OBVIOUS
  <2>1. GuardedStep
    BY DEF GuardedStep
  <2>2. [Next]_vars
    BY DEF HNext, hvars
  <2>3. TypeOK' /\ Serving'
    BY <2>2, LocalsStep, TablesStep DEF GuardInv, HTypeOK, TypeOK, LocalsOK
  <2>4. HTypeOK'
    BY <2>3 DEF GuardInv, HTypeOK, HNext, hvars
  <2> QED
    BY <2>1, <2>3, <2>4, TablesInvStep, TargetsInvStep, UnseatingInvStep,
       FreshInvStep, SoleOwnerStep DEF GuardInv
<1> QED
  BY <1>1, <1>2, PTL DEF HSpec

\* However many workers serve the member requests, an organization that never
\* had two Owners at once keeps its Owner.
THEOREM SoleOwnerTheorem ==
    ASSUME Endpoints \subseteq GuardedOps
    PROVE  HSpec => []SoleOwnerKept
<1>1. GuardInv => SoleOwnerKept
  BY DEF GuardInv
<1> QED
  BY <1>1, GuardInvariant, PTL

\* With several Owners, only a request that acts on a stale read takes the last
\* one away.
THEOREM StaleWritesTheorem ==
    ASSUME Endpoints \subseteq GuardedOps
    PROVE  HSpec => OnlyStaleWritesOrphan
<1>1. ASSUME GuardInv, [HNext]_hvars, NEW o \in Orgs, Orphaning(o)
      PROVE  \E w \in Workers : stale[w] /\ LastStatement(w, o)
  <2>1. PICK r \in Owners(o) : r \notin Owners(o)'
    BY <1>1 DEF Orphaning
  <2>2. GuardedStep
    BY <1>1 DEF GuardedStep
  <2>3. PICK w \in Workers : Written(w)
    BY <1>1, <2>1, <2>2, OwnersChange DEF Orphaning
  <2>4. /\ req[w].row = r /\ target[w].org = o /\ Unseating(w)
        /\ \A s \in Rows \ {r} : member'[s] = member[s]
    BY <1>1, <2>1, <2>3, UnseatingWrite
  <2>5. ~TwoOwners(o)
    <3>1. ASSUME NEW s \in Owners(o), s # r PROVE s \in Owners(o)'
      BY <2>4, <3>1 DEF Owners, MembersOf, Exists
    <3> QED
      BY <1>1, <3>1 DEF TwoOwners, Orphaning
  <2>6. stale[w]
    BY <1>1, <2>1, <2>4, <2>5 DEF GuardInv, FreshInv
  <2> QED
    BY <2>3, <2>4, <2>6 DEF Written, LastStatement
<1>2. GuardInv /\ [HNext]_hvars => [OrphanedByStaleWrite]_hvars
  BY <1>1 DEF OrphanedByStaleWrite
<1> QED
  BY <1>2, GuardInvariant, PTL DEF HSpec, OnlyStaleWritesOrphan

\* The change that shows in an API request's step is its own statement's.
LEMMA ApiStatement ==
    ASSUME TypeOK, Next,
           NEW w \in Workers, NEW r \in Rows, ApiStep(w), member'[r] # member[r]
    PROVE  Step(w)
<1>1. ASSUME NEW v \in Workers, Step(v)
      PROVE  v = w
  BY <1>1
     DEF Step, LoadTarget, CountOwners, GuardDelete, WriteRole, DeleteRow, SaveOrg,
         DestroyOrg, CleanRole, CleanCount, SaveRow, Respond, Goto, ApiStep, TypeOK
<1> QED
  BY <1>1 DEF Next, CreateOrg, Join, LoadOrg, OpenAdminPage, AdminBulkDelete,
              AdminInline, ApiStep, locals, tables

(* Tenant isolation, for all operations but the change page that moves a   *)
(* membership to another organization.                                     *)

NoMoves == "adminChange" \notin Endpoints

\* The row of the target a worker holds is of the target's organization for as
\* long as it is there, and so is what a form inserts in its place.
PlacesInv ==
    \A w \in Workers :
        Holding(w) =>
           /\ member[req[w].row] # Unissued
           /\ Exists(req[w].row) => member[req[w].row].org = target[w].org
           /\ req[w].op # "adminDelete" => req[w].org = target[w].org
           /\ \A v \in Workers : Holding(v) /\ req[v].row = req[w].row
                                  => target[v].org = target[w].org

\* A row is never moved: what is in the table after a step was there in the same
\* organization, or is saved by a worker that holds it.
LEMMA RowPlaces ==
    ASSUME NoMoves, TypeOK, Serving, PlacesInv, Next,
           NEW r \in Rows, member[r] # Unissued
    PROVE  /\ member'[r] # Unissued
           /\ Exists(r)' => \/ Exists(r) /\ member'[r].org = member[r].org
                            \/ \E v \in Workers : /\ Holding(v) /\ req[v].row = r
                                                  /\ member'[r].org = target[v].org
<1> USE NullAssumption
<1>1. ASSUME member'[r] = member[r]
      PROVE  /\ member'[r] # Unissued
             /\ Exists(r)' => Exists(r) /\ member'[r].org = member[r].org
  BY <1>1 DEF Exists
<1>2. ASSUME member'[r] = Deleted
      PROVE  member'[r] # Unissued /\ ~Exists(r)'
  BY <1>2 DEF Exists
<1>3. ASSUME NEW v \in Workers, WriteRole(v)
      PROVE  \/ member'[r] = member[r]
             \/ \E role \in Role :
                   Exists(r) /\ member'[r] = [member[r] EXCEPT !.role = role]
  <2>1. req[v].role \in Role
    BY <1>3, RequestFields DEF WriteRole, Serving
  <2> QED
    BY <1>3, <2>1 DEF WriteRole, TypeOK
<1>4. ASSUME NEW v \in Workers, SaveRow(v), member'[r] # member[r]
      PROVE  /\ Holding(v) /\ req[v].row = r
             /\ member'[r] # Unissued /\ member'[r].org = target[v].org
  <2> DEFINE row == [user |-> target[v].user, org |-> req[v].org, role |-> req[v].role]
  <2>1. req[v].op = "adminRole" /\ req[v] \in Request
    BY <1>4 DEF SaveRow, Serving, NoMoves
  <2>2. Holding(v) /\ target[v] \in Membership /\ req[v].role \in Role
    BY <1>4, <2>1, RequestFields DEF SaveRow, Holding, Serving
  <2>3. req[v].org = target[v].org
    BY <2>1, <2>2 DEF PlacesInv
  <2>4. row \in Membership /\ row.org = target[v].org
    BY <2>2, <2>3 DEF Membership
  <2>5. req[v].row = r /\ member'[r] = row
    BY <1>4 DEF SaveRow, TypeOK
  <2> QED
    BY <2>2, <2>4, <2>5
<1>5. ASSUME NEW o \in Orgs, NEW demoted \in SUBSET MembersOf(o),
             NEW removed \in SUBSET MembersOf(o), NEW role \in Role,
             AdminInline(o, demoted, removed, role)
      PROVE  \/ member'[r] \in {member[r], Deleted}
             \/ Exists(r) /\ member'[r] = [member[r] EXCEPT !.role = role]
  BY <1>5 DEF AdminInline, MembersOf
<1>6. ASSUME NEW role \in Role, Exists(r), member'[r] = [member[r] EXCEPT !.role = role]
      PROVE  member'[r] # Unissued /\ member'[r].org = member[r].org
  <2>1. member[r] \in Membership
    BY <1>6 DEF TypeOK, Exists
  <2>2. [member[r] EXCEPT !.role = role] \in Membership
    BY <2>1 DEF Membership
  <2>3. [member[r] EXCEPT !.role = role].org = member[r].org
    BY <2>1 DEF Membership
  <2> QED
    BY <1>6, <2>2, <2>3
<1>7. ASSUME NEW w \in Workers, Step(w), ~WriteRole(w), ~SaveRow(w)
      PROVE  member'[r] \in {member[r], Deleted}
  BY <1>7 DEF Step, LoadTarget, CountOwners, GuardDelete, DeleteRow, SaveOrg, DestroyOrg,
              CleanRole, CleanCount, Goto, tables, TypeOK
<1>8. ASSUME NEW w \in Workers, Step(w)
      PROVE  \/ member'[r] \in {member[r], Deleted}
             \/ \E role \in Role :
                   Exists(r) /\ member'[r] = [member[r] EXCEPT !.role = role]
             \/ /\ Holding(w) /\ req[w].row = r
                /\ member'[r] # Unissued /\ member'[r].org = target[w].org
  BY <1>3, <1>4, <1>7, <1>8
<1>9. \/ member'[r] \in {member[r], Deleted}
      \/ \E role \in Role :
            Exists(r) /\ member'[r] = [member[r] EXCEPT !.role = role]
      \/ \E w \in Workers : Step(w)
  BY <1>5 DEF Next, CreateOrg, Join, LoadOrg, OpenAdminPage, AdminBulkDelete, tables,
              TypeOK
<1> QED
  BY <1>1, <1>2, <1>6, <1>8, <1>9

\* A worker that holds a target after a step held it before, or has just read it
\* in the organization of its request.
HeldBefore(w) == Holding(w) /\ req'[w] = req[w] /\ target'[w] = target[w]
JustRead(w) ==
    /\ UNCHANGED member
    /\ Exists(req'[w].row)
    /\ target'[w] = member[req'[w].row]
    /\ req'[w].op # "adminDelete" => req'[w].org = target'[w].org

LEMMA PlacesHeld ==
    ASSUME NoMoves, TypeOK, Serving, Next, NEW w \in Workers, Holding(w)'
    PROVE  HeldBefore(w) \/ JustRead(w)
<1> DEFINE Same(v) == pc'[v] = pc[v] /\ req'[v] = req[v] /\ target'[v] = target[v]
<1>0. ASSUME Same(w) PROVE HeldBefore(w)
  BY <1>0 DEF HeldBefore, Holding
<1>1. ASSUME NEW v \in Workers, NEW q \in Request, LoadOrg(v, q)
      PROVE  Same(w)
  <2>1. q.op \in ApiOps
    BY <1>1 DEF LoadOrg
  <2>2. w # v
    BY <1>1, <2>1 DEF LoadOrg, TypeOK, Holding
  <2> QED
    BY <1>1, <2>2 DEF LoadOrg, TypeOK
<1>2. ASSUME NEW v \in Workers, NEW q \in Request, OpenAdminPage(v, q)
      PROVE  Same(w) \/ JustRead(w)
  <2>1. CASE w # v
    BY <1>2, <2>1 DEF OpenAdminPage, TypeOK
  <2>2. CASE w = v
    <3>1. /\ req'[w] = q /\ target'[w] = member[q.row] /\ Exists(q.row)
          /\ UNCHANGED member
      BY <1>2, <2>2 DEF OpenAdminPage, TypeOK, tables
    <3>2. q.op \in {"adminDelete", "adminRole"}
      <4>1. q.op \in {"adminDelete", "adminRole", "adminChange"}
        BY <1>2 DEF Request, OpenAdminPage, StaffOps
      <4> QED
        BY <1>2, <4>1 DEF OpenAdminPage, NoMoves
    <3>3. q.op # "adminDelete" => q.org = member[q.row].org
      BY <1>2, <3>2 DEF OpenAdminPage
    <3> QED
      BY <3>1, <3>3 DEF JustRead
  <2> QED
    BY <2>1, <2>2
<1>3. ASSUME NEW v \in Workers, LoadTarget(v)
      PROVE  Same(w) \/ JustRead(w)
  <2>1. CASE w # v
    BY <1>3, <2>1 DEF LoadTarget, Respond, TypeOK
  <2>2. CASE w = v
    <3>1. TargetVisible(w) /\ MayManage(w)
      BY <1>3, <2>2 DEF LoadTarget, Respond, Holding, TypeOK
    <3>2. /\ req'[w] = req[w] /\ target'[w] = member[req[w].row] /\ UNCHANGED member
      BY <1>3, <2>2, <3>1 DEF LoadTarget, TypeOK, tables
    <3> QED
      BY <3>1, <3>2 DEF TargetVisible, MembersOf, JustRead
  <2> QED
    BY <2>1, <2>2
<1>4. ASSUME NEW v \in Workers,
             CountOwners(v) \/ GuardDelete(v) \/ CleanRole(v) \/ CleanCount(v)
      PROVE  Same(w) \/ HeldBefore(w)
  BY <1>4 DEF CountOwners, GuardDelete, CleanRole, CleanCount, Respond, Goto, TypeOK,
              Holding, HeldBefore
<1>5. ASSUME NEW v \in Workers,
             \/ WriteRole(v) \/ DeleteRow(v) \/ SaveOrg(v)
             \/ DestroyOrg(v) \/ SaveRow(v)
      PROVE  Same(w)
  <2>1. Respond(v)
    BY <1>5 DEF WriteRole, DeleteRow, SaveOrg, DestroyOrg, SaveRow
  <2> QED
    BY <2>1 DEF Respond, TypeOK, Holding
<1>6. CASE UNCHANGED locals
  BY <1>0, <1>6 DEF locals
<1> HIDE DEF Same
<1> QED
  BY <1>0, <1>1, <1>2, <1>3, <1>4, <1>5, <1>6
     DEF Next, Step, CreateOrg, Join, AdminBulkDelete, AdminInline

LEMMA PlacesStep ==
    ASSUME NoMoves, TypeOK, Serving, PlacesInv, Next
    PROVE  PlacesInv'
<1>1. Serving'
  BY LocalsStep
\* What w holds, whether kept or just read.
<1>2. ASSUME NEW w \in Workers, Holding(w)'
      PROVE  /\ member'[req'[w].row] # Unissued
             /\ Exists(req[w].row)' => member'[req'[w].row].org = target'[w].org
             /\ req'[w].op # "adminDelete" => req'[w].org = target'[w].org
  <2>1. req'[w].row \in Rows
    BY <1>1, <1>2 DEF Serving
  <2>2. CASE HeldBefore(w)
    <3>1. /\ member[req[w].row] # Unissued
          /\ Exists(req[w].row) => member[req[w].row].org = target[w].org
          /\ req[w].op # "adminDelete" => req[w].org = target[w].org
          /\ \A v \in Workers : Holding(v) /\ req[v].row = req[w].row
                                  => target[v].org = target[w].org
      BY <2>2 DEF HeldBefore, PlacesInv
    <3> QED
      BY <2>1, <2>2, <3>1, RowPlaces DEF HeldBefore
  <2>3. CASE JustRead(w)
    BY <2>3 DEF JustRead, Exists
  <2> QED
    BY <1>2, <2>2, <2>3, PlacesHeld
\* Two workers that hold the same row agree on its organization.
<1>3. ASSUME NEW w \in Workers, NEW v \in Workers, Holding(w)', Holding(v)',
             req'[v].row = req'[w].row
      PROVE  target'[v].org = target'[w].org
  <2>1. (HeldBefore(w) \/ JustRead(w)) /\ (HeldBefore(v) \/ JustRead(v))
    BY <1>3, PlacesHeld
  <2>2. CASE HeldBefore(w) /\ HeldBefore(v)
    BY <1>3, <2>2 DEF HeldBefore, PlacesInv
  <2>3. CASE JustRead(w) \/ JustRead(v)
    <3>1. Exists(req[w].row)'
      BY <1>3, <2>3 DEF JustRead, Exists
    <3> QED
      BY <1>2, <1>3, <3>1
  <2> QED
    BY <2>1, <2>2, <2>3
<1> QED
  BY <1>2, <1>3 DEF PlacesInv

\* The membership an API request changes is that of its path, or one of the
\* organization it destroys; its organization is the one of its path.
LEMMA ApiWrite ==
    ASSUME TypeOK, Serving, PlacesInv, Next,
           NEW w \in Workers, NEW r \in Rows, ApiStep(w), member'[r] # member[r]
    PROVE  Exists(r) /\ member[r].org = req[w].org
<1>1. Step(w)
  BY ApiStatement
<1>2. CASE DestroyOrg(w)
  BY <1>2 DEF DestroyOrg, MembersOf
<1>3. CASE WriteRole(w) \/ DeleteRow(w)
  <2>1. req[w] \in Request /\ req[w].op \in {"remove", "setRole"}
    BY <1>3 DEF WriteRole, DeleteRow, Serving, ApiStep, ApiOps
  <2>2. req[w].row # None /\ Holding(w)
    BY <1>3, <2>1, RequestFields DEF WriteRole, DeleteRow, Holding
  <2>3. r = req[w].row
    BY <1>3 DEF WriteRole, DeleteRow, TypeOK
  <2>4. Exists(r)
    <3>1. member[r] # Unissued
      BY <2>2, <2>3 DEF PlacesInv
    <3>2. member[r] # Deleted
      BY <1>3, <2>3 DEF WriteRole, DeleteRow, TypeOK, Exists
    <3> QED
      BY <3>1, <3>2 DEF Exists
  <2>5. member[r].org = target[w].org /\ req[w].org = target[w].org
    BY <2>1, <2>2, <2>3, <2>4 DEF PlacesInv
  <2> QED
    BY <2>4, <2>5
<1> QED
  BY <1>1, <1>2, <1>3
     DEF Step, LoadTarget, CountOwners, GuardDelete, SaveOrg, CleanRole, CleanCount,
         SaveRow, Goto, tables, ApiStep, ApiOps

\* Tenant isolation (organizations/views.py): unless staff move memberships, the
\* stale target an API request writes is still one of the organization of its
\* path, whatever else staff do, and whoever renames or deletes organizations.
THEOREM IsolationTheorem ==
    ASSUME NoMoves
    PROVE  Spec => TenantIsolation
<1>1. Init => PlacesInv
  BY DEF Init, PlacesInv, Holding
<1>2. TypeOK /\ Serving /\ PlacesInv /\ [Next]_vars => PlacesInv'
  <2>1. PlacesInv /\ UNCHANGED vars => PlacesInv'
    BY DEF PlacesInv, vars, Holding, Exists
  <2> QED
    BY <2>1, PlacesStep
<1>3. TypeOK /\ Serving /\ PlacesInv /\ [Next]_vars
        => [\A w \in Workers, r \in Rows :
              ApiStep(w) /\ member'[r] # member[r]
                 => Exists(r) /\ member[r].org = req[w].org]_vars
  BY ApiWrite
<1> QED
  BY <1>1, <1>2, <1>3, TypeCorrect, PTL DEF Spec, TenantIsolation
=============================================================================
