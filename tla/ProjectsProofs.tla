--------------------------- MODULE ProjectsProofs ---------------------------
(***************************************************************************)
(* What module Projects promises, for any users, organizations, workers,   *)
(* projects, plans and number of changes.                                  *)
(***************************************************************************)
EXTENDS Projects, FiniteSetTheorems, TLAPS

\* A request whose caller's membership has not changed since still has it.
CallersInv ==
    \A w \in Workers \ stale :
       job[w] # Idle => /\ job[w].by.role # NoRole
                        /\ role[job[w].by.org][job[w].by.user] = job[w].by.role

\* A request that is about to write a project has read it in its organization
\* and may write it; the row is as it was read, or gone.
WritesInv ==
    \A w \in Workers : At(w, "write") =>
       LET p == job[w].project
           r == job[w].row
       IN /\ r.org = job[w].by.org
          /\ MayWrite(job[w].by, r)
          /\ project[p] \in {Deleted, r}
          /\ \A v \in Workers : At(v, "write") /\ job[v].project = p => job[v].row = r

IInv == TypeOK /\ CallersInv /\ WritesInv
-----------------------------------------------------------------------------
\* What a worker at a given point has read.
LEMMA Locals ==
    ASSUME TypeOK, NEW w \in Workers, job[w] # Idle
    PROVE  /\ job[w] \in Job
           /\ job[w].by \in Caller
           /\ At(w, "write") => job[w].project \in ProjectIds /\ job[w].row \in Project
           /\ At(w, "count") => job[w].limit \in Nat
  BY DEF TypeOK, Job, At

\* The end of a request clears its locals and gives back what it locked.
LEMMA Ends ==
    ASSUME TypeOK, NEW w \in Workers, EndRequest(w)
    PROVE  /\ holder' \in [Orgs -> Workers \cup {Nobody}]
           /\ job' \in [Workers -> Job \cup {Idle}]
           /\ stale' \subseteq Workers
           /\ stale' = stale \ {w}
           /\ \A v \in Workers : job'[v] = IF v = w THEN Idle ELSE job[v]
  BY DEF TypeOK, EndRequest, Become

\* A cap that is no number is Unlimited.
LEMMA Caps ==
    ASSUME TypeOK, NEW o \in Orgs
    PROVE  CapOf(o) \in Nat \/ CapOf(o) = Unlimited
  BY ProjectsAssumption DEF TypeOK, CapOf

LEMMA InitIInv == Init => IInv
  <1> SUFFICES ASSUME Init PROVE IInv  OBVIOUS
  <1>1. TypeOK  BY ProjectsAssumption DEF Init, TypeOK, Role
  <1>2. CallersInv  BY DEF Init, CallersInv
  <1>3. WritesInv  BY DEF Init, WritesInv, At
  <1> QED  BY <1>1, <1>2, <1>3 DEF IInv

LEMMA NextTypeOK ==
    ASSUME TypeOK, Next
    PROVE  TypeOK'
  <1>1. ASSUME NEW w \in Workers, NEW u \in Users, NEW o \in Orgs, Resolve(w, u, o)
        PROVE  TypeOK'
    <2>1. role[o][u] \in Role  BY <1>1 DEF Resolve, TypeOK
    <2> QED  BY <1>1, <2>1 DEF Resolve, Become, tables, TypeOK, Job, Caller
  <1>2. ASSUME NEW w \in Workers, LockBilling(w)
        PROVE  TypeOK'
    BY <1>2, Locals DEF LockBilling, Become, At, tables, TypeOK, Job
  <1>3. ASSUME NEW w \in Workers, NEW p \in ProjectIds, LoadProject(w, p)
        PROVE  TypeOK'
    <2>1. CASE EndRequest(w)
      BY <1>3, <2>1, Ends DEF LoadProject, tables, TypeOK
    <2>2. CASE Become(w, [pc |-> "write", by |-> job[w].by, project |-> p,
                          row |-> project[p]])
               /\ UNCHANGED <<holder, stale>>
      <3>1. project[p] \in Project /\ job[w].by \in Caller
        BY <1>3, Locals DEF LoadProject, Visible, ProjectsOf, Exists, TypeOK, At
      <3> QED  BY <1>3, <2>2, <3>1 DEF LoadProject, Become, tables, TypeOK, Job
    <2> QED  BY <1>3, <2>1, <2>2 DEF LoadProject
  <1>4. ASSUME NEW w \in Workers, ReadLimit(w)
        PROVE  TypeOK'
    <2>1. job[w].by \in Caller /\ job[w].by.org \in Orgs
      BY <1>4, Locals DEF ReadLimit, At, Caller
    <2> QED  BY <1>4, <2>1, Caps DEF ReadLimit, Become, tables, TypeOK, Job
  <1>5. ASSUME NEW w \in Workers, CountProjects(w)
        PROVE  TypeOK'
    <2>1. CASE EndRequest(w)
      BY <1>5, <2>1, Ends DEF CountProjects, tables, TypeOK
    <2>2. CASE Become(w, [pc |-> "create", by |-> job[w].by]) /\ UNCHANGED <<holder, stale>>
      BY <1>5, <2>2, Locals DEF CountProjects, At, Become, tables, TypeOK, Job
    <2> QED  BY <1>5, <2>1, <2>2 DEF CountProjects
  <1>6. ASSUME NEW w \in Workers, CreateProject(w)
        PROVE  TypeOK'
    <2>1. [org |-> job[w].by.org, creator |-> job[w].by.user] \in Project
      BY <1>6, Locals DEF CreateProject, At, Caller, Project
    <2>2. project' \in [ProjectIds -> Project \cup {Unissued, Deleted}]
      BY <1>6, <2>1 DEF CreateProject, TypeOK
    <2> QED  BY <1>6, <2>2, Ends DEF CreateProject, TypeOK
  <1>7. ASSUME NEW w \in Workers, SaveProject(w)
        PROVE  TypeOK'
    <2>1. job[w].row \in Project /\ job[w].project \in ProjectIds
      BY <1>7, Locals DEF SaveProject, At
    <2> QED  BY <1>7, <2>1, Ends DEF SaveProject, TypeOK
  <1>8. ASSUME NEW w \in Workers, DeleteProject(w)
        PROVE  TypeOK'
    BY <1>8, Ends DEF DeleteProject, TypeOK
  <1>9. ASSUME NEW o \in Orgs, NEW u \in Users, NEW r \in RolesUsed, ChangeRole(o, u, r)
        PROVE  TypeOK'
    BY <1>9, ProjectsAssumption DEF ChangeRole, Change, TypeOK
  <1>10. ASSUME NEW o \in Orgs, NEW p \in Plans, ChangePlan(o, p)
         PROVE  TypeOK'
    BY <1>10, ProjectsAssumption DEF ChangePlan, Change, TypeOK
  <1>11. ASSUME NEW o \in Orgs, DestroyOrg(o)
         PROVE  TypeOK'
    BY <1>11, ProjectsAssumption DEF DestroyOrg, Change, TypeOK
  <1> QED
    BY <1>1, <1>2, <1>3, <1>4, <1>5, <1>6, <1>7, <1>8, <1>9, <1>10, <1>11
       DEF Next, Choose, Statement

\* A membership changes under a request only by making it stale.
LEMMA NextCallers ==
    ASSUME TypeOK, CallersInv, Next
    PROVE  CallersInv'
  <1>1. ASSUME NEW w \in Workers, NEW u \in Users, NEW o \in Orgs, Resolve(w, u, o)
        PROVE  CallersInv'
    BY <1>1 DEF Resolve, Become, tables, TypeOK, CallersInv
  <1>2. ASSUME NEW w \in Workers,
               \/ LockBilling(w) \/ ReadLimit(w)
               \/ \E pc : job' = [job EXCEPT ![w] = [pc |-> pc, by |-> job[w].by]]
                         /\ UNCHANGED <<role, stale>> /\ job[w] # Idle
               \/ \E p \in ProjectIds :
                     job' = [job EXCEPT ![w] = [pc |-> "write", by |-> job[w].by,
                                                project |-> p, row |-> project[p]]]
                     /\ UNCHANGED <<role, stale>> /\ job[w] # Idle
        PROVE  CallersInv'
    BY <1>2 DEF LockBilling, ReadLimit, At, Become, tables, TypeOK, CallersInv
  <1>3. ASSUME NEW w \in Workers, EndRequest(w), UNCHANGED role
        PROVE  CallersInv'
    BY <1>3, Ends DEF CallersInv
  <1>4. ASSUME NEW w \in Workers, NEW p \in ProjectIds, LoadProject(w, p)
        PROVE  CallersInv'
    BY <1>2, <1>3, <1>4 DEF LoadProject, At, Become, tables
  <1>5. ASSUME NEW w \in Workers, CountProjects(w)
        PROVE  CallersInv'
    BY <1>2, <1>3, <1>5 DEF CountProjects, At, Become, tables
  <1>6. ASSUME NEW w \in Workers, CreateProject(w) \/ SaveProject(w) \/ DeleteProject(w)
        PROVE  CallersInv'
    BY <1>3, <1>6 DEF CreateProject, SaveProject, DeleteProject
  <1>7. ASSUME NEW o \in Orgs, NEW u \in Users, NEW r \in RolesUsed, ChangeRole(o, u, r)
        PROVE  CallersInv'
    BY <1>7, Locals DEF ChangeRole, TypeOK, CallersInv, Caller
  <1>8. ASSUME NEW o \in Orgs, NEW p \in Plans, ChangePlan(o, p)
        PROVE  CallersInv'
    BY <1>8 DEF ChangePlan, CallersInv
  <1>9. ASSUME NEW o \in Orgs, DestroyOrg(o)
        PROVE  CallersInv'
    BY <1>9, Locals DEF DestroyOrg, TypeOK, CallersInv, Caller
  <1> QED
    BY <1>1, <1>2, <1>4, <1>5, <1>6, <1>7, <1>8, <1>9 DEF Next, Choose, Statement

\* A row is written as it was read, inserted under a key never used, or deleted:
\* whoever holds it holds what is there, or what was.
LEMMA NextWrites ==
    ASSUME TypeOK, WritesInv, Next
    PROVE  WritesInv'
  <1> USE DEF At, MayWrite
  <1>1. ASSUME NEW w \in Workers, NEW u \in Users, NEW o \in Orgs, Resolve(w, u, o)
        PROVE  WritesInv'
    BY <1>1 DEF Resolve, Become, tables, TypeOK, WritesInv
  <1>2. ASSUME NEW w \in Workers, LockBilling(w) \/ ReadLimit(w)
        PROVE  WritesInv'
    BY <1>2 DEF LockBilling, ReadLimit, Become, tables, TypeOK, WritesInv
  <1>3. ASSUME NEW w \in Workers, EndRequest(w), UNCHANGED project
        PROVE  WritesInv'
    BY <1>3, Ends DEF WritesInv
  <1>4. ASSUME NEW w \in Workers, NEW p \in ProjectIds, LoadProject(w, p)
        PROVE  WritesInv'
    <2>1. CASE EndRequest(w)
      BY <1>3, <1>4, <2>1 DEF LoadProject, tables
    <2>2. CASE ~EndRequest(w)
      <3>1. /\ project[p] \in Project /\ project[p].org = job[w].by.org
            /\ MayWrite(job[w].by, project[p])
        BY <1>4, <2>2 DEF LoadProject, Visible, ProjectsOf, Exists, TypeOK
      <3>2. /\ job' = [job EXCEPT ![w] = [pc |-> "write", by |-> job[w].by, project |-> p,
                                          row |-> project[p]]]
            /\ UNCHANGED project
        BY <1>4, <2>2 DEF LoadProject, Become, tables
      <3>3. \A v \in Workers : At(v, "write") /\ job[v].project = p => job[v].row = project[p]
        BY <3>1, ProjectsAssumption DEF WritesInv
      <3> QED  BY <3>1, <3>2, <3>3 DEF TypeOK, WritesInv
    <2> QED  BY <2>1, <2>2
  <1>5. ASSUME NEW w \in Workers, CountProjects(w)
        PROVE  WritesInv'
    <2>1. CASE EndRequest(w)
      BY <1>3, <1>5, <2>1 DEF CountProjects, tables
    <2>2. CASE ~EndRequest(w)
      BY <1>5, <2>2 DEF CountProjects, Become, tables, TypeOK, WritesInv
    <2> QED  BY <2>1, <2>2
  <1>6. ASSUME NEW w \in Workers, CreateProject(w)
        PROVE  WritesInv'
    <2>1. ASSUME NEW v \in Workers, At(v, "write")
          PROVE  project'[job[v].project] = project[job[v].project]
      <3>1. job[v].project \in ProjectIds /\ job[v].row \in Project  BY <2>1, Locals
      <3>2. project[job[v].project] # Unissued
        BY <2>1, <3>1, ProjectsAssumption DEF WritesInv
      <3> QED  BY <1>6, <3>1, <3>2 DEF CreateProject, TypeOK
    <2> QED  BY <1>6, <2>1, Ends DEF CreateProject, WritesInv
  <1>7. ASSUME NEW w \in Workers, SaveProject(w)
        PROVE  WritesInv'
    <2>1. ASSUME NEW v \in Workers, At(v, "write")
          PROVE  project'[job[v].project] \in {Deleted, job[v].row}
      <3>1. job[v].project \in ProjectIds  BY <2>1, Locals
      <3> QED  BY <1>7, <2>1, <3>1 DEF SaveProject, WritesInv, TypeOK
    <2> QED  BY <1>7, <2>1, Ends DEF SaveProject, WritesInv
  <1>8. ASSUME NEW w \in Workers, DeleteProject(w)
        PROVE  WritesInv'
    <2>1. ASSUME NEW v \in Workers, At(v, "write")
          PROVE  project'[job[v].project] \in {Deleted, job[v].row}
      <3>1. job[v].project \in ProjectIds  BY <2>1, Locals
      <3> QED  BY <1>8, <2>1, <3>1 DEF DeleteProject, WritesInv, TypeOK
    <2> QED  BY <1>8, <2>1, Ends DEF DeleteProject, WritesInv
  <1>9. ASSUME UNCHANGED <<job, project>>
        PROVE  WritesInv'
    BY <1>9 DEF WritesInv
  <1>10. ASSUME NEW o \in Orgs, DestroyOrg(o)
         PROVE  WritesInv'
    <2>1. ASSUME NEW v \in Workers, At(v, "write")
          PROVE  project'[job[v].project] \in {Deleted, job[v].row}
      <3>1. job[v].project \in ProjectIds  BY <2>1, Locals
      <3> QED  BY <1>10, <2>1, <3>1 DEF DestroyOrg, WritesInv, TypeOK
    <2> QED  BY <1>10, <2>1 DEF DestroyOrg, WritesInv
  <1> QED
    BY <1>1, <1>2, <1>4, <1>5, <1>6, <1>7, <1>8, <1>9, <1>10
       DEF Next, Choose, Statement, ChangeRole, ChangePlan

LEMMA StepIInv == IInv /\ [Next]_vars => IInv'
  <1>1. IInv /\ Next => IInv'
    BY NextTypeOK, NextCallers, NextWrites DEF IInv
  <1>2. ASSUME IInv, UNCHANGED vars
        PROVE  IInv'
    <2> USE <1>2 DEF vars, tables
    <2>1. TypeOK'  BY DEF IInv, TypeOK
    <2>2. CallersInv'  BY DEF IInv, CallersInv
    <2>3. WritesInv'  BY DEF IInv, WritesInv, At, MayWrite
    <2> QED  BY <2>1, <2>2, <2>3 DEF IInv
  <1> QED  BY <1>1, <1>2
-----------------------------------------------------------------------------
\* The tables and the locals of every request are well-typed
\* (projects/models.py, projects/views.py).
THEOREM ProjectsTypeCorrect == Spec => []TypeOK
  <1>1. IInv => TypeOK  BY DEF IInv
  <1> QED  BY <1>1, InitIInv, StepIInv, PTL DEF Spec

\* The write that ends a request is one its caller may do.
LEMMA StepAuthorized ==
    ASSUME IInv, Next,
           NEW w \in Workers, NEW p \in ProjectIds,
           job[w] # Idle, job'[w] = Idle, project'[p] # project[p],
           NEW row \in {project[p], project'[p]} \cap Project
    PROVE  Authorized(w, row)
  <1> USE DEF IInv
  <1>1. w \in stale \/ role[job[w].by.org][job[w].by.user] = job[w].by.role
    BY DEF CallersInv
  <1>2. ASSUME NEW v \in Workers, v # w, EndRequest(v)
        PROVE  FALSE
    BY <1>2, Ends
  <1>3. ASSUME NEW v \in Workers, CreateProject(v)
        PROVE  Authorized(w, row)
    <2>1. v = w  BY <1>2, <1>3 DEF CreateProject
    <2>2. row = [org |-> job[w].by.org, creator |-> job[w].by.user]
      BY <1>3, <2>1, ProjectsAssumption DEF CreateProject, TypeOK
    <2> QED  BY <1>1, <2>2 DEF Authorized
  <1>4. ASSUME NEW v \in Workers, SaveProject(v) \/ DeleteProject(v)
        PROVE  Authorized(w, row)
    <2>1. v = w /\ At(w, "write")  BY <1>2, <1>4 DEF SaveProject, DeleteProject
    <2>2. job[w].project = p /\ row = job[w].row
      BY <1>4, <2>1, ProjectsAssumption DEF SaveProject, DeleteProject, TypeOK, WritesInv
    <2> QED  BY <1>1, <2>1, <2>2 DEF Authorized, WritesInv, MayWrite
  <1>5. ASSUME NEW v \in Workers, LockBilling(v) \/ ReadLimit(v) \/ CountProjects(v)
                                  \/ \E q \in ProjectIds : LoadProject(v, q)
        PROVE  FALSE
    BY <1>5 DEF LockBilling, ReadLimit, CountProjects, LoadProject, tables
  <1>6. ASSUME NEW v \in Workers, NEW u \in Users, NEW o \in Orgs, Resolve(v, u, o)
        PROVE  FALSE
    BY <1>6 DEF Resolve, tables
  <1>7. job' # job
    OBVIOUS
  <1> QED
    BY <1>3, <1>4, <1>5, <1>6, <1>7
       DEF Next, Choose, Statement, ChangeRole, ChangePlan, DestroyOrg

\* Isolation and roles (core/permissions.py, projects/permissions.py): whoever
\* writes a project acts in its organization and may, by the membership their
\* request resolved, which they still have unless it changed meanwhile.
THEOREM WritersTheorem == Spec => WritersAuthorized
  <1>1. IInv /\ [Next]_vars
          => [\A w \in Workers, p \in ProjectIds :
                job[w] # Idle /\ job'[w] = Idle /\ project'[p] # project[p]
                   => \A row \in {project[p], project'[p]} \cap Project :
                         Authorized(w, row)]_vars
    BY StepAuthorized DEF vars
  <1> QED  BY <1>1, InitIInv, StepIInv, PTL DEF Spec, WritersAuthorized
-----------------------------------------------------------------------------
(* The cap.                                                                *)

Creating(w) == At(w, "limit") \/ At(w, "count") \/ At(w, "create")

\* The projects that count: those no update inserted again.
Created(o) == ProjectsOf(o) \ revived

\* A creation in an organization that exists holds its billing row; what it has
\* read of the plan still holds, and what it has counted leaves room.
RoomInv ==
    \A w \in Workers, o \in live :
       Creating(w) /\ job[w].by.org = o =>
          /\ holder[o] = w
          /\ At(w, "count") => CapOf(o) = job[w].limit
          /\ At(w, "create") =>
                \/ CapOf(o) = Unlimited
                \/ CapOf(o) \in Nat /\ Cardinality(Created(o)) < CapOf(o)

LEMMA CreatedFinite ==
    ASSUME NEW o
    PROVE  /\ IsFiniteSet(ProjectsOf(o)) /\ IsFiniteSet(Created(o))
           /\ Cardinality(ProjectsOf(o)) \in Nat /\ Cardinality(Created(o)) \in Nat
           /\ Cardinality(Created(o)) <= Cardinality(ProjectsOf(o))
  <1>1. ProjectsOf(o) \subseteq ProjectIds /\ Created(o) \subseteq ProjectsOf(o)
    BY DEF ProjectsOf, Created
  <1>2. IsFiniteSet(ProjectsOf(o))  BY <1>1, FS_Subset, ProjectsAssumption
  <1> QED  BY <1>1, <1>2, FS_Subset, FS_CardinalityType

\* Only CreateProject adds to the projects that count, and only to the
\* organization it acts for.
LEMMA CreatedMoves ==
    ASSUME TypeOK, WritesInv, Next, NEW o \in Orgs
    PROVE  \/ Created(o)' \subseteq Created(o)
           \/ \E w \in Workers, p \in ProjectIds :
                 /\ CreateProject(w) /\ job[w].by.org = o
                 /\ Created(o)' \subseteq Created(o) \cup {p}
  <1> USE DEF Created, ProjectsOf, Exists
  <1>1. ASSUME NEW w \in Workers, CreateProject(w)
        PROVE  \/ Created(o)' \subseteq Created(o)
               \/ /\ job[w].by.org = o
                  /\ \E p \in ProjectIds : Created(o)' \subseteq Created(o) \cup {p}
    <2> DEFINE by == job[w].by
    <2>1. CASE UNCHANGED project
      BY <1>1, <2>1 DEF CreateProject
    <2>2. CASE project' # project
      <3>1. PICK p \in ProjectIds :
               project' = [project EXCEPT ![p] = [org |-> by.org, creator |-> by.user]]
        BY <1>1, <2>2 DEF CreateProject
      <3>2. \A q \in ProjectIds : q # p => project'[q] = project[q]
        BY <3>1 DEF TypeOK
      <3>3. project'[p].org = by.org
        BY <3>1 DEF TypeOK
      <3>4. UNCHANGED revived  BY <1>1 DEF CreateProject
      <3> QED  BY <3>2, <3>3, <3>4
    <2> QED  BY <2>1, <2>2
  <1>2. ASSUME NEW w \in Workers, SaveProject(w)
        PROVE  Created(o)' \subseteq Created(o)
    <2> DEFINE p == job[w].project
    <2>1. p \in ProjectIds /\ project[p] \in {Deleted, job[w].row} /\ job[w].row \in Project
      BY <1>2, Locals DEF SaveProject, WritesInv, At
    <2>2. CASE Exists(p)
      <3>1. project[p] = job[w].row /\ UNCHANGED revived
        BY <1>2, <2>1, <2>2 DEF SaveProject
      <3>2. UNCHANGED project
        BY <1>2, <2>1, <3>1 DEF SaveProject, TypeOK
      <3> QED  BY <3>1, <3>2
    <2>3. CASE ~Exists(p)
      <3>1. UNCHANGED <<project, revived>> \/
            (project' = [project EXCEPT ![p] = job[w].row] /\ revived' = revived \cup {p})
        BY <1>2, <2>3 DEF SaveProject
      <3> QED  BY <2>1, <3>1 DEF TypeOK
    <2> QED  BY <2>2, <2>3
  <1>3. ASSUME NEW w \in Workers, DeleteProject(w)
        PROVE  Created(o)' \subseteq Created(o)
    BY <1>3 DEF DeleteProject, TypeOK
  <1>4. ASSUME NEW q \in Orgs, DestroyOrg(q)
        PROVE  Created(o)' \subseteq Created(o)
    BY <1>4 DEF DestroyOrg, TypeOK
  <1>5. ASSUME UNCHANGED <<project, revived>>
        PROVE  Created(o)' \subseteq Created(o)
    BY <1>5
  <1>6. \/ UNCHANGED <<project, revived>>
        \/ \E w \in Workers : CreateProject(w) \/ SaveProject(w) \/ DeleteProject(w)
        \/ \E q \in Orgs : DestroyOrg(q)
    BY DEF Next, Choose, Statement, Resolve, LockBilling, LoadProject, ReadLimit,
           CountProjects, ChangeRole, ChangePlan, tables
  <1> QED  BY <1>1, <1>2, <1>3, <1>4, <1>5, <1>6

\* The tables RoomInv is about, under any step: organizations never come back, a
\* held row keeps its holder and its plan.
LEMMA HeldRow ==
    ASSUME TypeOK, Next, NEW o \in Orgs, NEW w \in Workers, holder[o] = w
    PROVE  /\ live' \subseteq live
           /\ CapOf(o)' = CapOf(o)
           /\ holder'[o] = w \/ job'[w] = Idle
  <1> USE ProjectsAssumption DEF CapOf
  <1>1. ASSUME NEW v \in Workers, EndRequest(v), UNCHANGED <<live, plan>>
        PROVE  /\ live' \subseteq live
               /\ CapOf(o)' = CapOf(o)
               /\ holder'[o] = w \/ job'[w] = Idle
    BY <1>1 DEF EndRequest, Become, TypeOK
  <1>2. ASSUME UNCHANGED <<live, plan, holder>>
        PROVE  /\ live' \subseteq live
               /\ CapOf(o)' = CapOf(o)
               /\ holder'[o] = w \/ job'[w] = Idle
    BY <1>2
  <1>3. ASSUME NEW v \in Workers, LockBilling(v)
        PROVE  /\ live' \subseteq live
               /\ CapOf(o)' = CapOf(o)
               /\ holder'[o] = w \/ job'[w] = Idle
    BY <1>3 DEF LockBilling, tables, TypeOK
  <1>4. ASSUME NEW q \in Orgs, NEW p \in Plans, ChangePlan(q, p)
        PROVE  /\ live' \subseteq live
               /\ CapOf(o)' = CapOf(o)
               /\ holder'[o] = w \/ job'[w] = Idle
    BY <1>4 DEF ChangePlan, TypeOK
  <1>5. ASSUME NEW q \in Orgs, DestroyOrg(q)
        PROVE  /\ live' \subseteq live
               /\ CapOf(o)' = CapOf(o)
               /\ holder'[o] = w \/ job'[w] = Idle
    BY <1>5 DEF DestroyOrg, TypeOK
  <1>6. \/ UNCHANGED <<live, plan, holder>>
        \/ \E v \in Workers : LockBilling(v)
        \/ \E v \in Workers : EndRequest(v) /\ UNCHANGED <<live, plan>>
        \/ \E q \in Orgs, p \in Plans : ChangePlan(q, p)
        \/ \E q \in Orgs : DestroyOrg(q)
    BY DEF Next, Choose, Statement, Resolve, LoadProject, ReadLimit, CountProjects,
           CreateProject, SaveProject, DeleteProject, ChangeRole, tables
  <1> QED  BY <1>1, <1>2, <1>3, <1>4, <1>5, <1>6

\* What a step does to a request that creates.
LEMMA CreationMoves ==
    ASSUME TypeOK, Next, NEW w \in Workers, Creating(w)'
    PROVE  \/ job'[w] = job[w]
           \/ /\ LockBilling(w) /\ At(w, "limit")' /\ job'[w].by = job[w].by
           \/ /\ ReadLimit(w) /\ job'[w].by = job[w].by /\ UNCHANGED <<tables, holder, revived>>
              /\ \/ At(w, "create")' /\ CapOf(job[w].by.org) = Unlimited
                 \/ At(w, "count")' /\ job'[w].limit = CapOf(job[w].by.org)
           \/ /\ CountProjects(w) /\ job'[w].by = job[w].by
              /\ UNCHANGED <<tables, holder, revived>>
              /\ At(w, "create")'
              /\ Cardinality(ProjectsOf(job[w].by.org)) < job[w].limit
  <1> DEFINE P == \/ job'[w] = job[w]
                  \/ /\ LockBilling(w) /\ At(w, "limit")' /\ job'[w].by = job[w].by
                  \/ /\ ReadLimit(w) /\ job'[w].by = job[w].by
                     /\ UNCHANGED <<tables, holder, revived>>
                     /\ \/ At(w, "create")' /\ CapOf(job[w].by.org) = Unlimited
                        \/ At(w, "count")' /\ job'[w].limit = CapOf(job[w].by.org)
                  \/ /\ CountProjects(w) /\ job'[w].by = job[w].by
                     /\ UNCHANGED <<tables, holder, revived>>
                     /\ At(w, "create")'
                     /\ Cardinality(ProjectsOf(job[w].by.org)) < job[w].limit
  <1>1. ASSUME NEW v \in Workers, NEW j, v # w, Become(v, j)
        PROVE  P
    BY <1>1 DEF Become, TypeOK
  <1>2. ASSUME NEW v \in Workers, EndRequest(v)
        PROVE  P
    BY <1>2 DEF EndRequest, Become, TypeOK, Creating, At
  <1>3. ASSUME NEW v \in Workers, NEW u \in Users, NEW o \in Orgs, Resolve(v, u, o)
        PROVE  P
    BY <1>3 DEF Resolve, Become, TypeOK, Creating, At
  <1>4. ASSUME NEW v \in Workers, LockBilling(v)
        PROVE  P
    <2>1. v = w \/ P  BY <1>1, <1>4 DEF LockBilling
    <2>2. CASE v = w
      BY <1>4, <2>2 DEF LockBilling, Become, TypeOK, Creating, At
    <2> QED  BY <2>1, <2>2
  <1>5. ASSUME NEW v \in Workers, ReadLimit(v)
        PROVE  P
    <2>1. v = w \/ P  BY <1>1, <1>5 DEF ReadLimit
    <2>2. CASE v = w
      <3>1. UNCHANGED <<tables, holder, revived>>  BY <1>5 DEF ReadLimit
      <3>2. CASE CapOf(job[w].by.org) = Unlimited
        BY <1>5, <2>2, <3>1, <3>2 DEF ReadLimit, Become, TypeOK, Creating, At
      <3>3. CASE CapOf(job[w].by.org) # Unlimited
        BY <1>5, <2>2, <3>1, <3>3 DEF ReadLimit, Become, TypeOK, Creating, At
      <3> QED  BY <3>2, <3>3
    <2> QED  BY <2>1, <2>2
  <1>6. ASSUME NEW v \in Workers, CountProjects(v)
        PROVE  P
    <2>1. v = w \/ P  BY <1>1, <1>2, <1>6 DEF CountProjects
    <2>2. CASE v = w /\ ~EndRequest(v)
      BY <1>6, <2>2 DEF CountProjects, Become, TypeOK, Creating, At, tables
    <2> QED  BY <1>2, <2>1, <2>2
  <1>7. ASSUME NEW v \in Workers, NEW p \in ProjectIds, LoadProject(v, p)
        PROVE  P
    <2>1. CASE EndRequest(v)  BY <1>2, <2>1
    <2>2. CASE ~EndRequest(v)
      BY <1>7, <2>2 DEF LoadProject, Become, TypeOK, Creating, At
    <2> QED  BY <2>1, <2>2
  <1>8. ASSUME NEW v \in Workers, CreateProject(v) \/ SaveProject(v) \/ DeleteProject(v)
        PROVE  P
    BY <1>2, <1>8 DEF CreateProject, SaveProject, DeleteProject
  <1>9. CASE UNCHANGED job
    BY <1>9
  <1> QED
    BY <1>3, <1>4, <1>5, <1>6, <1>7, <1>8, <1>9
       DEF Next, Choose, Statement, ChangeRole, ChangePlan, DestroyOrg

LEMMA NextRoom ==
    ASSUME TypeOK, WritesInv, RoomInv, Next
    PROVE  RoomInv'
  <1> SUFFICES ASSUME NEW w \in Workers, NEW o \in Orgs,
                      Creating(w)', job'[w].by.org = o, o \in live'
               PROVE  /\ holder'[o] = w
                      /\ At(w, "count")' => CapOf(o)' = job'[w].limit
                      /\ At(w, "create")' =>
                            \/ CapOf(o)' = Unlimited
                            \/ /\ CapOf(o)' \in Nat
                               /\ Cardinality(Created(o))' < CapOf(o)'
    <2>1. live' \subseteq Orgs  BY NextTypeOK DEF TypeOK
    <2> QED  BY <2>1, Zenon DEF RoomInv
  <1> USE DEF At
  <1>1. live' \subseteq live
    BY DEF Next, Choose, Statement, Resolve, LockBilling, LoadProject, ReadLimit,
           CountProjects, CreateProject, SaveProject, DeleteProject, ChangeRole,
           ChangePlan, DestroyOrg, tables
  <1>2. job[w] # Idle
    BY CreationMoves DEF Creating, LockBilling, ReadLimit, CountProjects
  <1>3. At(w, "count") => job[w].limit \in Nat
    BY <1>2, Locals
  <1>4. job'[w].by = job[w].by /\ job[w].by.org = o  BY CreationMoves
  <1>5. o \in live  BY <1>1, <1>4
  <1>6. CASE job'[w] = job[w]
    <2>1. holder[o] = w /\ Creating(w)  BY <1>4, <1>5, <1>6 DEF RoomInv, Creating
    <2>2. holder'[o] = w /\ CapOf(o)' = CapOf(o)
      BY <1>2, <1>3, <1>6, <2>1, HeldRow
    <2>3. ASSUME NEW v \in Workers, CreateProject(v), job[v].by.org = o
          PROVE  FALSE
      <3>1. v = w  BY <1>5, <2>1, <2>3 DEF CreateProject, RoomInv, Creating
      <3> QED  BY <1>2, <1>6, <2>3, <3>1 DEF CreateProject, EndRequest, Become, TypeOK
    <2>4. Created(o)' \subseteq Created(o)
      BY <1>3, <2>3, CreatedMoves
    <2>5. Cardinality(Created(o)') <= Cardinality(Created(o)) /\ Cardinality(Created(o)') \in Nat
      BY <2>4, CreatedFinite, FS_Subset, FS_CardinalityType
    <2>6. Cardinality(Created(o)) \in Nat  BY CreatedFinite
    <2>7. /\ At(w, "count") => CapOf(o) = job[w].limit
          /\ At(w, "create") =>
                \/ CapOf(o) = Unlimited
                \/ CapOf(o) \in Nat /\ Cardinality(Created(o)) < CapOf(o)
      BY <1>4, <1>5, <2>1 DEF RoomInv
    <2> QED  BY <1>6, <2>2, <2>5, <2>6, <2>7
  <1>7. CASE LockBilling(w) /\ At(w, "limit")'
    <2>1. holder'[o] = w
      BY <1>4, <1>5, <1>7 DEF LockBilling, TypeOK
    <2> QED  BY <1>7, <2>1
  <1>8. CASE ReadLimit(w) /\ UNCHANGED <<tables, holder, revived>>
             /\ \/ At(w, "create")' /\ CapOf(o) = Unlimited
                \/ At(w, "count")' /\ job'[w].limit = CapOf(o)
    <2>1. holder[o] = w  BY <1>4, <1>5, <1>8 DEF ReadLimit, RoomInv, Creating
    <2>2. CapOf(o)' = CapOf(o)  BY <1>8 DEF tables, CapOf
    <2> QED  BY <1>4, <1>8, <2>1, <2>2
  <1>9. CASE /\ CountProjects(w) /\ UNCHANGED <<tables, holder, revived>>
             /\ At(w, "create")'
             /\ Cardinality(ProjectsOf(o)) < job[w].limit
    <2>1. holder[o] = w /\ CapOf(o) = job[w].limit /\ job[w].limit \in Nat
      BY <1>3, <1>4, <1>5, <1>9 DEF CountProjects, RoomInv, Creating
    <2>2. CapOf(o)' = CapOf(o) /\ Created(o)' = Created(o)
      BY <1>9 DEF tables, CapOf, Created, ProjectsOf, Exists
    <2>3. Cardinality(Created(o)) < CapOf(o)
      <3>1. Cardinality(ProjectsOf(o)) < job[w].limit  BY <1>4, <1>9
      <3> QED  BY <2>1, <3>1, CreatedFinite
    <2> QED  BY <1>9, <2>1, <2>2, <2>3 DEF tables
  <1> QED  BY <1>4, <1>6, <1>7, <1>8, <1>9, CreationMoves

\* A creation ends with its insert, into the room there was.
LEMMA StepWithinCap ==
    ASSUME TypeOK, WritesInv, RoomInv, Next,
           NEW w \in Workers, NEW o \in live,
           At(w, "create"), job'[w] = Idle, job[w].by.org = o
    PROVE  \/ CapOf(o) = Unlimited
           \/ Cardinality(ProjectsOf(o)' \ revived) <= CapOf(o)
  <1>1. SUFFICES ASSUME CapOf(o) # Unlimited
                 PROVE  Cardinality(ProjectsOf(o)' \ revived) <= CapOf(o)
    OBVIOUS
  <1>2. /\ holder[o] = w /\ CapOf(o) \in Nat /\ Cardinality(Created(o)) < CapOf(o)
    BY <1>1 DEF RoomInv, Creating
  <1>3. o \in Orgs /\ IsFiniteSet(Created(o)) /\ Cardinality(Created(o)) \in Nat
    BY CreatedFinite DEF TypeOK
  <1>4. CreateProject(w)
    <2>1. ASSUME NEW v \in Workers, NEW j, Become(v, j)
          PROVE  v = w
      BY <2>1 DEF Become, At, TypeOK
    <2>2. ASSUME NEW v \in Workers, CreateProject(v) \/ SaveProject(v) \/ DeleteProject(v)
          PROVE  CreateProject(w)
      <3>1. v = w
        BY <2>1, <2>2 DEF CreateProject, SaveProject, DeleteProject, EndRequest
      <3> QED  BY <2>2, <3>1 DEF SaveProject, DeleteProject, At
    <2>3. ASSUME NEW v \in Workers,
                 \/ \E u \in Users, q \in Orgs : Resolve(v, u, q)
                 \/ LockBilling(v) \/ ReadLimit(v) \/ CountProjects(v)
                 \/ \E p \in ProjectIds : LoadProject(v, p)
          PROVE  FALSE
      <3>1. v = w
        BY <2>1, <2>3 DEF Resolve, LockBilling, ReadLimit, CountProjects, LoadProject, EndRequest
      <3> QED
        BY <2>3, <3>1 DEF Resolve, LockBilling, ReadLimit, CountProjects, LoadProject, At
    <2>4. job' # job  BY DEF At
    <2> QED
      BY <2>2, <2>3, <2>4 DEF Next, Choose, Statement, ChangeRole, ChangePlan, DestroyOrg
  <1>5. PICK p \in ProjectIds : ProjectsOf(o)' \ revived \subseteq Created(o) \cup {p}
    <2>1. PICK p \in ProjectIds :
             project' = [project EXCEPT ![p] = [org |-> o, creator |-> job[w].by.user]]
      BY <1>4 DEF CreateProject
    <2> QED  BY <2>1 DEF ProjectsOf, Exists, Created, TypeOK
  <1>6. /\ IsFiniteSet(Created(o) \cup {p})
        /\ Cardinality(Created(o) \cup {p}) <= Cardinality(Created(o)) + 1
    BY <1>3, FS_AddElement
  <1>7. Cardinality(ProjectsOf(o)' \ revived) <= Cardinality(Created(o) \cup {p})
    BY <1>5, <1>6, FS_Subset
  <1>8. /\ Cardinality(ProjectsOf(o)' \ revived) \in Nat
        /\ Cardinality(Created(o) \cup {p}) \in Nat
    BY <1>5, <1>6, FS_Subset, FS_CardinalityType
  <1> QED  BY <1>2, <1>3, <1>6, <1>7, <1>8

\* check_can_create_project under lock_billing (billing/limits.py): a creation
\* leaves its organization within the plan in force, however many race.
THEOREM CapTheorem == Spec => CreationWithinCap
  <1> DEFINE I == IInv /\ RoomInv
  <1>1. Init => I
    BY InitIInv DEF Init, RoomInv, Creating, At
  <1>2. I /\ [Next]_vars => I'
    <2>1. ASSUME I, Next PROVE RoomInv'
      BY <2>1, NextRoom DEF IInv
    <2>2. ASSUME I, UNCHANGED vars PROVE RoomInv'
      BY <2>2 DEF vars, tables, RoomInv, Creating, At, CapOf, Created, ProjectsOf, Exists
    <2> QED  BY <2>1, <2>2, StepIInv
  <1>3. I /\ [Next]_vars
          => [\A w \in Workers, o \in live :
                At(w, "create") /\ job'[w] = Idle /\ job[w].by.org = o
                   => \/ CapOf(o) = Unlimited
                      \/ Cardinality(ProjectsOf(o)' \ revived) <= CapOf(o)]_vars
    BY StepWithinCap DEF IInv
  <1> QED  BY <1>1, <1>2, <1>3, PTL DEF Spec, CreationWithinCap
=============================================================================
