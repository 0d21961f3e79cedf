-------------------------- MODULE OnboardingProofs --------------------------
(***************************************************************************)
(* What module Onboarding promises, for any addresses, invitations,        *)
(* workers, attempts and number of failures.                               *)
(***************************************************************************)
EXTENDS Onboarding, FiniteSetTheorems, TLAPS

\* Keys are not used again: nobody is about to insert a row that was deleted,
\* and a task is of a row there is or was.
KeysInv ==
    /\ \A w \in Workers : At(w, "check") \/ At(w, "insert") => row[job[w].subject] # "gone"
    /\ \A w \in Workers : At(w, "publish") => row[job[w].subject] # "absent"
    /\ \A s \in Subjects : broker[s] > 0 => row[s] # "absent"
    /\ \A m \in Mailers : mailer[m] # Idle => row[mailer[m].subject] # "absent"

\* A task that is done has sent its mail, or its row was gone.
TasksInv ==
    \A m \in Mailers : MailAt(m, "ack") =>
       sent[mailer[m].subject] > 0 \/ row[mailer[m].subject] = "gone"

\* A creator who stays has been outrun once for each attempt that failed, and
\* once more when the slug it found free is taken.
OutrunInv ==
    \A w \in Workers : (At(w, "probe") \/ At(w, "create")) /\ job[w].creator =>
       /\ rivals[w] >= job[w].attempt - 1
       /\ At(w, "create") /\ job[w].slug \in taken => rivals[w] >= job[w].attempt

IInv == TypeOK /\ KeysInv /\ TasksInv /\ OutrunInv /\ MailAccounted
-----------------------------------------------------------------------------
USE DEF Creation

\* What a worker, and a Celery worker, holds.
LEMMA Locals ==
    ASSUME TypeOK
    PROVE  /\ \A w \in Workers : At(w, "check") \/ At(w, "insert") \/ At(w, "publish")
                 => job[w].subject \in Subjects
           /\ \A w \in Workers : At(w, "probe") \/ At(w, "create")
                 => /\ job[w].slug \in Slugs /\ job[w].attempt \in 1..Attempts
                    /\ job[w] \in Creation
           /\ \A m \in Mailers : mailer[m] # Idle => mailer[m].subject \in Subjects
  <1>1. ASSUME NEW w \in Workers, job[w] # Idle
        PROVE  job[w] \in Job
    BY <1>1 DEF TypeOK
  <1> QED  BY <1>1 DEF TypeOK, Job, At, Delivery

\* After an insert the creator is done, or looks for a slug once more.
LEMMA CreatorMoves ==
    ASSUME TypeOK, NEW w \in Workers, InsertOrganization(w)
    PROVE  \E j \in Job \cup {Idle} :
              /\ Become(w, j)
              /\ j # Idle => /\ j.pc = "probe" /\ j.attempt = job[w].attempt + 1
                             /\ j.creator = job[w].creator
  <1> DEFINE again == [job[w] EXCEPT !.pc = "probe", !.slug = 1, !.attempt = @ + 1]
  <1>1. job[w] \in Creation
    BY Locals DEF InsertOrganization
  <1>2. 1 \in Slugs /\ (job[w].attempt < Attempts => job[w].attempt + 1 \in 1..Attempts)
    BY <1>1, OnboardingAssumption DEF Slugs
  <1>3. /\ again.pc = "probe" /\ again.attempt = job[w].attempt + 1
        /\ again.creator = job[w].creator
    BY <1>1
  <1>4. job[w].attempt < Attempts => again \in Job
    BY <1>1, <1>2 DEF Job
  <1>5. CASE Become(w, Idle)
    BY <1>5
  <1>6. CASE ~Become(w, Idle)
    <2>1. Become(w, again) /\ job[w].attempt < Attempts
      BY <1>6 DEF InsertOrganization
    <2> HIDE DEF again
    <2> QED  BY <1>3, <1>4, <2>1
  <1> QED  BY <1>5, <1>6

LEMMA InitIInv == Init => IInv
  <1> SUFFICES ASSUME Init PROVE IInv  OBVIOUS
  <1>1. TypeOK  BY OnboardingAssumption DEF Init, TypeOK, RowState
  <1>2. KeysInv /\ TasksInv  BY DEF Init, KeysInv, TasksInv, At, MailAt
  <1>3. OutrunInv  BY DEF Init, OutrunInv, At
  <1>4. MailAccounted  BY DEF Init, MailAccounted, Exists
  <1> QED  BY <1>1, <1>2, <1>3, <1>4 DEF IInv

\* The type invariant is kept, one action at a time.
LEMMA NextTypeOK ==
    ASSUME TypeOK, Next
    PROVE  TypeOK'
  <1> USE DEF rows, mail, bounds, aux
  <1>1. ASSUME NEW w \in Workers, NEW s \in Accounts, Register(w, s)
        PROVE  TypeOK'
    BY <1>1, OnboardingAssumption DEF Register, Start, Become, TypeOK, Job, Subjects
  <1>2. ASSUME NEW w \in Workers, NEW s \in Invitations, Invite(w, s)
        PROVE  TypeOK'
    BY <1>2, OnboardingAssumption DEF Invite, Start, Become, TypeOK, Job, Subjects
  <1>3. ASSUME NEW w \in Workers, CreateOrganization(w)
        PROVE  TypeOK'
    BY <1>3, OnboardingAssumption DEF CreateOrganization, Start, Become, TypeOK, Job,
         Slugs
  <1>4. ASSUME NEW w \in Workers, CheckEmail(w)
        PROVE  TypeOK'
    BY <1>4, Locals DEF CheckEmail, Become, TypeOK, Job
  <1>5. ASSUME NEW w \in Workers, InsertRow(w)
        PROVE  TypeOK'
    <2>1. job[w].subject \in Subjects  BY <1>5, Locals DEF InsertRow
    <2> QED  BY <1>5, <2>1 DEF InsertRow, Become, TypeOK, Job, RowState
  <1>6. ASSUME NEW w \in Workers, Publish(w)
        PROVE  TypeOK'
    <2>1. job[w].subject \in Subjects  BY <1>6, Locals DEF Publish
    <2> QED  BY <1>6, <2>1 DEF Publish, Become, TypeOK
  <1>7. ASSUME NEW w \in Workers, Fail(w)
        PROVE  TypeOK'
    <2>1. At(w, "publish") => job[w].subject \in Subjects  BY Locals
    <2>2. failures + 1 \in 0..MaxFailures
      BY <1>7, OnboardingAssumption DEF Fail, TypeOK
    <2> QED  BY <1>7, <2>1, <2>2 DEF Fail, Become, TypeOK
  <1>8. ASSUME NEW m \in Mailers, NEW s \in Subjects, TakeTask(m, s)
        PROVE  TypeOK'
    BY <1>8 DEF TakeTask, Holds, TypeOK, Delivery
  <1>9. ASSUME NEW m \in Mailers, RunTask(m) \/ Acknowledge(m)
        PROVE  TypeOK'
    BY <1>9 DEF RunTask, Acknowledge, MailAt, Holds, TypeOK, Delivery
  <1>10. ASSUME NEW m \in Mailers, SendMail(m)
         PROVE  TypeOK'
    BY <1>10, Locals DEF SendMail, MailAt, Holds, TypeOK, Delivery
  <1>11. ASSUME NEW m \in Mailers, TaskFails(m) \/ MailerDies(m)
         PROVE  TypeOK'
    <2>1. mailer[m].subject \in Subjects
      BY <1>11, Locals DEF TaskFails, MailerDies, MailAt
    <2>2. failures + 1 \in 0..MaxFailures
      BY <1>11, OnboardingAssumption DEF TaskFails, MailerDies, TypeOK
    <2> QED  BY <1>11, <2>1, <2>2 DEF TaskFails, MailerDies, Holds, TypeOK, Delivery
  <1>12. ASSUME NEW s \in Subjects, VerifyEmail(s) \/ DeleteRow(s)
         PROVE  TypeOK'
    BY <1>12 DEF VerifyEmail, DeleteRow, TypeOK, RowState
  <1>13. ASSUME NEW w \in Workers, ProbeSlug(w)
         PROVE  TypeOK'
    <2>1. job[w] \in Creation
      BY <1>13, Locals DEF ProbeSlug
    <2>2. job[w].slug < MaxSuffix => job[w].slug + 1 \in Slugs
      BY <2>1, OnboardingAssumption DEF Slugs
    <2>3. \E j \in Job : Become(w, j)
      BY <1>13, <2>1, <2>2 DEF ProbeSlug, Job
    <2> QED  BY <1>13, <2>3 DEF ProbeSlug, Become, TypeOK
  <1>14. ASSUME NEW w \in Workers, InsertOrganization(w)
         PROVE  TypeOK'
    <2>1. job[w].slug \in Slugs /\ job[w].attempt \in 1..Attempts
      BY <1>14, Locals DEF InsertOrganization
    <2>2. taken' \subseteq Slugs /\ rivals' \in [Workers -> Nat]
      BY <1>14, <2>1 DEF InsertOrganization, TypeOK
    <2>3. \E j \in Job \cup {Idle} : Become(w, j)
      BY <1>14, CreatorMoves
    <2> QED  BY <1>14, <2>2, <2>3 DEF InsertOrganization, Become, TypeOK
  <1>15. ASSUME NEW n \in Slugs, DestroyOrganization(n)
         PROVE  TypeOK'
    BY <1>15 DEF DestroyOrganization, TypeOK
  <1>16. ASSUME NEW n \in Slugs, ReviveOrganization(n)
         PROVE  TypeOK'
    <2>1. requests + 1 \in 0..MaxRequests /\ UNCHANGED failures
      BY <1>16, OnboardingAssumption DEF ReviveOrganization, TypeOK
    <2> QED  BY <1>16, <2>1 DEF ReviveOrganization, TypeOK
  <1>17. ASSUME NEW w \in Workers, DeleteCreator(w)
         PROVE  TypeOK'
    <2>1. [job[w] EXCEPT !.creator = FALSE] \in Job
      BY <1>17, Locals DEF DeleteCreator, Job
    <2> QED  BY <1>17, <2>1 DEF DeleteCreator, Become, TypeOK
  <1> QED
    BY <1>1, <1>2, <1>3, <1>4, <1>5, <1>6, <1>7, <1>8, <1>9, <1>10, <1>11, <1>12, <1>13,
       <1>14, <1>15, <1>16, <1>17 DEF Next, Statement, Task
-----------------------------------------------------------------------------
(* The slug search.                                                        *)

\* Every insert of a slug is counted by all other creators.
LEMMA NextOutrun ==
    ASSUME TypeOK, OutrunInv, Next
    PROVE  OutrunInv'
  <1> USE DEF rows, mail, bounds, aux
  <1>1. ASSUME NEW w \in Workers, NEW j,
               Become(w, j), UNCHANGED rivals, taken' \subseteq taken,
               j # Idle => j.pc \notin {"probe", "create"}
        PROVE  OutrunInv'
    BY <1>1 DEF Become, TypeOK, OutrunInv, At
  <1>2. ASSUME NEW w \in Workers, NEW s \in Subjects, Register(w, s) \/ Invite(w, s)
        PROVE  OutrunInv'
    BY <1>1, <1>2 DEF Register, Invite, Start
  <1>3. ASSUME NEW w \in Workers, CheckEmail(w) \/ InsertRow(w) \/ Publish(w) \/ Fail(w)
        PROVE  OutrunInv'
    BY <1>1, <1>3 DEF CheckEmail, InsertRow, Publish, Fail
  <1>4. ASSUME NEW w \in Workers, CreateOrganization(w)
        PROVE  OutrunInv'
    BY <1>4 DEF CreateOrganization, Start, Become, TypeOK, OutrunInv, At
  <1>5. ASSUME NEW w \in Workers, ProbeSlug(w)
        PROVE  OutrunInv'
    <2>1. job[w] \in Creation
      BY <1>5, Locals DEF ProbeSlug
    <2>2. job[w].creator => rivals[w] >= job[w].attempt - 1
      BY <1>5 DEF ProbeSlug, OutrunInv
    <2>3. PICK j : /\ Become(w, j)
                   /\ j.attempt = job[w].attempt /\ j.creator = job[w].creator
                   /\ j.pc = "create" => j.slug \notin taken
      BY <1>5, <2>1 DEF ProbeSlug, At
    <2>4. UNCHANGED <<taken, rivals>>  BY <1>5 DEF ProbeSlug
    <2> QED  BY <2>2, <2>3, <2>4 DEF Become, TypeOK, OutrunInv, At
  <1>6. ASSUME NEW w \in Workers, InsertOrganization(w)
        PROVE  OutrunInv'
    <2>1. /\ job[w].slug \in Slugs /\ job[w].attempt \in 1..Attempts
          /\ Attempts \in Nat /\ rivals \in [Workers -> Nat]
      BY <1>6, Locals, OnboardingAssumption DEF InsertOrganization, TypeOK
    <2>2. CASE job[w].slug \notin taken /\ job[w].creator
      <3>1. \A v \in Workers \ {w} : rivals'[v] = rivals[v] + 1 /\ job'[v] = job[v]
        BY <1>6, <2>1, <2>2 DEF InsertOrganization, Become, TypeOK
      <3>2. job'[w] = Idle
        BY <1>6, <2>2 DEF InsertOrganization, Become, TypeOK
      <3>3. ASSUME NEW v \in Workers \ {w}, At(v, "probe") \/ At(v, "create"),
                   job[v].creator
            PROVE  rivals'[v] >= job[v].attempt
        <4>1. job[v].attempt \in Int /\ rivals[v] >= job[v].attempt - 1
          BY <3>3, Locals DEF OutrunInv
        <4> QED  BY <2>1, <3>1, <4>1
      <3>4. ASSUME NEW v \in Workers \ {w}, At(v, "probe") \/ At(v, "create"),
                   job[v].creator
            PROVE  rivals'[v] >= job[v].attempt - 1
        <4>1. job[v].attempt \in Int  BY <3>4, Locals
        <4> QED  BY <2>1, <3>1, <3>3, <3>4, <4>1
      <3> QED  BY <3>1, <3>2, <3>3, <3>4 DEF OutrunInv, At
    <2>3. CASE job[w].slug \in taken \/ ~job[w].creator
      <3>1. job[w].creator => rivals[w] >= job[w].attempt
        BY <1>6, <2>3 DEF InsertOrganization, OutrunInv
      <3>2. UNCHANGED <<taken, rivals>>
        BY <1>6, <2>3 DEF InsertOrganization
      <3>3. PICK j : /\ Become(w, j)
                     /\ j # Idle => /\ j.pc = "probe" /\ j.attempt = job[w].attempt + 1
                                    /\ j.creator = job[w].creator
        BY <1>6, CreatorMoves
      <3> QED  BY <2>1, <3>1, <3>2, <3>3 DEF Become, TypeOK, OutrunInv, At
    <2> QED  BY <2>2, <2>3
  <1>7. CASE UNCHANGED <<job, rivals>> /\ taken' \subseteq taken
    BY <1>7 DEF OutrunInv, At
  <1>8. CASE \/ \E m \in Mailers, s \in Subjects : TakeTask(m, s)
             \/ \E m \in Mailers : Task(m) \/ TaskFails(m) \/ MailerDies(m)
             \/ \E s \in Subjects : VerifyEmail(s) \/ DeleteRow(s)
             \/ \E n \in Slugs : DestroyOrganization(n)
    <2>1. UNCHANGED <<job, rivals>> /\ taken' \subseteq taken
      BY <1>8 DEF TakeTask, Task, RunTask, SendMail, Acknowledge, TaskFails, MailerDies,
                  VerifyEmail, DeleteRow, DestroyOrganization
    <2> QED  BY <1>7, <2>1
  <1>9. ASSUME NEW n \in Slugs, ReviveOrganization(n)
        PROVE  OutrunInv'
    <2>1. ASSUME NEW v \in Workers, At(v, "probe") \/ At(v, "create"), job[v].creator
          PROVE  rivals'[v] >= job[v].attempt /\ rivals'[v] >= job[v].attempt - 1
      <3>1. job[v].attempt \in Int /\ rivals[v] >= job[v].attempt - 1
        BY <2>1, Locals DEF OutrunInv
      <3>2. rivals[v] \in Nat /\ rivals'[v] = rivals[v] + 1
        BY <1>9 DEF ReviveOrganization, TypeOK
      <3> QED  BY <3>1, <3>2
    <2> QED  BY <1>9, <2>1 DEF ReviveOrganization, OutrunInv, At
  <1>10. ASSUME NEW w \in Workers, DeleteCreator(w)
         PROVE  OutrunInv'
    <2>1. job[w] \in Creation
      BY <1>10, Locals DEF DeleteCreator
    <2>2. PICK j : Become(w, j) /\ j.creator = FALSE
      BY <1>10, <2>1 DEF DeleteCreator
    <2> QED  BY <1>10, <2>2 DEF DeleteCreator, Become, TypeOK, OutrunInv, At
  <1> QED
    BY <1>2, <1>3, <1>4, <1>5, <1>6, <1>8, <1>9, <1>10 DEF Next, Statement, Subjects

\* A request that gives up was at its last attempt and found its slug taken.
LEMMA GivesUp ==
    ASSUME TypeOK, OutrunInv, Next, NEW w \in Workers,
           At(w, "create"), job'[w] = Idle, failures' = failures, taken' = taken,
           job[w].creator
    PROVE  rivals[w] >= Attempts
  <1> USE DEF rows, mail, bounds, aux
  <1>1. job'[w] # job[w]  BY DEF At
  <1>2. InsertOrganization(w)
    <2>1. ASSUME NEW v \in Workers, NEW j, Become(v, j)
          PROVE  v = w
      BY <1>1, <2>1 DEF Become, TypeOK
    <2>2. ASSUME NEW v \in Workers, NEW s \in Subjects, Register(v, s) \/ Invite(v, s)
          PROVE  FALSE
      BY <2>1, <2>2 DEF Register, Invite, Start, At
    <2>3. ASSUME NEW v \in Workers, CreateOrganization(v)
          PROVE  FALSE
      BY <2>1, <2>3 DEF CreateOrganization, Start, At
    <2>4. ASSUME NEW v \in Workers,
                 CheckEmail(v) \/ InsertRow(v) \/ Publish(v) \/ ProbeSlug(v)
          PROVE  FALSE
      <3>1. v = w
        BY <2>1, <2>4 DEF CheckEmail, InsertRow, Publish, ProbeSlug
      <3> QED  BY <2>4, <3>1 DEF CheckEmail, InsertRow, Publish, ProbeSlug, At
    <2>5. ASSUME NEW v \in Workers, Fail(v)
          PROVE  FALSE
      BY <2>5 DEF Fail, TypeOK
    <2>6. ASSUME NEW v \in Workers, InsertOrganization(v)
          PROVE  InsertOrganization(w)
      <3>1. v = w  BY <2>1, <2>6 DEF InsertOrganization
      <3> QED  BY <2>6, <3>1
    <2>7. CASE \/ \E m \in Mailers, s \in Subjects : TakeTask(m, s)
               \/ \E m \in Mailers : Task(m) \/ TaskFails(m) \/ MailerDies(m)
               \/ \E s \in Subjects : VerifyEmail(s) \/ DeleteRow(s)
               \/ \E n \in Slugs : DestroyOrganization(n) \/ ReviveOrganization(n)
      BY <1>1, <2>7 DEF TakeTask, Task, RunTask, SendMail, Acknowledge, TaskFails,
                        MailerDies, VerifyEmail, DeleteRow, DestroyOrganization,
                        ReviveOrganization
    <2>8. ASSUME NEW v \in Workers, DeleteCreator(v)
          PROVE  FALSE
      <3>1. v = w  BY <2>1, <2>8 DEF DeleteCreator
      <3>2. [job[w] EXCEPT !.creator = FALSE] \in Job
        BY Locals DEF Job
      <3> QED  BY <2>8, <3>1, <3>2, OnboardingAssumption DEF DeleteCreator, Become,
           TypeOK
    <2> QED  BY <2>2, <2>3, <2>4, <2>5, <2>6, <2>7, <2>8 DEF Next, Statement, Subjects
  <1>3. job[w].slug \in taken
    BY <1>2, Locals DEF InsertOrganization
  <1>4. rivals[w] >= job[w].attempt  BY <1>3 DEF OutrunInv
  <1>5. job[w].attempt \in 1..Attempts  BY Locals
  <1>6. ~(job[w].attempt < Attempts)
    <2>1. SUFFICES ASSUME job[w].attempt < Attempts PROVE FALSE  OBVIOUS
    <2>2. job'[w] = [job[w] EXCEPT !.pc = "probe", !.slug = 1, !.attempt = @ + 1]
      BY <1>2, <1>3, <2>1 DEF InsertOrganization, Become, TypeOK
    <2>3. 1 \in Slugs /\ job[w].attempt + 1 \in 1..Attempts
      BY <1>5, <2>1, OnboardingAssumption DEF Slugs
    <2>4. job[w] \in Creation
      BY Locals
    <2>5. job'[w] \in Job
      BY <2>2, <2>3, <2>4 DEF Job
    <2> QED  BY <2>5, OnboardingAssumption
  <1> QED  BY <1>4, <1>5, <1>6, OnboardingAssumption DEF TypeOK
-----------------------------------------------------------------------------
(* The mail.                                                               *)

\* Rows come and go, but are never absent again, and come only to a request
\* about to insert them.
LEMMA RowsMove ==
    ASSUME TypeOK, KeysInv, Next, NEW s \in Subjects
    PROVE  /\ row[s] # "absent" => row'[s] # "absent"
           /\ row[s] = "gone" => row'[s] = "gone"
           /\ Exists(s)' /\ ~Exists(s) =>
                 \E w \in Workers : InsertRow(w) /\ job[w].subject = s
           /\ row[s] # "gone" /\ row'[s] = "gone" => DeleteRow(s)
  <1> USE DEF rows, mail, bounds, aux
  <1>1. ASSUME NEW w \in Workers, InsertRow(w)
        PROVE  /\ row[s] # "absent" => row'[s] # "absent"
               /\ row[s] = "gone" => row'[s] = "gone"
               /\ Exists(s)' /\ ~Exists(s) => job[w].subject = s
               /\ row'[s] # "gone" \/ row[s] = "gone"
    <2>1. job[w].subject \in Subjects /\ row[job[w].subject] # "gone"
      BY <1>1, Locals DEF InsertRow, KeysInv
    <2> QED  BY <1>1, <2>1 DEF InsertRow, Exists, TypeOK
  <1>2. ASSUME NEW q \in Subjects, VerifyEmail(q)
        PROVE  /\ row[s] # "absent" => row'[s] # "absent"
               /\ row[s] = "gone" => row'[s] = "gone"
               /\ Exists(s)' => Exists(s)
               /\ row'[s] # "gone" \/ row[s] = "gone"
    BY <1>2 DEF VerifyEmail, Exists, TypeOK
  <1>3. ASSUME NEW q \in Subjects, DeleteRow(q)
        PROVE  /\ row[s] # "absent" => row'[s] # "absent"
               /\ row[s] = "gone" => row'[s] = "gone"
               /\ Exists(s)' => Exists(s)
               /\ row[s] # "gone" /\ row'[s] = "gone" => DeleteRow(s)
    <2>1. CASE q = s
      BY <1>3, <2>1 DEF DeleteRow, Exists, TypeOK
    <2>2. CASE q # s
      BY <1>3, <2>2 DEF DeleteRow, Exists, TypeOK
    <2> QED  BY <2>1, <2>2
  <1>4. \/ UNCHANGED row
        \/ \E w \in Workers : InsertRow(w)
        \/ \E q \in Subjects : VerifyEmail(q) \/ DeleteRow(q)
    BY DEF Next, Register, Invite, CreateOrganization, Start, Statement, CheckEmail,
           Publish, ProbeSlug, InsertOrganization, Fail, TakeTask, Task, RunTask,
           SendMail, Acknowledge, TaskFails, MailerDies, DestroyOrganization,
           ReviveOrganization, DeleteCreator
  <1>5. CASE UNCHANGED row
    BY <1>5 DEF Exists
  <1> QED  BY <1>1, <1>2, <1>3, <1>4, <1>5

\* What a step does to the requests that insert and publish rows.
LEMMA JobsMove ==
    ASSUME TypeOK, Next, NEW w \in Workers
    PROVE  \/ job'[w] = job[w]
           \/ job'[w] = Idle
           \/ job'[w] # Idle /\ job'[w].pc \in {"probe", "create"}
           \/ /\ job'[w] # Idle /\ job'[w].pc = "check"
              /\ row[job'[w].subject] # "gone" /\ UNCHANGED row
           \/ /\ At(w, "check") /\ job'[w] # Idle /\ job'[w].pc = "insert"
              /\ job'[w].subject = job[w].subject /\ UNCHANGED row
           \/ /\ job'[w] # Idle /\ job'[w].pc = "insert"
              /\ row[job'[w].subject] = "absent" /\ UNCHANGED row
           \/ /\ At(w, "insert") /\ job'[w] # Idle /\ job'[w].pc = "publish"
              /\ job'[w].subject = job[w].subject /\ row'[job[w].subject] = "present"
  <1> USE DEF rows, mail, bounds, aux
  <1> DEFINE P == \/ job'[w] = job[w]
                  \/ job'[w] = Idle
                  \/ job'[w] # Idle /\ job'[w].pc \in {"probe", "create"}
                  \/ /\ job'[w] # Idle /\ job'[w].pc = "check"
                     /\ row[job'[w].subject] # "gone" /\ UNCHANGED row
                  \/ /\ At(w, "check") /\ job'[w] # Idle /\ job'[w].pc = "insert"
                     /\ job'[w].subject = job[w].subject /\ UNCHANGED row
                  \/ /\ job'[w] # Idle /\ job'[w].pc = "insert"
                     /\ row[job'[w].subject] = "absent" /\ UNCHANGED row
                  \/ /\ At(w, "insert") /\ job'[w] # Idle /\ job'[w].pc = "publish"
                     /\ job'[w].subject = job[w].subject /\ row'[job[w].subject] = "present"
  <1>1. ASSUME NEW v \in Workers, NEW j, v # w, Become(v, j)
        PROVE  P
    BY <1>1 DEF Become, TypeOK
  <1>2. ASSUME NEW v \in Workers, NEW s \in Subjects, Register(v, s) \/ Invite(v, s)
        PROVE  P
    <2>1. v = w \/ P  BY <1>1, <1>2 DEF Register, Invite, Start
    <2>2. CASE v = w
      BY <1>2, <2>2 DEF Register, Invite, Start, Become, TypeOK
    <2> QED  BY <2>1, <2>2
  <1>3. ASSUME NEW v \in Workers, CreateOrganization(v)
        PROVE  P
    BY <1>3 DEF CreateOrganization, Start, Become, TypeOK
  <1>4. ASSUME NEW v \in Workers, CheckEmail(v)
        PROVE  P
    BY <1>4 DEF CheckEmail, Become, At, TypeOK
  <1>5. ASSUME NEW v \in Workers, InsertRow(v)
        PROVE  P
    <2>1. job[v].subject \in Subjects  BY <1>5, Locals DEF InsertRow
    <2> QED  BY <1>5, <2>1 DEF InsertRow, Become, TypeOK
  <1>6. ASSUME NEW v \in Workers, Publish(v) \/ Fail(v)
        PROVE  P
    BY <1>6 DEF Publish, Fail, Become, TypeOK
  <1>7. ASSUME NEW v \in Workers, ProbeSlug(v) \/ InsertOrganization(v) \/ DeleteCreator(v)
        PROVE  P
    <2>1. job[v] \in Creation
      BY <1>7, Locals DEF ProbeSlug, InsertOrganization, DeleteCreator
    <2>2. PICK j : Become(v, j) /\ (j = Idle \/ j.pc \in {"probe", "create"})
      BY <1>7, <2>1, CreatorMoves DEF ProbeSlug, DeleteCreator, At
    <2> QED  BY <2>2 DEF Become, TypeOK
  <1>8. CASE \/ \E m \in Mailers, s \in Subjects : TakeTask(m, s)
             \/ \E m \in Mailers : Task(m) \/ TaskFails(m) \/ MailerDies(m)
             \/ \E s \in Subjects : VerifyEmail(s) \/ DeleteRow(s)
             \/ \E n \in Slugs : DestroyOrganization(n) \/ ReviveOrganization(n)
    BY <1>8 DEF TakeTask, Task, RunTask, SendMail, Acknowledge, TaskFails, MailerDies,
                VerifyEmail, DeleteRow, DestroyOrganization, ReviveOrganization,
                DeleteCreator
  <1> QED
    BY <1>2, <1>3, <1>4, <1>5, <1>6, <1>7, <1>8 DEF Next, Statement, Subjects

LEMMA NextKeys ==
    ASSUME TypeOK, KeysInv, Next
    PROVE  KeysInv'
  <1> USE DEF rows, mail, bounds, aux
  <1>1. ASSUME NEW w \in Workers, At(w, "check")' \/ At(w, "insert")'
        PROVE  row'[job'[w].subject] # "gone"
    <2>1. CASE job'[w] = job[w]
      <3> DEFINE s == job[w].subject
      <3>1. At(w, "check") \/ At(w, "insert")  BY <1>1, <2>1 DEF At
      <3>2. s \in Subjects /\ row[s] # "gone" /\ Registering(s)
        BY <3>1, Locals DEF KeysInv, Registering
      <3>3. ~DeleteRow(s)  BY <3>2 DEF DeleteRow
      <3> QED  BY <2>1, <3>2, <3>3, RowsMove
    <2>2. CASE job'[w] # job[w]
      BY <1>1, <2>2, JobsMove DEF At, KeysInv
    <2> QED  BY <2>1, <2>2
  <1>2. ASSUME NEW w \in Workers, At(w, "publish")'
        PROVE  row'[job'[w].subject] # "absent"
    <2>1. CASE job'[w] = job[w]
      <3>1. At(w, "publish")  BY <1>2, <2>1 DEF At
      <3>2. job[w].subject \in Subjects /\ row[job[w].subject] # "absent"
        BY <3>1, Locals DEF KeysInv
      <3> QED  BY <2>1, <3>2, RowsMove
    <2>2. CASE job'[w] # job[w]
      BY <1>2, <2>2, JobsMove DEF At
    <2> QED  BY <2>1, <2>2
  <1>3. \A s \in Subjects : row[s] # "absent" => row'[s] # "absent"
    BY RowsMove
  <1>4. ASSUME NEW s \in Subjects, broker'[s] > 0
        PROVE  row[s] # "absent"
    <2>1. CASE broker[s] > 0
      BY <2>1 DEF KeysInv
    <2>2. CASE \E w \in Workers : Publish(w)
      BY <1>4, <2>1, <2>2, Locals DEF Publish, KeysInv, TypeOK, Delivery
    <2>3. CASE \E m \in Mailers : MailerDies(m)
      BY <1>4, <2>1, <2>3, Locals DEF MailerDies, KeysInv, TypeOK, Delivery
    <2>4. CASE \E m \in Mailers, q \in Subjects : TakeTask(m, q)
      BY <1>4, <2>1, <2>4 DEF TakeTask, KeysInv, TypeOK, Delivery
    <2>5. CASE UNCHANGED broker
      BY <1>4, <2>1, <2>5
    <2>6. \/ UNCHANGED broker
          \/ \E w \in Workers : Publish(w)
          \/ \E m \in Mailers : MailerDies(m)
          \/ \E m \in Mailers, q \in Subjects : TakeTask(m, q)
      BY DEF Next, Register, Invite, CreateOrganization, Start, Statement, CheckEmail,
             InsertRow, ProbeSlug, InsertOrganization, Fail, Task, RunTask, SendMail,
             Acknowledge, TaskFails, VerifyEmail, DeleteRow, DestroyOrganization,
             ReviveOrganization, DeleteCreator
    <2> QED  BY <2>2, <2>3, <2>4, <2>5, <2>6
  <1>5. ASSUME NEW m \in Mailers, mailer'[m] # Idle
        PROVE  mailer'[m].subject \in Subjects /\ row[mailer'[m].subject] # "absent"
    <2>1. CASE \E n \in Mailers, q \in Subjects : TakeTask(n, q)
      BY <1>5, <2>1, Locals DEF TakeTask, Holds, KeysInv, TypeOK, Delivery
    <2>2. CASE \E n \in Mailers : Task(n) \/ TaskFails(n) \/ MailerDies(n)
      BY <1>5, <2>2, Locals DEF Task, RunTask, SendMail, Acknowledge, TaskFails,
                                MailerDies, Holds, MailAt, KeysInv, TypeOK, Delivery
    <2>3. CASE UNCHANGED mailer
      BY <1>5, <2>3, Locals DEF KeysInv
    <2>4. \/ UNCHANGED mailer
          \/ \E n \in Mailers : Task(n) \/ TaskFails(n) \/ MailerDies(n)
          \/ \E n \in Mailers, q \in Subjects : TakeTask(n, q)
      BY DEF Next, Register, Invite, CreateOrganization, Start, Statement, CheckEmail,
             InsertRow, Publish, ProbeSlug, InsertOrganization, Fail, VerifyEmail,
             DeleteRow, DestroyOrganization, ReviveOrganization, DeleteCreator
    <2> QED  BY <2>1, <2>2, <2>3, <2>4
  <1> QED  BY <1>1, <1>2, <1>3, <1>4, <1>5 DEF KeysInv

\* Mails are never unsent.
LEMMA SentGrows ==
    ASSUME TypeOK, Next, NEW s \in Subjects
    PROVE  sent[s] > 0 => sent'[s] > 0
  <1> USE DEF rows, mail, bounds, aux
  <1>1. ASSUME NEW m \in Mailers, SendMail(m)
        PROVE  sent[s] > 0 => sent'[s] > 0
    BY <1>1 DEF SendMail, TypeOK
  <1>2. UNCHANGED sent \/ \E m \in Mailers : SendMail(m)
    BY DEF Next, Register, Invite, CreateOrganization, Start, Statement, CheckEmail,
           InsertRow, Publish, ProbeSlug, InsertOrganization, Fail, TakeTask, Task,
           RunTask, Acknowledge, TaskFails, MailerDies, VerifyEmail, DeleteRow,
           DestroyOrganization, ReviveOrganization, DeleteCreator
  <1> QED  BY <1>1, <1>2

LEMMA NextTasks ==
    ASSUME TypeOK, KeysInv, TasksInv, Next
    PROVE  TasksInv'
  <1> USE DEF rows, mail, bounds, aux
  <1> SUFFICES ASSUME NEW m \in Mailers, MailAt(m, "ack")'
               PROVE  (sent[mailer[m].subject] > 0 \/ row[mailer[m].subject] = "gone")'
    BY DEF TasksInv
  <1>1. CASE mailer'[m] = mailer[m]
    <2>1. MailAt(m, "ack")  BY <1>1 DEF MailAt
    <2>2. mailer[m].subject \in Subjects  BY <2>1, Locals DEF MailAt
    <2> QED  BY <1>1, <2>1, <2>2, SentGrows, RowsMove DEF TasksInv
  <1>2. ASSUME NEW n \in Mailers, RunTask(n)
        PROVE  (sent[mailer[m].subject] > 0 \/ row[mailer[m].subject] = "gone")'
    <2>1. n = m \/ mailer'[m] = mailer[m]  BY <1>2 DEF RunTask, Holds, TypeOK, Delivery
    <2>2. CASE n = m
      <3>1. /\ mailer[m].subject \in Subjects /\ row[mailer[m].subject] # "absent"
            /\ mailer[m] \in Delivery
        BY <1>2, <2>2, Locals DEF RunTask, MailAt, KeysInv, TypeOK, Delivery
      <3>2. mailer'[m].subject = mailer[m].subject /\ UNCHANGED row
        BY <1>2, <2>2, <3>1 DEF RunTask, Holds, TypeOK, Delivery
      <3>3. ~Exists(mailer[m].subject)
        <4>1. SUFFICES ASSUME Exists(mailer[m].subject) PROVE FALSE  OBVIOUS
        <4>2. mailer'[m].pc = "send"
          BY <1>2, <2>2, <3>1, <4>1 DEF RunTask, Holds, TypeOK, Delivery
        <4> QED  BY <4>2 DEF MailAt
      <3> QED  BY <3>1, <3>2, <3>3 DEF Exists, TypeOK, RowState
    <2> QED  BY <1>1, <2>1, <2>2
  <1>3. ASSUME NEW n \in Mailers, SendMail(n)
        PROVE  (sent[mailer[m].subject] > 0 \/ row[mailer[m].subject] = "gone")'
    <2>1. n = m \/ mailer'[m] = mailer[m]  BY <1>3 DEF SendMail, Holds, TypeOK, Delivery
    <2>2. CASE n = m
      <3>1. /\ mailer[m].subject \in Subjects
            /\ mailer[m] \in Delivery
        BY <1>3, <2>2, Locals DEF SendMail, MailAt, TypeOK
      <3>2. mailer'[m].subject = mailer[m].subject
        BY <1>3, <2>2, <3>1 DEF SendMail, Holds, TypeOK, Delivery
      <3> QED  BY <1>3, <2>2, <3>1, <3>2 DEF SendMail, TypeOK
    <2> QED  BY <1>1, <2>1, <2>2
  <1>4. ASSUME NEW n \in Mailers, Acknowledge(n) \/ TaskFails(n) \/ MailerDies(n)
        PROVE  mailer'[m] = mailer[m]
    BY <1>4 DEF Acknowledge, TaskFails, MailerDies, Holds, MailAt, TypeOK
  <1>5. ASSUME NEW n \in Mailers, NEW q \in Subjects, TakeTask(n, q)
        PROVE  mailer'[m] = mailer[m]
    BY <1>5 DEF TakeTask, Holds, MailAt, TypeOK
  <1>6. \/ UNCHANGED mailer
        \/ \E n \in Mailers : Task(n) \/ TaskFails(n) \/ MailerDies(n)
        \/ \E n \in Mailers, q \in Subjects : TakeTask(n, q)
    BY DEF Next, Register, Invite, CreateOrganization, Start, Statement, CheckEmail,
           InsertRow, Publish, ProbeSlug, InsertOrganization, Fail, VerifyEmail,
           DeleteRow, DestroyOrganization, ReviveOrganization, DeleteCreator
  <1> QED  BY <1>1, <1>2, <1>3, <1>4, <1>5, <1>6 DEF Task

\* A mail that is on its way goes on, is sent, or is lost to a failure.
LEMMA NextAccounted ==
    ASSUME TypeOK, KeysInv, TasksInv, MailAccounted, Next
    PROVE  MailAccounted'
  <1> USE DEF rows, mail, bounds, aux
  <1> SUFFICES ASSUME NEW s \in Subjects, Exists(s)'
               PROVE  (\/ sent[s] > 0 \/ broker[s] > 0 \/ s \in lost
                       \/ \E m \in Mailers : mailer[m] # Idle /\ mailer[m].subject = s
                       \/ \E w \in Workers : At(w, "publish") /\ job[w].subject = s)'
    BY DEF MailAccounted
  <1> DEFINE Goal == (\/ sent[s] > 0 \/ broker[s] > 0 \/ s \in lost
                      \/ \E m \in Mailers : mailer[m] # Idle /\ mailer[m].subject = s
                      \/ \E w \in Workers : At(w, "publish") /\ job[w].subject = s)'
  <1>1. CASE ~Exists(s)
    <2>1. PICK w \in Workers : InsertRow(w) /\ job[w].subject = s
      BY <1>1, RowsMove
    <2>2. job'[w] = [pc |-> "publish", subject |-> s]
      BY <1>1, <2>1 DEF InsertRow, Become, TypeOK
    <2>3. job'[w] # Idle
      BY <2>2, OnboardingAssumption DEF Job
    <2> QED  BY <2>2, <2>3 DEF At
  <1>2. CASE Exists(s)
    <2> DEFINE Held == \E m \in Mailers : mailer[m] # Idle /\ mailer[m].subject = s
               Waits == \E w \in Workers : At(w, "publish") /\ job[w].subject = s
    <2>1. sent[s] > 0 \/ broker[s] > 0 \/ s \in lost \/ Held \/ Waits
      BY <1>2 DEF MailAccounted
    <2>2. CASE sent[s] > 0
      BY <2>2, SentGrows
    <2>3. CASE s \in lost
      <3>1. lost \subseteq lost'
        BY DEF Next, Register, Invite, CreateOrganization, Start, Statement, CheckEmail,
               InsertRow, Publish, ProbeSlug, InsertOrganization, Fail, TakeTask, Task,
               RunTask, SendMail, Acknowledge, TaskFails, MailerDies, VerifyEmail,
               DeleteRow, DestroyOrganization, ReviveOrganization, DeleteCreator
      <3> QED  BY <2>3, <3>1
    <2>4. CASE broker[s] > 0
      <3>1. ASSUME NEW m \in Mailers, NEW q \in Subjects, TakeTask(m, q)
            PROVE  Goal
        <4>1. CASE q = s
          <5>1. mailer'[m] = [pc |-> "run", subject |-> s]
            BY <3>1, <4>1 DEF TakeTask, Holds, TypeOK, Delivery
          <5>2. mailer'[m] # Idle
            BY <5>1, OnboardingAssumption DEF Delivery
          <5> QED  BY <5>1, <5>2
        <4>2. CASE q # s
          BY <2>4, <3>1, <4>2 DEF TakeTask, TypeOK
        <4> QED  BY <4>1, <4>2
      <3>2. ASSUME NEW w \in Workers, Publish(w)
            PROVE  Goal
        BY <2>4, <3>2, Locals DEF Publish, TypeOK
      <3>3. ASSUME NEW m \in Mailers, MailerDies(m)
            PROVE  Goal
        BY <2>4, <3>3, Locals DEF MailerDies, TypeOK
      <3>4. \/ UNCHANGED broker
            \/ \E w \in Workers : Publish(w)
            \/ \E m \in Mailers : MailerDies(m)
            \/ \E m \in Mailers, q \in Subjects : TakeTask(m, q)
        BY DEF Next, Register, Invite, CreateOrganization, Start, Statement,
               CheckEmail, InsertRow, ProbeSlug, InsertOrganization, Fail, Task,
               RunTask, SendMail, Acknowledge, TaskFails, VerifyEmail, DeleteRow,
               DestroyOrganization, ReviveOrganization, DeleteCreator
      <3> QED  BY <2>4, <3>1, <3>2, <3>3, <3>4
    <2>5. CASE Held
      <3>1. PICK m \in Mailers : mailer[m] # Idle /\ mailer[m].subject = s
        BY <2>5
      <3>2. mailer[m] \in Delivery  BY <3>1 DEF TypeOK
      <3>3. CASE mailer'[m] = mailer[m]
        BY <3>1, <3>3
      <3>4. CASE RunTask(m) \/ SendMail(m)
        <4>1. PICK d \in Delivery : mailer'[m] = d /\ d.subject = s
          BY <3>1, <3>2, <3>4 DEF RunTask, SendMail, Holds, TypeOK, Delivery
        <4> QED  BY <4>1, OnboardingAssumption
      <3>5. CASE Acknowledge(m)
        <4>1. sent[s] > 0 \/ row[s] = "gone"
          BY <3>1, <3>5 DEF Acknowledge, TasksInv
        <4> QED  BY <1>2, <2>2, <4>1 DEF Exists
      <3>6. CASE TaskFails(m)
        <4>1. s \in lost' \/ sent[s] > 0 \/ row[s] = "gone"
          BY <3>1, <3>6 DEF TaskFails, TasksInv
        <4> QED  BY <1>2, <2>2, <4>1 DEF Exists
      <3>7. CASE MailerDies(m)
        BY <3>1, <3>7 DEF MailerDies, TypeOK
      <3>8. ASSUME NEW n \in Mailers, n # m,
                   \/ Task(n) \/ TaskFails(n) \/ MailerDies(n)
                   \/ \E q \in Subjects : TakeTask(n, q)
            PROVE  mailer'[m] = mailer[m]
        BY <3>8 DEF Task, RunTask, SendMail, Acknowledge, TaskFails, MailerDies,
                    TakeTask, Holds, TypeOK
      <3>9. \/ mailer'[m] = mailer[m]
            \/ RunTask(m) \/ SendMail(m) \/ Acknowledge(m) \/ TaskFails(m) \/ MailerDies(m)
        <4>1. ASSUME NEW q \in Subjects, TakeTask(m, q) PROVE FALSE
          BY <3>1, <4>1 DEF TakeTask
        <4>2. \/ UNCHANGED mailer
              \/ \E n \in Mailers : Task(n) \/ TaskFails(n) \/ MailerDies(n)
              \/ \E n \in Mailers, q \in Subjects : TakeTask(n, q)
          BY DEF Next, Register, Invite, CreateOrganization, Start, Statement,
                 CheckEmail, InsertRow, Publish, ProbeSlug, InsertOrganization, Fail,
                 VerifyEmail, DeleteRow, DestroyOrganization, ReviveOrganization,
                 DeleteCreator
        <4> QED  BY <3>8, <4>1, <4>2 DEF Task
      <3> QED  BY <3>3, <3>4, <3>5, <3>6, <3>7, <3>9
    <2>6. CASE Waits
      <3>1. PICK w \in Workers : At(w, "publish") /\ job[w].subject = s
        BY <2>6
      <3>2. CASE job'[w] = job[w]
        BY <3>1, <3>2 DEF At
      <3>3. CASE Publish(w)
        BY <3>1, <3>3 DEF Publish, TypeOK
      <3>4. CASE Fail(w)
        BY <3>1, <3>4 DEF Fail
      <3>5. ASSUME NEW v \in Workers, NEW j, v # w, Become(v, j)
            PROVE  job'[w] = job[w]
        BY <3>5 DEF Become, TypeOK
      <3>6. ASSUME NEW v \in Workers,
                   \/ \E q \in Subjects : Register(v, q) \/ Invite(v, q)
                   \/ CreateOrganization(v) \/ CheckEmail(v) \/ InsertRow(v)
                   \/ ProbeSlug(v) \/ InsertOrganization(v) \/ DeleteCreator(v)
            PROVE  job'[w] = job[w]
        <4>1. v # w
          BY <3>1, <3>6 DEF Register, Invite, CreateOrganization, Start, CheckEmail,
                            InsertRow, ProbeSlug, InsertOrganization, DeleteCreator, At
        <4> QED
          BY <3>5, <3>6, <4>1 DEF Register, Invite, CreateOrganization, Start,
               CheckEmail, InsertRow, ProbeSlug, InsertOrganization, DeleteCreator
      <3>7. ASSUME NEW v \in Workers, v # w, Publish(v) \/ Fail(v)
            PROVE  job'[w] = job[w]
        BY <3>5, <3>7 DEF Publish, Fail
      <3>8. CASE \/ \E m \in Mailers, q \in Subjects : TakeTask(m, q)
                 \/ \E m \in Mailers : Task(m) \/ TaskFails(m) \/ MailerDies(m)
                 \/ \E q \in Subjects : VerifyEmail(q) \/ DeleteRow(q)
                 \/ \E n \in Slugs : DestroyOrganization(n) \/ ReviveOrganization(n)
        <4>1. UNCHANGED job
          BY <3>8 DEF TakeTask, Task, RunTask, SendMail, Acknowledge, TaskFails,
                      MailerDies, VerifyEmail, DeleteRow, DestroyOrganization,
                      ReviveOrganization, DeleteCreator
        <4> QED  BY <3>2, <4>1
      <3> QED
        BY <3>2, <3>3, <3>4, <3>6, <3>7, <3>8 DEF Next, Statement, Subjects
    <2> QED  BY <2>1, <2>2, <2>3, <2>4, <2>5, <2>6
  <1> QED  BY <1>1, <1>2
-----------------------------------------------------------------------------
LEMMA NextIInv == IInv /\ [Next]_vars => IInv'
  <1> SUFFICES ASSUME IInv, [Next]_vars PROVE IInv'  OBVIOUS
  <1>1. CASE Next
    BY <1>1, NextTypeOK, NextKeys, NextTasks, NextOutrun, NextAccounted DEF IInv
  <1>2. CASE UNCHANGED vars
    <2> USE DEF IInv, vars, rows, mail, bounds, aux
    <2>1. TypeOK'  BY <1>2 DEF TypeOK
    <2>2. KeysInv'  BY <1>2 DEF KeysInv, At
    <2>3. TasksInv'  BY <1>2 DEF TasksInv, MailAt
    <2>4. OutrunInv'  BY <1>2 DEF OutrunInv, At
    <2>5. MailAccounted'  BY <1>2 DEF MailAccounted, Exists, At
    <2> QED  BY <2>1, <2>2, <2>3, <2>4, <2>5
  <1> QED  BY <1>1, <1>2

\* The type invariant of accounts, invitations, tasks and creations.
THEOREM OnboardingTypeCorrect == Spec => []TypeOK
  <1> QED  BY InitIInv, NextIInv, PTL DEF Spec, IInv

\* Between the commit of an account or an invitation (accounts/views.py,
\* organizations/views.py) and its mail, only a failure loses it.
THEOREM MailTheorem == Spec => []MailAccounted
  <1> QED  BY InitIInv, NextIInv, PTL DEF Spec, IInv

\* _create_org_with_owner gives up only when others inserted an organization
\* during each of its attempts, or its creator's account is gone.
THEOREM OutrunTheorem == Spec => GivesUpOnlyOutrun
  <1>1. IInv /\ [Next]_vars =>
          [\A w \in Workers :
              At(w, "create") /\ job'[w] = Idle /\ failures' = failures /\ taken' = taken
                 => rivals[w] >= Attempts \/ ~job[w].creator]_vars
    BY GivesUp DEF IInv
  <1> QED  BY <1>1, InitIInv, NextIInv, PTL DEF Spec, GivesUpOnlyOutrun
-----------------------------------------------------------------------------
(* One mail each: every copy of a task is published for the insert of its  *)
(* row, or delivered again.                                                *)

\* The requests about to publish the task of s, and the Celery workers that
\* hold it and have sent nothing.
Publishing(s) == {w \in Workers : At(w, "publish") /\ job[w].subject = s}
Unsent(s)     == {m \in Mailers : /\ MailAt(m, "run") \/ MailAt(m, "send")
                                  /\ mailer[m].subject = s}

\* The mails of s there have been and may still be.
Copies(s) == Cardinality(Publishing(s)) + broker[s] + Cardinality(Unsent(s)) + sent[s]

CopiesInv ==
    \A s \in Subjects : /\ row[s] = "absent" => sent[s] = 0
                        /\ Copies(s) <= 1 + redelivered[s]

LEMMA Smaller ==
    ASSUME NEW S, NEW T, T \subseteq S, IsFiniteSet(S)
    PROVE  /\ Cardinality(S) \in Nat /\ Cardinality(T) \in Nat
           /\ Cardinality(T) <= Cardinality(S)
           /\ \A x \in S : x \notin T => Cardinality(T) + 1 <= Cardinality(S)
  <1>1. IsFiniteSet(T) /\ Cardinality(T) <= Cardinality(S)  BY FS_Subset
  <1>2. ASSUME NEW x \in S, x \notin T
        PROVE  Cardinality(T) + 1 <= Cardinality(S)
    <2>1. T \cup {x} \subseteq S  BY <1>2
    <2>2. Cardinality(T \cup {x}) <= Cardinality(S)  BY <2>1, FS_Subset
    <2>3. Cardinality(T \cup {x}) = Cardinality(T) + 1  BY <1>1, <1>2, FS_AddElement
    <2> QED  BY <2>2, <2>3
  <1> QED  BY <1>1, <1>2, FS_CardinalityType

LEMMA CopiesFinite ==
    ASSUME NEW s
    PROVE  /\ IsFiniteSet(Publishing(s)) /\ IsFiniteSet(Unsent(s))
           /\ IsFiniteSet(Publishing(s)') /\ IsFiniteSet(Unsent(s)')
           /\ Cardinality(Publishing(s)) \in Nat /\ Cardinality(Unsent(s)) \in Nat
           /\ Cardinality(Publishing(s)') \in Nat /\ Cardinality(Unsent(s)') \in Nat
  <1>1. /\ Publishing(s) \subseteq Workers /\ Publishing(s)' \subseteq Workers
        /\ Unsent(s) \subseteq Mailers /\ Unsent(s)' \subseteq Mailers
    BY DEF Publishing, Unsent
  <1>2. /\ IsFiniteSet(Publishing(s)) /\ IsFiniteSet(Publishing(s)')
        /\ IsFiniteSet(Unsent(s)) /\ IsFiniteSet(Unsent(s)')
    BY <1>1, FS_Subset, OnboardingAssumption
  <1> QED  BY <1>2, FS_CardinalityType

\* A step of a request publishes what it was about to publish, or is about to
\* publish what it inserted.
LEMMA PublishingMoves ==
    ASSUME TypeOK, KeysInv, Next, NEW s \in Subjects
    PROVE  \/ Publishing(s)' \subseteq Publishing(s) /\ UNCHANGED broker
           \/ /\ Publishing(s)' \subseteq Publishing(s)
              /\ \E m \in Mailers : MailerDies(m) \/ \E q \in Subjects : TakeTask(m, q)
           \/ \E w \in Workers : /\ Publish(w) /\ Publishing(s)' \subseteq Publishing(s)
                                 /\ job[w].subject = s => w \notin Publishing(s)'
           \/ \E w \in Workers : /\ InsertRow(w) /\ row[s] = "absent" /\ UNCHANGED broker
                                 /\ Publishing(s)' \subseteq {w}
  <1> USE DEF rows, mail, bounds, aux
  <1>1. ASSUME NEW w \in Workers, NEW j, Become(w, j),
               j # Idle => j.pc # "publish" \/ j.subject # s
        PROVE  Publishing(s)' \subseteq Publishing(s) /\ w \notin Publishing(s)'
    BY <1>1 DEF Become, TypeOK, Publishing, At
  <1>2. ASSUME NEW w \in Workers,
               \/ \E q \in Subjects : Register(w, q) \/ Invite(w, q)
               \/ CreateOrganization(w) \/ CheckEmail(w) \/ Publish(w) \/ Fail(w)
               \/ InsertOrganization(w)
        PROVE  Publishing(s)' \subseteq Publishing(s) /\ w \notin Publishing(s)'
    <2>1. CASE CheckEmail(w)
      BY <1>1, <2>1 DEF CheckEmail
    <2>2. CASE InsertOrganization(w)
      <3>1. PICK j : Become(w, j) /\ (j # Idle => j.pc # "publish")
        BY <2>2, CreatorMoves
      <3> QED  BY <1>1, <3>1
    <2>3. CASE CreateOrganization(w) \/ Publish(w) \/ Fail(w)
      BY <1>1, <2>3 DEF CreateOrganization, Start, Publish, Fail
    <2>4. ASSUME NEW q \in Subjects, Register(w, q) \/ Invite(w, q)
          PROVE  Publishing(s)' \subseteq Publishing(s) /\ w \notin Publishing(s)'
      BY <1>1, <2>4 DEF Register, Invite, Start
    <2> QED  BY <1>2, <2>1, <2>2, <2>3, <2>4
  <1>3. ASSUME NEW w \in Workers, ProbeSlug(w) \/ DeleteCreator(w)
        PROVE  Publishing(s)' \subseteq Publishing(s)
    <2>1. job[w] \in Creation
      BY <1>3, Locals DEF ProbeSlug, DeleteCreator
    <2>2. PICK j : Become(w, j) /\ j.pc \in {"probe", "create"}
      BY <1>3, <2>1 DEF ProbeSlug, DeleteCreator, At
    <2> QED  BY <1>1, <2>2
  <1>4. ASSUME NEW w \in Workers, InsertRow(w)
        PROVE  \/ Publishing(s)' \subseteq Publishing(s)
               \/ row[s] = "absent" /\ Publishing(s)' \subseteq {w}
    <2>1. CASE job[w].subject = s /\ ~Exists(s)
      <3>1. row[s] = "absent"
        BY <1>4, <2>1 DEF InsertRow, KeysInv, TypeOK, RowState, Exists
      <3>2. Publishing(s) = {}  BY <3>1 DEF KeysInv, Publishing
      <3>3. Publishing(s)' \subseteq {w}
        BY <1>4, <3>2 DEF InsertRow, Become, TypeOK, Publishing, At
      <3> QED  BY <3>1, <3>3
    <2>2. CASE ~(job[w].subject = s /\ ~Exists(s))
      <3>1. PICK j : Become(w, j) /\ (j # Idle => j.subject # s)
        BY <1>4, <2>2 DEF InsertRow
      <3> QED  BY <1>1, <3>1
    <2> QED  BY <2>1, <2>2
  <1>5. ASSUME UNCHANGED job
        PROVE  Publishing(s)' \subseteq Publishing(s)
    BY <1>5 DEF Publishing, At
  <1>6. CASE \E w \in Workers : \/ \E q \in Subjects : Register(w, q) \/ Invite(w, q)
                                \/ CreateOrganization(w) \/ CheckEmail(w) \/ Fail(w)
                                \/ InsertOrganization(w) \/ ProbeSlug(w)
                                \/ DeleteCreator(w)
    <2>1. UNCHANGED broker
      BY <1>6 DEF Register, Invite, CreateOrganization, CheckEmail, Fail,
                  InsertOrganization, ProbeSlug, DeleteCreator
    <2> QED  BY <1>2, <1>3, <1>6, <2>1
  <1>7. CASE \E w \in Workers : Publish(w)
    BY <1>2, <1>7
  <1>8. CASE \E w \in Workers : InsertRow(w)
    <2>1. UNCHANGED broker  BY <1>8 DEF InsertRow
    <2> QED  BY <1>4, <1>8, <2>1
  <1>9. CASE \E m \in Mailers : MailerDies(m) \/ \E q \in Subjects : TakeTask(m, q)
    <2>1. UNCHANGED job  BY <1>9 DEF MailerDies, TakeTask
    <2> QED  BY <1>5, <1>9, <2>1
  <1>10. CASE \/ \E m \in Mailers : Task(m) \/ TaskFails(m)
              \/ \E q \in Subjects : VerifyEmail(q) \/ DeleteRow(q)
              \/ \E n \in Slugs : DestroyOrganization(n) \/ ReviveOrganization(n)
    <2>1. UNCHANGED <<job, broker>>
      BY <1>10 DEF Task, RunTask, SendMail, Acknowledge, TaskFails, VerifyEmail,
                   DeleteRow, DestroyOrganization, ReviveOrganization, DeleteCreator
    <2> QED  BY <1>5, <2>1
  <1> QED
    BY <1>6, <1>7, <1>8, <1>9, <1>10 DEF Next, Statement, Subjects

\* What a step does to the tasks of s that Celery workers hold.
LEMMA UnsentMoves ==
    ASSUME TypeOK, Next, NEW s \in Subjects
    PROVE  \/ Unsent(s)' \subseteq Unsent(s) /\ UNCHANGED sent
           \/ \E m \in Mailers : /\ TakeTask(m, s) /\ UNCHANGED sent
                                 /\ Unsent(s)' \subseteq Unsent(s) \cup {m}
           \/ \E m \in Mailers : /\ SendMail(m) /\ Unsent(s)' \subseteq Unsent(s)
                                 /\ mailer[m].subject = s =>
                                       m \in Unsent(s) /\ m \notin Unsent(s)'
  <1> USE DEF rows, mail, bounds, aux, Unsent, MailAt
  <1>1. ASSUME NEW m \in Mailers, SendMail(m)
        PROVE  /\ Unsent(s)' \subseteq Unsent(s)
               /\ mailer[m].subject = s => m \in Unsent(s) /\ m \notin Unsent(s)'
    <2>1. mailer'[m].pc = "ack" /\ \A n \in Mailers \ {m} : mailer'[n] = mailer[n]
      BY <1>1 DEF SendMail, Holds, TypeOK, Delivery
    <2> QED  BY <1>1, <2>1 DEF SendMail
  <1>2. ASSUME NEW m \in Mailers, NEW q \in Subjects, TakeTask(m, q)
        PROVE  /\ UNCHANGED sent
               /\ Unsent(s)' \subseteq Unsent(s) \cup {m}
               /\ q # s => Unsent(s)' \subseteq Unsent(s)
    <2>1. /\ mailer'[m].subject = q
          /\ \A n \in Mailers \ {m} : mailer'[n] = mailer[n]
      BY <1>2 DEF TakeTask, Holds, TypeOK
    <2> QED  BY <1>2, <2>1 DEF TakeTask
  <1>3. ASSUME NEW m \in Mailers, RunTask(m)
        PROVE  Unsent(s)' \subseteq Unsent(s) /\ UNCHANGED sent
    <2>1. /\ mailer'[m].subject = mailer[m].subject
          /\ \A n \in Mailers \ {m} : mailer'[n] = mailer[n]
      BY <1>3 DEF RunTask, Holds, TypeOK, Delivery
    <2> QED  BY <1>3, <2>1 DEF RunTask
  <1>4. ASSUME NEW m \in Mailers, Acknowledge(m) \/ TaskFails(m) \/ MailerDies(m)
        PROVE  Unsent(s)' \subseteq Unsent(s) /\ UNCHANGED sent
    <2>1. mailer'[m] = Idle /\ \A n \in Mailers \ {m} : mailer'[n] = mailer[n]
      BY <1>4 DEF Acknowledge, TaskFails, MailerDies, Holds, TypeOK
    <2> QED  BY <1>4, <2>1 DEF Acknowledge, TaskFails, MailerDies
  <1>5. CASE UNCHANGED <<mailer, sent>>
    BY <1>5
  <1>6. \/ UNCHANGED <<mailer, sent>>
        \/ \E m \in Mailers : Task(m) \/ TaskFails(m) \/ MailerDies(m)
        \/ \E m \in Mailers, q \in Subjects : TakeTask(m, q)
    BY DEF Next, Register, Invite, CreateOrganization, Start, Statement, CheckEmail,
           InsertRow, Publish, ProbeSlug, InsertOrganization, Fail, VerifyEmail,
           DeleteRow, DestroyOrganization, ReviveOrganization, DeleteCreator
  <1> HIDE DEF Unsent, MailAt
  <1> QED  BY <1>1, <1>2, <1>3, <1>4, <1>5, <1>6 DEF Task

LEMMA NextCopies ==
    ASSUME TypeOK, KeysInv, CopiesInv, Next
    PROVE  CopiesInv'
  <1> USE DEF rows, mail, bounds, aux
  <1> SUFFICES ASSUME NEW s \in Subjects
               PROVE  /\ row'[s] = "absent" => sent'[s] = 0
                      /\ Copies(s)' <= 1 + redelivered'[s]
    BY DEF CopiesInv
  <1> DEFINE P  == Cardinality(Publishing(s))
             Pn == Cardinality(Publishing(s)')
             U  == Cardinality(Unsent(s))
             Un == Cardinality(Unsent(s)')
             b  == broker[s]
             bn == broker'[s]
             n  == sent[s]
             nn == sent'[s]
             r  == redelivered[s]
             rn == redelivered'[s]
  <1>1. /\ P \in Nat /\ Pn \in Nat /\ U \in Nat /\ Un \in Nat
        /\ b \in Nat /\ bn \in Nat /\ n \in Nat /\ nn \in Nat /\ r \in Nat /\ rn \in Nat
    BY CopiesFinite, NextTypeOK DEF TypeOK
  <1>2. P + b + U + n <= 1 + r  BY DEF CopiesInv, Copies
  <1>3. Publishing(s)' \subseteq Publishing(s) => Pn <= P
    BY CopiesFinite, Smaller
  <1>4. Unsent(s)' \subseteq Unsent(s) => Un <= U
    BY CopiesFinite, Smaller
  <1>5. rn >= r
    <2>1. ASSUME NEW m \in Mailers, MailerDies(m)
          PROVE  rn >= r
      BY <1>1, <2>1, Locals DEF MailerDies, TypeOK
    <2>2. UNCHANGED redelivered \/ \E m \in Mailers : MailerDies(m)
      BY DEF Next, Register, Invite, CreateOrganization, Start, Statement, CheckEmail,
             InsertRow, Publish, ProbeSlug, InsertOrganization, Fail, TakeTask, Task,
             RunTask, SendMail, Acknowledge, TaskFails, VerifyEmail, DeleteRow,
             DestroyOrganization, ReviveOrganization, DeleteCreator
    <2> QED  BY <1>1, <2>1, <2>2
  <1>6. Pn + bn + Un + nn <= 1 + rn
    <2>1. ASSUME NEW m \in Mailers, SendMail(m), Unsent(s)' \subseteq Unsent(s),
                 mailer[m].subject = s => m \in Unsent(s) /\ m \notin Unsent(s)'
          PROVE  Un + nn <= U + n
      <3>1. CASE mailer[m].subject = s
        <4>1. Un + 1 <= U
          BY <2>1, <3>1, CopiesFinite, Smaller
        <4>2. nn = n + 1  BY <2>1, <3>1 DEF SendMail, TypeOK
        <4> QED  BY <1>1, <4>1, <4>2
      <3>2. CASE mailer[m].subject # s
        <4>1. nn = n  BY <2>1, <3>2 DEF SendMail, TypeOK
        <4> QED  BY <1>1, <1>4, <2>1, <4>1
      <3> QED  BY <3>1, <3>2
    <2>2. UNCHANGED broker => Un + nn <= U + n
      <3>1. ASSUME NEW m \in Mailers, TakeTask(m, s), UNCHANGED broker PROVE FALSE
        BY <1>1, <3>1 DEF TakeTask, TypeOK
      <3> QED  BY <1>1, <1>4, <2>1, <3>1, UnsentMoves
    <2>3. CASE Publishing(s)' \subseteq Publishing(s) /\ UNCHANGED broker
      BY <1>1, <1>2, <1>3, <1>5, <2>2, <2>3
    <2>4. ASSUME NEW m \in Mailers, MailerDies(m), Publishing(s)' \subseteq Publishing(s)
          PROVE  Pn + bn + Un + nn <= 1 + rn
      <3>1. \/ bn = b + 1 /\ rn = r + 1
            \/ bn = b /\ rn = r
        BY <2>4, Locals DEF MailerDies, TypeOK
      <3>2. UNCHANGED sent /\ mailer' = [mailer EXCEPT ![m] = Idle]
        BY <2>4 DEF MailerDies, Holds
      <3>3. Unsent(s)' \subseteq Unsent(s)
        BY <3>2 DEF Unsent, MailAt, TypeOK
      <3> QED  BY <1>1, <1>2, <1>3, <1>4, <2>4, <3>1, <3>2, <3>3
    <2>5. ASSUME NEW m \in Mailers, NEW q \in Subjects, TakeTask(m, q),
                 Publishing(s)' \subseteq Publishing(s)
          PROVE  Pn + bn + Un + nn <= 1 + rn
      <3>1. UNCHANGED sent /\ mailer' = [mailer EXCEPT ![m] = [pc |-> "run", subject |-> q]]
        BY <2>5 DEF TakeTask, Holds
      <3>2. CASE q = s
        <4>1. bn = b - 1  BY <2>5, <3>2 DEF TakeTask, TypeOK
        <4>2. Unsent(s)' \subseteq Unsent(s) \cup {m}
          BY <3>1 DEF Unsent, MailAt, TypeOK
        <4>3. IsFiniteSet(Unsent(s) \cup {m}) /\ Cardinality(Unsent(s) \cup {m}) <= U + 1
          <5>1. IsFiniteSet(Unsent(s)) /\ U \in Nat  BY CopiesFinite
          <5> QED  BY <5>1, FS_AddElement
        <4>4. Un <= Cardinality(Unsent(s) \cup {m}) /\ Cardinality(Unsent(s) \cup {m}) \in Nat
          BY <4>2, <4>3, Smaller
        <4> QED  BY <1>1, <1>2, <1>3, <1>5, <2>5, <3>1, <4>1, <4>3, <4>4
      <3>3. CASE q # s
        <4>1. bn = b  BY <2>5, <3>3 DEF TakeTask, TypeOK
        <4>2. Unsent(s)' \subseteq Unsent(s)
          BY <3>1, <3>3 DEF Unsent, MailAt, TypeOK
        <4> QED  BY <1>1, <1>2, <1>3, <1>4, <1>5, <2>5, <3>1, <4>1, <4>2
      <3> QED  BY <3>2, <3>3
    <2>6. ASSUME NEW w \in Workers, Publish(w), Publishing(s)' \subseteq Publishing(s),
                 job[w].subject = s => w \notin Publishing(s)'
          PROVE  Pn + bn + Un + nn <= 1 + rn
      <3>1. UNCHANGED <<mailer, sent>>  BY <2>6 DEF Publish
      <3>2. Un = U /\ nn = n  BY <3>1 DEF Unsent, MailAt
      <3>3. CASE job[w].subject = s
        <4>1. w \in Publishing(s)  BY <2>6, <3>3 DEF Publish, Publishing
        <4>2. Pn + 1 <= P  BY <2>6, <3>3, <4>1, CopiesFinite, Smaller
        <4>3. bn = b + 1  BY <2>6, <3>3 DEF Publish, TypeOK
        <4> QED  BY <1>1, <1>2, <1>5, <3>2, <4>2, <4>3
      <3>4. CASE job[w].subject # s
        <4>1. bn = b  BY <2>6, <3>4 DEF Publish, TypeOK
        <4> QED  BY <1>1, <1>2, <1>3, <1>5, <2>6, <3>2, <4>1
      <3> QED  BY <3>3, <3>4
    <2>7. ASSUME NEW w \in Workers, InsertRow(w), row[s] = "absent", UNCHANGED broker,
                 Publishing(s)' \subseteq {w}
          PROVE  Pn + bn + Un + nn <= 1 + rn
      <3>1. UNCHANGED <<mailer, sent>>  BY <2>7 DEF InsertRow
      <3>2. Unsent(s)' = {}  BY <2>7, <3>1 DEF Unsent, MailAt, KeysInv
      <3>3. bn = 0 /\ nn = 0  BY <1>1, <2>7, <3>1 DEF KeysInv, CopiesInv
      <3>4. Un = 0  BY <3>2, FS_EmptySet
      <3>5. IsFiniteSet({w}) /\ Cardinality({w}) = 1  BY FS_Singleton
      <3>6. Pn <= 1  BY <2>7, <3>5, Smaller
      <3> QED  BY <1>1, <3>3, <3>4, <3>6
    <2> QED  BY <2>3, <2>4, <2>5, <2>6, <2>7, PublishingMoves
  <1>7. ASSUME row'[s] = "absent"
        PROVE  nn = 0
    <2>1. row[s] = "absent" /\ n = 0  BY <1>7, RowsMove DEF CopiesInv
    <2>2. ASSUME NEW m \in Mailers, SendMail(m)
          PROVE  nn = n
      <3>1. mailer[m].subject # s  BY <2>1, <2>2 DEF SendMail, MailAt, KeysInv
      <3> QED  BY <2>2, <3>1 DEF SendMail, TypeOK
    <2>3. UNCHANGED sent \/ \E m \in Mailers : SendMail(m)
      BY UnsentMoves
    <2> QED  BY <2>1, <2>2, <2>3
  <1> QED  BY <1>6, <1>7 DEF Copies

\* send_verification_email_task and send_invitation_email_task with
\* CELERY_TASK_ACKS_LATE: no order of registrations, commits and deliveries
\* mails twice; only a redelivery does, once each.
THEOREM OneMailTheorem == Spec => []OneMailEach
  <1> DEFINE I == IInv /\ CopiesInv
  <1>1. Init => CopiesInv
    <2> SUFFICES ASSUME Init, NEW s \in Subjects
                 PROVE  sent[s] = 0 /\ Copies(s) <= 1 + redelivered[s]
      BY DEF CopiesInv
    <2>1. Publishing(s) = {} /\ Unsent(s) = {}
      BY DEF Init, Publishing, Unsent, At, MailAt
    <2>2. broker[s] = 0 /\ sent[s] = 0 /\ redelivered[s] = 0  BY DEF Init
    <2> QED  BY <2>1, <2>2, FS_EmptySet DEF Copies
  <1>2. I /\ [Next]_vars => CopiesInv'
    <2>1. ASSUME I, UNCHANGED vars PROVE CopiesInv'
      BY <2>1 DEF vars, rows, mail, aux, CopiesInv, Copies, Publishing, Unsent, At,
                  MailAt
    <2> QED  BY <2>1, NextCopies DEF IInv
  <1>3. I => OneMailEach
    BY CopiesFinite DEF IInv, CopiesInv, Copies, OneMailEach, TypeOK
  <1> QED  BY <1>1, <1>2, <1>3, InitIInv, NextIInv, PTL DEF Spec
=============================================================================
