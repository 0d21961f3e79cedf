----------------------------- MODULE Onboarding -----------------------------
(***************************************************************************)
(* Getting in: an account or an invitation is committed, then a task with  *)
(* its mail is published to the broker and run by a Celery worker; a new   *)
(* organization looks for a slug.  Each of them checks what is there and   *)
(* then inserts, and only a unique index stands between the two.           *)
(***************************************************************************)
EXTENDS Integers, FiniteSets

CONSTANTS
    Accounts,     \* e-mail addresses to register
    Invitations,  \* invitations to create (module Seats says when)
    Workers,      \* request workers
    Mailers,      \* Celery workers
    Attempts,     \* how often _create_org_with_owner tries: 6
    MaxRequests,  \* bound: requests
    MaxFailures,  \* bound: workers that die, mails that fail
    MaxSuffix,    \* bound: slugs with one base
    Idle          \* a worker without anything to do

Subjects == Accounts \cup Invitations
Slugs    == 1..MaxSuffix      \* 1 is the base itself, n > 1 is base-n

VARIABLES
    row,          \* row[s]: the account's or the invitation's row
    broker,       \* broker[s]: copies of the task of s in the queue
    mailer,       \* mailer[m]: the task Celery worker m holds unacknowledged
    sent,         \* sent[s]: mails sent
    taken,        \* the slugs of one base that organizations have
    job,          \* job[w]: the request worker w serves, and what it has read
    requests,     \* requests so far
    failures,     \* failures so far
    lost,         \* auxiliary: subjects whose mail a failure swallowed
    redelivered,  \* auxiliary: redelivered[s], how often its task was redelivered
    rivals        \* auxiliary: rivals[w], organizations inserted during w's request

rows   == <<row, taken>>
mail   == <<broker, mailer, sent>>
bounds == <<requests, failures>>
aux    == <<lost, redelivered, rivals>>
vars   == <<rows, mail, job, bounds, aux>>

RowState == {"absent", "present", "verified", "gone"}

\* A slug search: the candidate, which attempt it is, and whether the account
\* of the creator still exists.
Creation == [pc : {"probe", "create"}, slug : Slugs, attempt : 1..Attempts,
             creator : BOOLEAN]

Job == [pc : {"check", "insert", "publish"}, subject : Subjects] \cup Creation

Delivery == [pc : {"run", "send", "ack"}, subject : Subjects]

ASSUME OnboardingAssumption ==
    /\ IsFiniteSet(Subjects) /\ IsFiniteSet(Workers) /\ IsFiniteSet(Mailers)
    /\ Attempts \in Nat \ {0}
    /\ MaxRequests \in Nat /\ MaxFailures \in Nat /\ MaxSuffix \in Nat \ {0}
    /\ Idle \notin Job \cup Delivery

TypeOK ==
    /\ row \in [Subjects -> RowState]
    /\ broker \in [Subjects -> Nat]
    /\ mailer \in [Mailers -> Delivery \cup {Idle}]
    /\ sent \in [Subjects -> Nat]
    /\ taken \subseteq Slugs
    /\ job \in [Workers -> Job \cup {Idle}]
    /\ requests \in 0..MaxRequests /\ failures \in 0..MaxFailures
    /\ lost \subseteq Subjects
    /\ redelivered \in [Subjects -> Nat]
    /\ rivals \in [Workers -> Nat]

Init ==
    /\ row = [s \in Subjects |-> "absent"]
    /\ broker = [s \in Subjects |-> 0]
    /\ mailer = [m \in Mailers |-> Idle]
    /\ sent = [s \in Subjects |-> 0]
    /\ taken = {}
    /\ job = [w \in Workers |-> Idle]
    /\ requests = 0 /\ failures = 0 /\ lost = {}
    /\ redelivered = [s \in Subjects |-> 0]
    /\ rivals = [w \in Workers |-> 0]

Exists(s)    == row[s] \in {"present", "verified"}
At(w, pc)    == job[w] # Idle /\ job[w].pc = pc
MailAt(m, pc) == mailer[m] # Idle /\ mailer[m].pc = pc
Become(w, j) == job' = [job EXCEPT ![w] = j]
Holds(m, t)  == mailer' = [mailer EXCEPT ![m] = t]

Registering(s) ==
    \E w \in Workers : (At(w, "check") \/ At(w, "insert")) /\ job[w].subject = s

Start(w, j) ==
    /\ job[w] = Idle
    /\ requests < MaxRequests
    /\ requests' = requests + 1
    /\ Become(w, j)
-----------------------------------------------------------------------------
(* POST /auth/register, and the end of POST .../invitations                *)

\* A subject is one row, and its key is never used again: an address that is
\* registered once more after its account was deleted is another subject.
Register(w, s) ==
    /\ row[s] # "gone"
    /\ Start(w, [pc |-> "check", subject |-> s])
    /\ UNCHANGED <<rows, mail, failures, aux>>

\* validate_email: "A user with this email already exists."
CheckEmail(w) ==
    /\ At(w, "check")
    /\ Become(w, IF Exists(job[w].subject) THEN Idle
                 ELSE [pc |-> "insert", subject |-> job[w].subject])
    /\ UNCHANGED <<rows, mail, bounds, aux>>

\* The transaction of an invitation nobody competes for begins.
Invite(w, s) ==
    /\ row[s] = "absent" /\ ~Registering(s)
    /\ Start(w, [pc |-> "insert", subject |-> s])
    /\ UNCHANGED <<rows, mail, failures, aux>>

\* A slip for the mutation runs: an existing row is taken for the new one.
InsertRow_GetOrCreate(w) ==
    /\ At(w, "insert")
    /\ row' = [row EXCEPT ![job[w].subject] = "present"]
    /\ Become(w, [pc |-> "publish", subject |-> job[w].subject])
    /\ UNCHANGED <<taken, mail, bounds, aux>>

\* create_user, or the commit of the invitation.  The unique index on the
\* address fails the second of two registrations.
InsertRow(w) ==
    /\ At(w, "insert")
    /\ LET s == job[w].subject IN
       \/ /\ ~Exists(s)
          /\ row' = [row EXCEPT ![s] = "present"]
          /\ Become(w, [pc |-> "publish", subject |-> s])
       \/ /\ Exists(s)
          /\ Become(w, Idle)
          /\ UNCHANGED row
    /\ UNCHANGED <<taken, mail, bounds, aux>>

\* send_..._task.delay, and the response.
Publish(w) ==
    /\ At(w, "publish")
    /\ broker' = [broker EXCEPT ![job[w].subject] = @ + 1]
    /\ Become(w, Idle)
    /\ UNCHANGED <<rows, mailer, sent, bounds, aux>>

\* The worker dies or the broker is down: a row that is committed stays, and
\* nothing will publish its task.
Fail(w) ==
    /\ job[w] # Idle
    /\ failures < MaxFailures
    /\ failures' = failures + 1
    /\ lost' = IF At(w, "publish") THEN lost \cup {job[w].subject} ELSE lost
    /\ Become(w, Idle)
    /\ UNCHANGED <<rows, mail, requests, redelivered, rivals>>
-----------------------------------------------------------------------------
(* Celery, with CELERY_TASK_ACKS_LATE, and the tasks                       *)

TakeTask(m, s) ==
    /\ mailer[m] = Idle
    /\ broker[s] > 0
    /\ broker' = [broker EXCEPT ![s] = @ - 1]
    /\ Holds(m, [pc |-> "run", subject |-> s])
    /\ UNCHANGED <<rows, sent, job, bounds, aux>>

\* A slip for the mutation runs: only a verified address is mailed.
RunTask_VerifiedOnly(m) ==
    /\ MailAt(m, "run")
    /\ Holds(m, [mailer[m] EXCEPT !.pc =
                   IF row[mailer[m].subject] = "verified" THEN "send" ELSE "ack"])
    /\ UNCHANGED <<rows, broker, sent, job, bounds, aux>>

\* The row is read by its key; without one there is no mail.
RunTask(m) ==
    /\ MailAt(m, "run")
    /\ Holds(m, [mailer[m] EXCEPT !.pc = IF Exists(mailer[m].subject) THEN "send" ELSE "ack"])
    /\ UNCHANGED <<rows, broker, sent, job, bounds, aux>>

\* The token is minted and the mail handed to the server.
SendMail(m) ==
    /\ MailAt(m, "send")
    /\ sent' = [sent EXCEPT ![mailer[m].subject] = @ + 1]
    /\ Holds(m, [mailer[m] EXCEPT !.pc = "ack"])
    /\ UNCHANGED <<rows, broker, job, bounds, aux>>

\* The task raises, send_mail does, or the process of the pool that runs it is
\* killed: Celery acknowledges it (task_reject_on_worker_lost is not set), and
\* it has no retry.
TaskFails(m) ==
    /\ mailer[m] # Idle
    /\ failures < MaxFailures
    /\ failures' = failures + 1
    /\ lost' = IF MailAt(m, "ack") THEN lost ELSE lost \cup {mailer[m].subject}
    /\ Holds(m, Idle)
    /\ UNCHANGED <<rows, broker, sent, job, requests, redelivered, rivals>>

Acknowledge(m) ==
    /\ MailAt(m, "ack")
    /\ Holds(m, Idle)
    /\ UNCHANGED <<rows, broker, sent, job, bounds, aux>>

\* A slip for the mutation runs: tasks are acknowledged when they are taken.
MailerDies_AcksEarly(m) ==
    /\ mailer[m] # Idle
    /\ failures < MaxFailures
    /\ failures' = failures + 1
    /\ Holds(m, Idle)
    /\ UNCHANGED <<rows, broker, sent, job, requests, aux>>

\* The Celery worker dies as a whole, or loses the broker, which delivers the
\* task once more.
MailerDies(m) ==
    /\ mailer[m] # Idle
    /\ failures < MaxFailures
    /\ failures' = failures + 1
    /\ LET s == mailer[m].subject IN
       /\ broker' = [broker EXCEPT ![s] = @ + 1]
       /\ redelivered' = [redelivered EXCEPT ![s] = @ + 1]
    /\ Holds(m, Idle)
    /\ UNCHANGED <<rows, sent, job, requests, lost, rivals>>
-----------------------------------------------------------------------------
(* What a mail is for, and what may happen to its row before it arrives    *)

\* POST /auth/verify-email: an UPDATE of the user the mailed token names.
VerifyEmail(s) ==
    /\ s \in Accounts
    /\ sent[s] > 0 /\ row[s] = "present"
    /\ row' = [row EXCEPT ![s] = "verified"]
    /\ UNCHANGED <<taken, mail, job, bounds, aux>>

\* Staff deletes the account, or the organization of the invitation goes.
DeleteRow(s) ==
    /\ Exists(s) /\ ~Registering(s)
    /\ row' = [row EXCEPT ![s] = "gone"]
    /\ UNCHANGED <<taken, mail, job, bounds, aux>>
-----------------------------------------------------------------------------
(* POST /organizations: the slug                                           *)

CreateOrganization(w) ==
    /\ Start(w, [pc |-> "probe", slug |-> 1, attempt |-> 1, creator |-> TRUE])
    /\ rivals' = [rivals EXCEPT ![w] = 0]
    /\ UNCHANGED <<rows, mail, failures, lost, redelivered>>

\* _candidate_slug: one query for each suffix until one is free.
ProbeSlug(w) ==
    /\ At(w, "probe")
    /\ \/ /\ job[w].slug \notin taken
          /\ Become(w, [job[w] EXCEPT !.pc = "create"])
       \/ /\ job[w].slug \in taken /\ job[w].slug < MaxSuffix
          /\ Become(w, [job[w] EXCEPT !.slug = @ + 1])
    /\ UNCHANGED <<rows, mail, bounds, aux>>

\* A slip for the mutation runs: the slug is chosen once, before the loop.
InsertOrganization_SameSlug(w) ==
    /\ At(w, "create")
    /\ LET n == job[w].slug IN
       \/ /\ n \notin taken /\ job[w].creator
          /\ taken' = taken \cup {n}
          /\ rivals' = [v \in Workers |-> IF v = w THEN rivals[v] ELSE rivals[v] + 1]
          /\ Become(w, Idle)
       \/ /\ n \in taken \/ ~job[w].creator
          /\ Become(w, IF job[w].attempt < Attempts
                         THEN [job[w] EXCEPT !.attempt = @ + 1] ELSE Idle)
          /\ UNCHANGED <<taken, rivals>>
    /\ UNCHANGED <<row, mail, bounds, lost, redelivered>>

\* A slip for the mutation runs: one attempt too many.
InsertOrganization_OneMore(w) ==
    /\ At(w, "create")
    /\ LET n == job[w].slug IN
       \/ /\ n \notin taken /\ job[w].creator
          /\ taken' = taken \cup {n}
          /\ rivals' = [v \in Workers |-> IF v = w THEN rivals[v] ELSE rivals[v] + 1]
          /\ Become(w, Idle)
       \/ /\ n \in taken \/ ~job[w].creator
          /\ Become(w, IF job[w].attempt <= Attempts
                         THEN [job[w] EXCEPT !.pc = "probe", !.slug = 1, !.attempt = @ + 1]
                         ELSE Idle)
          /\ UNCHANGED <<taken, rivals>>
    /\ UNCHANGED <<row, mail, bounds, lost, redelivered>>

\* The transaction that inserts the organization and its Owner.  When the slug
\* is taken by now, or a foreign key fails because the creator is gone, the
\* search begins again, up to six times in all.
InsertOrganization(w) ==
    /\ At(w, "create")
    /\ LET n == job[w].slug IN
       \/ /\ n \notin taken /\ job[w].creator
          /\ taken' = taken \cup {n}
          /\ rivals' = [v \in Workers |-> IF v = w THEN rivals[v] ELSE rivals[v] + 1]
          /\ Become(w, Idle)
       \/ /\ n \in taken \/ ~job[w].creator
          /\ Become(w, IF job[w].attempt < Attempts
                         THEN [job[w] EXCEPT !.pc = "probe", !.slug = 1, !.attempt = @ + 1]
                         ELSE Idle)
          /\ UNCHANGED <<taken, rivals>>
    /\ UNCHANGED <<row, mail, bounds, lost, redelivered>>

\* An organization is deleted and its slug free again.
DestroyOrganization(n) ==
    /\ n \in taken
    /\ taken' = taken \ {n}
    /\ UNCHANGED <<row, mail, job, bounds, aux>>

\* A rename saves an organization deleted since it was read, which inserts it
\* with its slug again (module Team's SaveOrg).
ReviveOrganization(n) ==
    /\ n \notin taken
    /\ requests < MaxRequests
    /\ requests' = requests + 1
    /\ taken' = taken \cup {n}
    /\ rivals' = [v \in Workers |-> rivals[v] + 1]
    /\ UNCHANGED <<row, mail, job, failures, lost, redelivered>>

\* Staff deletes the account that creates an organization.
DeleteCreator(w) ==
    /\ At(w, "probe") \/ At(w, "create")
    /\ Become(w, [job[w] EXCEPT !.creator = FALSE])
    /\ UNCHANGED <<rows, mail, bounds, aux>>
-----------------------------------------------------------------------------
Statement(w) == \/ CheckEmail(w) \/ InsertRow(w) \/ Publish(w)
                \/ ProbeSlug(w) \/ InsertOrganization(w)
Task(m)      == RunTask(m) \/ SendMail(m) \/ Acknowledge(m)

Next ==
    \/ \E w \in Workers, s \in Accounts : Register(w, s)
    \/ \E w \in Workers, s \in Invitations : Invite(w, s)
    \/ \E w \in Workers : CreateOrganization(w)
    \/ \E w \in Workers : Statement(w) \/ Fail(w)
    \/ \E m \in Mailers, s \in Subjects : TakeTask(m, s)
    \/ \E m \in Mailers : Task(m) \/ TaskFails(m) \/ MailerDies(m)
    \/ \E s \in Subjects : VerifyEmail(s) \/ DeleteRow(s)
    \/ \E n \in Slugs : DestroyOrganization(n) \/ ReviveOrganization(n)
    \/ \E w \in Workers : DeleteCreator(w)

Spec == Init /\ [][Next]_vars

\* Statements are executed, and Celery workers take and run the tasks there are.
FairSpec ==
    /\ Spec
    /\ \A w \in Workers : WF_vars(Statement(w))
    /\ \A m \in Mailers : WF_vars(Task(m))
    /\ \A s \in Subjects : WF_vars(\E m \in Mailers : TakeTask(m, s))
-----------------------------------------------------------------------------
\* Nothing in the database records that a mail was sent, and nobody sends one
\* again: an account or an invitation has had its mail, has it on its way, or
\* lost it to a failure; no order of the steps loses it.
MailAccounted ==
    \A s \in Subjects :
       Exists(s) => \/ sent[s] > 0 \/ broker[s] > 0 \/ s \in lost
                    \/ \E m \in Mailers : mailer[m] # Idle /\ mailer[m].subject = s
                    \/ \E w \in Workers : At(w, "publish") /\ job[w].subject = s

\* Two registrations of one address that both pass validate_email leave one row
\* and one mail; with late acknowledgement (CELERY_TASK_ACKS_LATE) there is one
\* more for every time the broker delivers the task again.
OneMailEach == \A s \in Subjects : sent[s] <= 1 + redelivered[s]

\* A published mail is sent in the end, unless its row is gone or a failure
\* swallows it.
MailSent == \A s \in Subjects :
               broker[s] > 0 ~> sent[s] > 0 \/ ~Exists(s) \/ s \in lost

\* "Retrying on a slug race (recomputing against committed rows) to avoid a 500"
\* (organizations/views.py): a creation whose creator stays gives up only
\* after as many others were inserted while it ran as it has attempts.
GivesUpOnlyOutrun ==
    [][\A w \in Workers :
          At(w, "create") /\ job'[w] = Idle /\ failures' = failures /\ taken' = taken
             => rivals[w] >= Attempts \/ ~job[w].creator]_vars
=============================================================================
