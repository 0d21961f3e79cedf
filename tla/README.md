# Bastiq in TLA+

A model of Bastiq, a multi-tenant SaaS back end (Django, Django REST framework,
PostgreSQL, Celery, Stripe): TLA+ modules, TLC runs and TLAPS proofs. Paths below
are relative to the repository.

The subject is what several request workers do to the same tables.
`bin/start-render.sh` starts gunicorn with two workers, the settings leave
`ATOMIC_REQUESTS` off, and PostgreSQL runs at READ COMMITTED. Outside an explicit
`transaction.atomic()` every statement of a handler is therefore a transaction of
its own; inside one, a statement still sees whatever committed before it began.
What was read stays in Python locals while others write. The modules keep exactly
this: one action per SQL statement where a handler has several, one `pc` and one
set of locals per worker.

## Inventory

| Component | State | Operations | Hard behaviour | What makes it correct |
|---|---|---|---|---|
| Members and roles: `organizations/views.py`, `organizations/models.py`, `core/rbac.py`, `organizations/admin.py` | `Organization`, `Membership(user, organization, role)` | create, rename, delete an organization; change, remove a member; the admin's delete page, change page, bulk delete, inline form | every check is a read, every write a later statement; no locks | an organization keeps an Owner; an Admin never acts on an Owner; no role above one's own is granted; a request writes in its own organization only |
| Invitations and seats: `organizations/views.py`, `billing/limits.py`, `billing/signals.py` | `Invitation(email, role, status, expires_at)`, the lock of the `Subscription` row | invite, accept, let expire; staff edit, move and delete invitations | one transaction of six statements under a row lock others do not take | one pending invitation per address; no invitation for a member; members and pending invitations within the plan; joining needs an invitation; the lock is given back |
| Organization slugs: `_candidate_slug`, `_create_org_with_owner` | `Organization.slug` (unique) | search a free slug, create, retry six times | racing creators | a creator gets a slug; slugs are unique |
| Plans, subscriptions, Stripe webhook: `billing/webhooks.py`, `billing/views.py` | `Subscription(plan, status, stripe ids)`, `WebhookEvent` ledger | four event handlers, dispatch, dedupe | duplicates, reordering, concurrent delivery, retries; unlocked read, full save | the row ends up as Stripe has it; an event touches its own organization only; every event is recorded |
| Checkout, portal: `billing/views.py`, `billing/stripe_client.py` | `stripe_customer_id`; customers and sessions at Stripe | ensure customer, create session | read, remote call, save | the row knows the customer that pays |
| Projects and tenancy: `projects/`, `core/permissions.py`, `core/viewsets.py` | `Project(organization, created_by)`; `request.organization` per request | create under the billing lock; update, delete | membership read once per request; unlocked update and delete | rows of other organizations are never written; projects within the plan |
| Accounts, tokens and sessions: `accounts/` | `User(password, last_login, is_email_verified)`, outstanding and blacklisted refresh tokens | register, verify, log in, refresh, reset | token check and use in separate statements; revocation while others refresh | a used token is refused; a reset ends the sessions there were |
| Background mail: `*/tasks.py`, `*/emails.py` | the broker's queue | publish after commit, deliver, redeliver | crash between commit and publish, `acks_late` | a mail is lost to a failure only; nobody gets two but by a redelivery |
| Seed commands, settings, routes, error handler | none of their own | | | |

How they interact. All state is in PostgreSQL; handlers meet there and nowhere
else. `_create_org_with_owner` fires `post_save`, and `billing/signals.py` gives the
organization its Free subscription in the same transaction. Invitations and project
creations call `billing.limits`, which locks that subscription's row and reads its
plan; the webhook writes the same row. `core.permissions` reads `Membership` for
every organization-scoped request. Deleting an organization cascades to
memberships, invitations, projects and the subscription. Mail tasks are published
by a call after the write and read the row again when they run. Stripe calls the
webhook; checkout calls Stripe.

## Modules

| Module | What it is |
|---|---|
| `Roles` | `Role.rank`, `can_manage_member`, `can_assign_role` |
| `Team` | organizations and memberships, statement by statement |
| `TeamHistory` | `Team` with history: which organizations ever had two Owners, which requests act on a stale read; the inductive invariant |
| `TeamGrants` | `Team` with the highest rank everybody ever had |
| `OrgTeam` | abstract specification: the permission matrix with check and effect in one step |
| `TeamRefinement` | the mapping under which `Team` implements `OrgTeam` |
| `Seats` | invitations, members and the plan's cap in one organization |
| `SeatsHistory` | `Seats` with the acceptances that fall between two statements |
| `Roster` | abstract specification: what invitations promise, each request in one step |
| `SeatsRefinement` | the mapping under which `Seats` implements `Roster` |
| `Billing` | checkout, Stripe, and the webhook that maps events to subscription rows |
| `Projects` | projects of several organizations under requests that resolved theirs before |
| `Sessions` | login, refresh with rotation and password reset of one user |
| `Onboarding` | registration, invitation and verification mail; the slug search |
| `TeamProofs`, `MatrixProofs`, `OrgTeamProofs`, `SeatsProofs`, `BillingProofs`, `ProjectsProofs`, `SessionsProofs`, `OnboardingProofs` | theorems |
| `MC*` | finite values and symmetry for TLC |

What composes what: `Team`, `OrgTeam`, `Seats` and `Roster` use `Roles`; `TeamRefinement`
instantiates `OrgTeam` over `Team`, `SeatsRefinement` `Roster` over `Seats`, and
`MatrixProofs` the theorems of `OrgTeamProofs` over `Team`; `TeamHistory`, `TeamGrants` and `SeatsHistory` extend the module
they watch; `Projects` uses `Roles` and takes from `Team` and `Billing` only that
memberships, plans and organizations change; `Seats` takes the same from them.

The history modules add variables that only observe: their next-state relation is
`Next` and an equation for each history variable.

### Team

| Model | Code |
|---|---|
| `org[o]`, `member[r]` | rows of `organizations_organization` and `organizations_membership` by primary key; a key is unissued, in use or deleted, and never issued again, though a save may insert its old row once more |
| `pc[w]`, `req[w]`, `actorRole[w]`, `target[w]` | where worker `w` is in its handler, the request, `org.caller_role`, the `Membership` instance it read |
| `CreateOrg` | `_create_org_with_owner`: one transaction |
| `Join` | the end of `InvitationAcceptView.post`; whether there is an invitation is the subject of `Seats`, here any role may be invited |
| `LoadOrg` | `get_object` over `get_queryset` (the caller's organizations, annotated with the caller's role), and the role checks of `update` and `destroy` |
| `LoadTarget`, `CountOwners`, `GuardDelete`, `WriteRole`, `DeleteRow` | `member`: the target's lookup with `can_manage_member` and `can_assign_role`; `is_last_owner`; the second count in `Membership.delete`; `save(update_fields=["role"])`; the DELETE |
| `SaveOrg`, `DestroyOrg` | `update`'s full save (an INSERT when the row is gone) and `perform_destroy`, whose collector deletes members and organization in one transaction |
| `OpenAdminPage`, `CleanRole`, `CleanCount`, `SaveRow` | the membership admin: page load, `Membership.clean` in two queries, the full save. Its delete page goes on with `GuardDelete` and `DeleteRow` |
| `AdminBulkDelete`, `AdminInline` | "delete selected" (a QuerySet) and the members inline on the organization page (all forms cleaned, then saved), each one step: an interleaving inside one adds nothing to what the pages above show |

A read that only refuses the request is no action: the tables do not change and the
worker stays idle. `WriteRole` of a row that is gone raises in Django and changes
nothing; `DeleteRow` of one deletes nothing. `SaveRow` fails on the foreign key or on
`uniq_user_org` where PostgreSQL would.

The `role` a PATCH names is checked before the count and after the lookup in the
code, with no database access between; the lookup and all checks that need no query
are one action.

### Seats

| Model | Code |
|---|---|
| `role[p]` | the membership of the person with that address in the organization |
| `invitation[i]`, `overdue` | invitation rows; those whose `expires_at` has passed, which the status does not show |
| `plan`, `holder` | the subscription's plan (or no subscription), and the transaction that holds its row |
| `pc`, `req`, `limit`, `counted` | where a request is inside `transaction.atomic()`, its payload, and what it read |
| `StartInvite` | `invitations` up to the transaction: role checks with the caller's role, never looked at again |
| `LockBilling` | `SELECT ... FOR UPDATE` of the subscription; selects and locks nothing when there is none |
| `CheckMember`, `CheckPending`, `ReadLimit`, `CountMembers`, `CountPending`, `CreateInvitation` | the six statements under the lock; a refusal rolls back, the last one commits |
| `Accept`, `AcceptExpired`, `PassExpiry` | `InvitationAcceptView.post` and the clock |
| `RemoveMember`, `ChangePlan`, `DestroyOrg`, `AdminDeleteSubscription` | what else moves a seat or the cap, as one step each. Anybody may be removed, the last Owner included: the unlocked count in front of a removal, and when it fails, is the subject of `Team`, and nothing here rests on it |
| `AdminEditInvitation`, `AdminLoseInvitation`, `AdminGainInvitation` | the admin's invitation form, which leaves address, role, status and organization editable: a row is changed, goes (to another organization, or deleted) or arrives (from another one, or created by hand) |

`Accept` is one action because its `select_for_update().select_related("organization")`
locks the invitation and its organization: no other acceptance for that
organization runs between its statements, and what it writes becomes visible in one
commit. It does not take the subscription's lock, and so interleaves with every
statement of an invitation. `ChangePlan` and `AdminDeleteSubscription` write the
locked row and wait for it, and so does the cascade of `DestroyOrg`.

`Roster` says what the endpoints amount to: somebody is asked to join, at most once at a
time, joins at the role asked for if it is not too late, or is turned down and may be
asked again; members leave, whoever they are (that an Owner stays is not promised
here: with two requests at once the code does not keep it, `Team_race`). Its `asked` and `late` are functions
of the invitation table (`AskedRole`), well-defined only because an address has one
pending invitation, which is what the lock is for. Staff who edit invitations
are outside it.

Every query of these handlers is filtered by organization, so the module has one.
Addresses are compared with `iexact` and stored lower-cased; an address is a value.

### Billing

| Model | Code |
|---|---|
| `row[o]` | the `Subscription` of an organization; `Gone` once the organization is deleted |
| `ledger` | the events whose `WebhookEvent` has been committed |
| `customers`, `subscriptions`, `sessions`, `events` | external, Stripe's side: what `stripe_client.py` creates there, what happens to it, and the events that come of it; a position in a log is an id |
| `job[w]` | the request or webhook transaction a worker is in, with the row it has read |
| `StartCheckout`, `CreateCustomer`, `AttachCustomer`, `CreateSession` | `CheckoutView.post` and `ensure_customer`: read, call Stripe, save the id, call Stripe |
| `Deliver`, `Find`, `Save` | `WebhookView.post`: `get_or_create` of the ledger row, `_find_subscription`, the handler's save with the commit |
| `Mapped`, `PlanFor`, `StatusFor` | the four handlers of `webhooks.py` on the row they have read, `_plan_for_price`, `_STATUS_MAP` |
| `CompleteCheckout`, `UpdateSubscription`, `FailPayment`, `CancelSubscription` | external: what customers do at Stripe, the portal included |
| `Fail`, `DeleteOrg` | a worker, a statement or a call that fails; the cascade of an organization |

A repeated delivery of a recorded event is answered "Already processed" and changes
nothing, so it is no action; while a delivery is in progress the unique index makes a
second one wait, so it cannot start. `payment_failed` saves `status` alone
(`update_fields`), the other handlers every field.

### Projects

| Model | Code |
|---|---|
| `role[o][u]`, `plan[o]`, `live` | memberships, the plan of the subscription, organizations; they change by `ChangeRole`, `ChangePlan`, `DestroyOrg`, one step each |
| `project[p]` | rows of `projects_project`: organization and creator, which no handler changes but every full save writes |
| `job[w].by` | `request.organization` and `request.membership`, resolved once |
| `Resolve` | `IsOrganizationMember` with the `X-Organization` header |
| `LockBilling`, `ReadLimit`, `CountProjects`, `CreateProject` | `perform_create` under `check_can_create_project`, and the locked row `holder[o]` |
| `LoadProject`, `SaveProject`, `DeleteProject` | `get_object` with its object permission, then the serializer's full save (an INSERT when the row is gone) or the DELETE |

### Sessions

| Model | Code |
|---|---|
| `password`, `login` | `User.password` and `last_login`, as versions: what a fingerprint can tell apart |
| `tokens`, `blacklisted`, `held` | simplejwt's `OutstandingToken` and `BlacklistedToken` rows of one user, and the tokens a client has |
| `Authenticate`, `MintToken`, `TouchLogin` | login: credentials, `RefreshToken.for_user`, `update_last_login` and the check of a verified address |
| `CheckRefresh`, `BlacklistConsumed`, `MintToken` | refresh with `ROTATE_REFRESH_TOKENS` and `BLACKLIST_AFTER_ROTATION` |
| `SendReset` | the reset task mints and mails a token with the fingerprint of that moment |
| `CheckReset`, `SavePassword`, `ListTokens`, `RevokeToken` | confirm: `read_password_reset_token`, `save(update_fields=["password"])`, `revoke_all_refresh_tokens` |
| `Fail` | a worker that dies between two statements; what is committed stays |

One user is enough: no statement of these handlers touches another's rows. Token
signatures and password hashes are perfect: a token is a position, a hash a version.

### Onboarding

| Model | Code |
|---|---|
| `row[s]` | an account or an invitation; `gone` for ever after (keys are not reused) |
| `broker`, `mailer` | tasks in the queue, and the task a Celery worker holds unacknowledged (`CELERY_TASK_ACKS_LATE`) |
| `Register`, `CheckEmail`, `InsertRow`, `Publish` | `RegisterSerializer`: `validate_email`, `create_user` with its unique index, `.delay` |
| `Invite`, `InsertRow`, `Publish` | the end of `invitations`: the commit that `Seats` describes, then `.delay` |
| `TakeTask`, `RunTask`, `SendMail`, `TaskFails`, `Acknowledge`, `MailerDies` | the tasks and their worker; a task that raises, or whose pool process is killed (`task_reject_on_worker_lost` is not set), is acknowledged and not retried; a Celery worker that dies as a whole leaves its task unacknowledged, and the broker delivers it again |
| `VerifyEmail`, `DeleteRow` | `VerifyEmailSerializer`; the admin, or the organization's deletion |
| `CreateOrganization`, `ProbeSlug`, `InsertOrganization` | `_candidate_slug` one query at a time, the transaction of `_create_org_with_owner`, the retry after any `IntegrityError`: the unique index refuses the slug, or the creator's account is gone (`DeleteCreator`) |
| `DestroyOrganization`, `ReviveOrganization` | an organization is deleted, its slug free again; a rename that read it before inserts it again with its slug. Staff cannot edit a slug (`readonly_fields`) |

The module joins what has the same shape, an insert that only a unique index guards and
a side effect behind it; slugs and mail share no state, only the workers and the bound
on requests.

## Runs

Passing runs:

| Run | Instance | Shows |
|---|---|---|
| `Team_concurrent` | 2 users, 2 organizations, 3 rows, 2 workers, the operations that count Owners | `SoleOwnerKept`, `OnlyStaleWritesOrphan`, and the inductive invariant `GuardInv` behind them; `TenantIsolation`; `NoEscalation` |
| `Team_serial` | 3 users, 2 organizations, 4 rows, 1 worker, the API | `MatrixSpec`: `Team` implements `OrgTeam`; `MatrixBindsCaller`: what a request changes is in its caller's rights (the refinement alone says somebody's); `HasOwner`, which two workers violate (`Team_race`) |
| `Team_everything` | 2 users, 2 organizations, 3 rows, 1 worker, API and staff | `TypeOK`, `OneRolePerMember` |
| `Seats_locked` | 4 people, 3 invitations, 2 workers, 2 invited roles, 3 plans, the API | `OnePendingPerEmail` and its inductive invariant `LockedInv`; `RosterSpec`: `Seats` implements `Roster`; `CapSlack`; `OnlyNewMembersInvited` |
| `Seats_everything` | 3 people, 2 invitations, 2 workers, caps of two and three seats and none, API and staff, fairness | `TypeOK`, `MembershipNeedsInvitation`, `InviteAnswered` |
| `Billing_webhooks` | 2 organizations, 2 workers, a plan and a price of no plan, customers and events 4 together, 2 subscriptions, a failure, fairness | `AgreesWithStripe`: handled in order and one at a time, retried and repeated at will, the events leave the row as Stripe has the subscription; `OwnEventsOnly`; `EachEventOnce`: a row changes only as an event is first recorded; `EventsRecorded` |
| `Projects_tenancy` | 2 organizations with a founder each, 2 workers, 2 projects, a plan with one project and an unlimited one, 2 changes, fairness | `WritersAuthorized`: a write stays in the organization and within the role its request was resolved with, which is the caller's at that moment unless it changed meanwhile; `CreationWithinCap`; `LockReturned` |
| `Sessions_reset` | 2 workers, 3 refresh tokens, 2 resets, 2 mailed tokens, a failure, verified addresses required, fairness | `SessionsEndWithPassword`, `SpentTokensRefused`, `ResetCompletes` |
| `Onboarding_mail` | an address, an invitation, 2 workers, 2 Celery workers, 3 requests, 3 slugs, 2 attempts, 2 failures, fairness | `MailAccounted`, `OneMailEach`, `MailSent`, `GivesUpOnlyOutrun` |

What these say about the code. The unlocked counts do protect an organization that
never had two Owners at once; one that had two can lose both, and only when a
request writes on a read that a concurrent change of that organization's Owners has
made stale. A role that is granted is never above the highest its caller has *had*:
the caller's role is read once, and may be gone by the write. The billing lock makes
the duplicate check exact. It does not make the seat cap exact: the cap is exceeded by
at most the acceptances that commit between the two counts. For projects, which one
statement counts, it does make the cap exact, but for a row that a stale update inserts
again. The ledger takes care of repetition and of failure, not of order. A reset ends
the sessions there were, not the ones in the making. Nothing but a failure loses a
mail, and after one nothing sends it.

Violation runs, each a disagreement between the code and what the repository says:

| Run | Property | Trace |
|---|---|---|
| `Team_race` | `HasOwner` | two Owners remove (or demote) each other at once |
| `Billing_reordered` | `LimitsRevert` | a checkout's webhook reads the row, the deletion of that subscription is handled, the first saves: a paid plan without a subscription. The same when the deletion is delivered first |
| `Sessions_outlive` | `NoSessionOutlives` | a login checks the old password, a reset saves a new one and revokes, the login mints its token |

### More traces, kept as text

Behaviours of the modules above that a run of their own would only repeat. Each is
reached by the actions named.

- Staff. The organization page demotes two Owners in one submit (`AdminInline`: all forms
  are cleaned before any is saved). "Delete selected" goes through a QuerySet and
  calls no `Membership.delete` (`AdminBulkDelete`). The change page moves a
  membership to another organization, and `Membership.clean` counts the Owners of that
  one (`SaveRow`). Each can orphan an organization.
- A removal or a change of role looks its target up under the organization, staff move
  that row to another one, and the write, by its key, lands there (`LoadTarget`, another
  worker's `SaveRow`, `DeleteRow` or `WriteRole`). `TenantIsolation` is of all operations
  but this form.
- A rename reads the organization, it is deleted, the save inserts it again, without
  members (`LoadOrg`, `DestroyOrg`, `SaveOrg`).
- An Admin opens a removal of a Member, an Owner promotes that member to Owner, the
  removal goes on (`LoadTarget`, another worker's `WriteRole`, `DeleteRow`); with two
  Owners nothing stops it.
- A request counts members, an invitee accepts, it counts pending invitations: the
  invitee is in neither, and the cap is exceeded by one (`CountMembers`, `Accept`,
  `CountPending`).
- A request finds no such member, the invitee accepts an older invitation, it finds none
  pending and invites the member (`CheckMember`, `Accept`, `CheckPending`).
- Without a subscription row, which staff may delete, there is nothing to lock, and two
  requests invite one address.
- The handler of a deletion does not compare the subscription's id with the row's: of two
  live subscriptions (two checkouts that were both paid) the end of either puts the
  organization on the Free plan. `clean` excludes a second subscription for this reason.
- A checkout that found no customer saves the one it made over the one another checkout
  saved meanwhile (`AttachCustomer` twice); events name the organization in their
  metadata, so they still find it, except invoices, which carry the customer only.
- Two confirmations that read the same reset token before either saves both succeed, each
  with its password (`CheckReset` twice, `SavePassword` twice). A third is refused.
- A worker that dies between the save of a password and the revocations leaves all
  sessions alive (`cutShort`); the token is spent, so another must be requested.
- A refresh token used twice at once gives two descendants; a reset ends both.
- With `LOGIN_REQUIRE_VERIFIED_EMAIL` the refusal comes after the token and `last_login`
  are written; the token is never handed out, and reset tokens mailed before are void.

### Auxiliary variables

Some properties need to know how a state came about. These variables only record;
no guard reads them. What one of them sets apart the property that uses it does not
catch: those cases are the traces above.

- `Billing.clean[o]`: so far, the events of the organization were handled in order, none
  was saved over a row that had changed since it was read, no subscription started
  while another was live, no checkout replaced the customer of another. `LimitsRevert` is
  what is left without it, and fails.
- `Projects.stale`: workers whose caller's membership has changed since they read it;
  `Projects.revived`: rows a full save inserted again.
- `Sessions`: `token.overlap`, a reset ran during the request that minted it, or that
  minted its ancestor; `cutShort`, a reset died after its save; `used`, the reset tokens
  that served. (`token.parent`, by contrast, is what the rotation blacklists.)
- `Onboarding`: `lost`, whose mail a failure swallowed; `redelivered`, how often; `rivals`,
  organizations that others inserted, or a rename inserted again, during a creator's request.

### Bounds, and why they are enough

- Two workers. The races are between a request that has read and one that writes in
  between; the invariants speak of one request and the tables, or of two requests.
  The theorems below hold for any number.
- Keys (`Rows`, `Invitations`, `ProjectIds`) are issued once and run out. Three
  memberships give two Owners and a third member, and a removed member who joins again.
  Three invitations beside a founder reach and exceed a cap of three in `Seats_locked`;
  in `Seats_everything` two exceed a cap of two, and fill one of three. Two
  projects exceed a cap of one. `KeysLeft` makes a request start only if every request
  in progress can still get a key, so none is stuck for want of one; `TokensLeft` and
  `StripeHasRoom` do the same for refresh tokens and for customers.
- Because keys run out the model stops where the program would not:
  `CHECK_DEADLOCK FALSE` in every cfg.
- Plans: in `Seats_locked` cap 3 (Free's), a higher cap (4 stands for Pro's 10) and
  unlimited, in `Seats_everything` 2, 3 and unlimited, in `Projects` cap 1 and unlimited. Plan changes go in both directions, so a cap below what
  is in use occurs.
- `MaxStripe` 4: two checkouts of one organization and two events, or one customer and a
  checkout, an update and a deletion, the shortest history in which an old event can
  undo a newer one; or a customer of each organization and an event of each.
  `MaxSubscriptions` 2: a second one while the first is live, or after it. Live statuses:
  `active` and, by a failed payment, `past_due`; the other keys of `_STATUS_MAP` take the
  same path through `StatusFor`.
- `MaxFailures` 1: what a failure leaves behind meets every later step; a second failure
  does what the first did. In `Onboarding` 2, so that a redelivered task fails, or is
  redelivered once more. `MaxChanges` 2: a member is removed or demoted and an
  organization, a plan or another member changes too.
- `MaxTokens` 3: a login, its descendant, and a second session. `MaxPasswords` 2 and
  `MaxMails` 2: a reset after a reset, and a token mailed before it.
- `Attempts` 2 stands for the code's 6: a first attempt, whose slug is lost, and the
  last. `MaxRequests` 3: a creator outrun at both attempts by two others, or a
  registration, an invitation and a creation at once; a rename that inserts a deleted
  organization counts as a request, so `MaxSuffix` 3 leaves every search a free slug. `OutrunTheorem` is for any number.
- `Team_everything` has one worker: what overtakes its staff forms is what takes one
  step (a bulk delete, an inline form, an accepted invitation).
- Symmetry: users, rows, workers, organizations (`Team`), people other than the
  founder, invitations, workers (`Seats`) are interchangeable in the specification
  and in the properties of the runs that use it. The liveness runs use none.

### Fairness

Each `FairSpec` has weak fairness on the statements a request has begun: PostgreSQL runs
what it is given; gunicorn's `--timeout 60` kills a worker that does not go on, which
closes the connection and rolls back, also releasing a lock (`Fail`, where a module has
it, is never required and bounded by `MaxFailures`). Beyond that:

- `Seats`: strong fairness on `LockBilling`; waiters for a row are queued, so a request is
  not passed over for ever.
- `Billing`: strong fairness on some delivery of some event; Stripe retries an event until
  it is acknowledged, and a delivery is possible whenever a worker is idle and the event
  is neither recorded nor in progress.
- `Onboarding`: weak fairness on taking a subject's task; a Celery worker that is idle
  takes what is in the queue.

Nothing is assumed of the environment: invitees need not accept, staff need not act,
customers need not pay, a client need not choose what to do with a request it may start.

## Proofs

TLAPS checks these for all values of the constants; the assumptions are the named
`ASSUME`s of the modules (null values are not data, tables, workers and mailers are finite, the
founder is a person) and the hypotheses stated below.

- `TypeCorrect`, `SeatsTypeCorrect`: the type invariants, for all operations. For
  `Team` with `Serving`, what a busy worker has read.
- `SoleOwnerTheorem`: if only the operations that count Owners are used, an
  organization that never had two Owners at once keeps one. `SoleOwnerKept` is not
  inductive: a worker that is past its count may be about to write. `GuardInv` adds
  that rows belong to live organizations (`TablesInv`), that the row behind a held
  target never moves to another organization (`TargetsInv`), that in an
  organization never shared no write in flight takes the Owner role from a row that
  has it (`UnseatingInv`), and that a write in flight that is not stale leaves
  another Owner (`FreshInv`). The proof goes through three lemmas: `Effects` (what a
  step does to the tables), `Holdings` (what it does to another worker's locals) and
  `OthersOwnTwo` (a count above one means two different Owners); the conjuncts then
  follow one lemma each without looking at the actions again.
- `StaleWritesTheorem`: the action property `OnlyStaleWritesOrphan` from the same
  invariant.
- `IsolationTheorem`: `TenantIsolation`, of all operations but the change page's form
  (`adminChange`), the one that moves a membership to another organization (`NoMoves`).
  Bulk deletes, inline forms, renames and deletions of organizations interleave at will.
  `PlacesInv` says that as long as the row behind a held target exists it is in the
  organization it was read in, which is that of the request's path.
- `OneRoleTheorem` (`MatrixProofs`): a person has one role in an organization, whatever
  API requests and staff forms do: every statement that inserts or moves a row is under the
  unique index. It is inductive with the type invariant.
- `EscalationTheorem`: `NoEscalation`, of all operations. `PeakInv` says that a current role
  is at most its owner's peak, and `GrantInv` that the role a request checks with, and past
  the check the role it is about to write, are within that peak.
- `MatrixTheorem` and `MatrixBindsTheorem`: `Team` implements `OrgTeam`, and the step a
  request takes there is one of its caller's. The hypothesis `OneByOne` is that the API's
  operations are used and all workers are one; acceptances interleave freely. `SerialInv`
  says that what the request has read and checked is still so: its caller's role, its
  target, and for an Owner that there is another. `OneRolePerMember` makes the mapping a
  function of the rows, and an Owner's row another person's (`TwoPeople`). With a second
  worker it is false, as `Team_race` shows.
- `SerialOwnerTheorem`: `HasOwner` of `Team` itself under `OneByOne`, by composition and
  not by another invariant: `MatrixTheorem` gives a behaviour of `OrgTeam`, `OwnedTheorem`,
  instantiated at the mapping, an Owner in it, and `OneRolePerMember` the row.
- `OwnedTheorem`: the permission matrix applied atomically keeps an Owner;
  `PermissionMatrix`: the role helpers agree with the table of `core/rbac.py` for
  every pair of roles.
- `OnePendingTheorem`: with the API's operations on an organization created with its
  subscription there is never more than one pending invitation per address. The
  inductive invariant `LockedInv` says that a live organization has its row to lock,
  that who is inside the transaction holds it, and that who has passed the duplicate
  check is still right. The hypothesis is needed: without the row nothing is locked
  (see the traces above).
- `JoinersTheorem` and `NewMembersTheorem`, of all operations. The first is a fact of every
  step; for the second, `JoinedInv` says that who was not a member when a request looked,
  and is one now, is in the history of those who joined meanwhile.
- `RosterTheorem`: `Seats` implements `Roster`, of the API's operations on an organization
  created with its subscription. One lemma for each operation that `Roster` can see
  (`CreateMaps`, `AcceptMaps`, `AcceptExpiredMaps`, `PassExpiryMaps`, `RemoveMaps`,
  `DestroyMaps`); nothing of it rests on who leaves. The other statements leave the tables as they are. Two facts carry it:
  `LockedInv`, by which whoever creates an invitation finds none for its address at that
  moment, and `OverdueInv`, by which a key about to be used is not overdue already.
  `Answered` says that one answer ends one person's invitation and nobody else's.
- `SlackTheorem`: `CapSlack`, of the API's operations on an organization created on the Free
  plan. `SlackInv` adds to `LockedInv` that the plan cannot change under the lock, that the
  members counted fall short by no more than slipped, and that past both counts there is
  room but for those.
- `BillingTypeCorrect`, `OwnEventsTheorem`: no event changes another organization's row.
  The difficulty is the chain of lookups: an event whose organization is gone is looked
  up by ids. The invariant says that the ids in a row, and in every copy of a row a
  handler holds, are of that organization's subscriptions and customers (`RowsInv`,
  `JobsInv`), and that what Stripe reports refers to what it has (`StripeInv`). Lemma
  `Found` concludes that whichever lookup hits, hits the event's own row; `Kept` that
  ids stay whose they are while Stripe's logs grow.
- `EachEventTheorem`: `EachEventOnce`, from `FreshInv`: an event in a request's hands is
  not in the ledger and in nobody else's hands, so that the save which maps it is also
  the step that records it first.
- `AgreesTheorem`: `AgreesWithStripe`. Three invariants meet. `StoryInv` is about Stripe
  alone: an organization's last event reports the one subscription that is live, or that
  there is none (`Told`), and every event but a checkout goes on from the one before
  (`Chained`). `FreshInv`: an event is in one request's hands and not in the ledger.
  `CopyInv`: as long as no event was overtaken, the row says what the last one handled
  does. `Turn` joins them: an event whose turn it is finds the row as the event before
  left it, so that a partial update, or an invoice's, completes it.
- `ProjectsTypeCorrect`, `WritersTheorem`: whoever changes a project acts for the
  organization their membership was resolved in and within the role it had, or as the
  creator, also when that membership has changed under the request; unless it has, it is
  the one they have at the write. `WritesInv` is the strengthening: a pending write holds a row of the
  caller's organization which the caller may write, and which is still as read, or gone;
  two pending writes of one project hold the same row. It is this, not a lock, that makes
  the unlocked save harmless to other tenants.
- `CapTheorem`: `CreationWithinCap`. `RoomInv` says that a creation in a live organization
  holds its billing row, that what it read of the plan is still so, and that what it has
  counted, once it has, leaves room: nobody else can insert while it holds the row, and
  what was revived is not counted.
- `SessionsEndTheorem`: a session older than the password that is not refused has been
  overlapped by a reset, or a reset is at work or was cut short. Not inductive as it
  stands: `PursuitInv` says that every such token is in the list of a reset that still
  has to revoke it, or will be in the list of one about to make its list; and that a
  request which will mint a token from an old password has been overlapped or will find
  that the password changed since it began.
- `SpentTokensTheorem`: a used reset token carries an older password than the user's
  (`ResetsInv`), a rotation blacklists its token before it mints the next
  (`RotationInv`).
- `SessionsTypeCorrect`: the types with their bounds, and that nothing refers to a token
  that does not exist. The bounds are not inductive alone: a login writes `last_login`
  after it has minted, and a request's place among the tokens is reserved when it begins,
  so `BoundsInv` adds the requests in progress to both counts (`CountMinting`,
  `CountTouching`; this is where workers are finite).
- `SerialSessionsTheorem`: with one request at a time (`OneAtATime`) `NoSessionOutlives`, which
  `Sessions_outlive` shows to fail with two workers, holds. `ApartInv`: no token and no
  request in progress has been overlapped by a reset. What is left of it is `cutShort`.
- `MailTheorem`: `MailAccounted`, with `KeysInv` (no key is used again, and a task is of a
  row there is or was) and `TasksInv` (a task waiting for its acknowledgement has sent
  its mail or found its row gone).
- `OneMailTheorem`: a mail is in one place: with a publisher, with the broker, with a mailer
  that has not sent it, or sent. `CopiesInv` bounds the sum of the four by one more than
  the redeliveries; that there are finitely many workers and mailers is what makes it a
  number.
- `OutrunTheorem`: a creation that gives up has been outrun as often as it has attempts,
  unless the account of its creator was deleted.
  `OutrunInv` counts a rival for each failed attempt, and one more when the slug that was
  found free is taken by now. `OnboardingTypeCorrect`: the types.

Only model-checked: liveness (`InviteAnswered`, `EventsRecorded`, `LockReturned`,
`ResetCompletes`, `MailSent`), which under fairness is outside what the prover does. Every
safety property and action property of a passing run is a theorem.

## Not modelled

- Names, timestamps other than expiry, pagination, serialization, throttling, logging,
  HTTP status codes; signatures and password hashing.
- Staff who create memberships, subscriptions or projects by hand, or an
  organization without members: such states are outside what the properties promise.
  Staff who change a user's password or deactivate a user: no code relates that to
  sessions.
- `current_period_end`, which nothing reads; events of types no handler has, which are
  recorded and change nothing; the portal endpoint, which changes no state; plans that
  are deactivated.
- A change between the lookups of `_find_subscription` (up to three SELECTs, `Find`), and
  between the SELECTs of a subscription and of its plan (`ReadLimit`): each is one step. In
  the first a row found later belongs to the same organization, or is gone and fails the
  save; in the second the row is locked, or there is none.
- The expiry of access, refresh, verification and reset tokens: an expired token is
  refused, which any of the modelled requests may be anyway.
- The reset mail as a task (`SendReset` is its one effect): no row waits for it and it may
  be asked for again.
- Seed commands: they run before the workers of an instance start.
- Error handler, health check, root routes: no state.
- Settings: the modules take from them what is named above; the rest has no behaviour
  over time.

## Plan

The suite is kept to a dozen runs, each with a question of its own.

1. Done: `Roles`, `Team` with its histories, `OrgTeam` and the refinement; `Seats`;
   `Billing`; `Projects`; `Sessions`; `Onboarding`.
2. Done: a theorem for each safety and action property, both refinements included, and
   for what the violation runs of `Team` and `Sessions` refute with two workers, that it
   holds with one.
3. Composition: `Roster`'s team under the matrix of `OrgTeam`, so that admissions there
   come from invitations here; `Seats` and `Projects` over one subscription that `Billing`
   writes.
4. An abstract ledger, "the rows are what a prefix of the events makes of them", which
   `Billing` implements while `clean`.
