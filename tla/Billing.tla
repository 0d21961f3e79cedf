------------------------------ MODULE Billing ------------------------------
(***************************************************************************)
(* Subscriptions.  Owners check out through Stripe; Stripe emits an event  *)
(* for whatever happens to a subscription and delivers each at least once, *)
(* in any order and to any worker; a webhook transaction records the event *)
(* in the ledger and maps it to the organization's subscription row.       *)
(***************************************************************************)
EXTENDS Integers, Sequences, FiniteSets

CONSTANTS
    Orgs,              \* organizations, created with a Free subscription
    Workers,           \* request workers
    PaidPlans,         \* the plans with a Stripe price; a price names its plan
    Prices,            \* what Stripe may bill: those prices, and staff's own
    FreePlan,          \* the plan with code "free"
    StripeStatuses,    \* the statuses a live Stripe subscription takes
    MaxStripe,         \* bound: the customers and events in Stripe together
    MaxSubscriptions,  \* bound: the subscriptions in Stripe
    MaxFailures,       \* bound: how many requests are cut short
    Gone,              \* an organization deleted with its row
    Idle               \* a worker without a request

NoId == 0   \* the empty id; Stripe's ids are the positions in its logs

\* _STATUS_MAP; a status it does not list leaves the row's as it is.
StatusMap == [active |-> "active", trialing |-> "active",
              past_due |-> "past_due", unpaid |-> "past_due",
              canceled |-> "canceled", incomplete |-> "incomplete",
              incomplete_expired |-> "canceled"]

EventTypes == {"checkout", "updated", "deleted", "payment_failed"}

ASSUME BillingAssumption ==
    /\ FreePlan \notin PaidPlans
    /\ PaidPlans \subseteq Prices
    /\ "canceled" \notin StripeStatuses /\ "active" \in StripeStatuses
    /\ MaxStripe \in Nat /\ MaxSubscriptions \in Nat /\ MaxFailures \in Nat

VARIABLES
    row,            \* row[o]: the subscription row of organization o
    ledger,         \* the events with a committed WebhookEvent
    customers,      \* Stripe: customers[c] is the organization c was made for
    subscriptions,  \* Stripe: subscriptions[s], each of one customer
    sessions,       \* Stripe: checkout sessions nobody has completed yet
    events,         \* Stripe: what it has emitted, in order
    job,            \* job[w]: the request worker w serves, and what it has read
    failures,       \* how many requests were cut short so far
    clean           \* auxiliary, see AgreesWithStripe

stripe == <<customers, subscriptions, sessions, events>>
vars   == <<row, ledger, customers, subscriptions, sessions, events, job, failures, clean>>

Row == [plan : PaidPlans \cup {FreePlan}, customer : Nat, subscription : Nat,
        status : {"active", "past_due", "canceled", "incomplete"}]

Session == [customer : Nat, plan : PaidPlans]

StripeSubscription == [customer : Nat, price : Prices,
                       status : StripeStatuses \cup {"canceled", "past_due"}]

Event == [type : EventTypes, customer : Nat, subscription : Nat, price : Prices,
          status : StripeStatuses \cup {"canceled", "past_due"}]

Job == [pc : {"find"}, event : Nat]
         \cup [pc : {"save"}, event : Nat, org : Orgs, row : Row]
         \cup [pc : {"create"}, org : Orgs, plan : PaidPlans]
         \cup [pc : {"attach"}, org : Orgs, plan : PaidPlans, customer : Nat]
         \cup [pc : {"session"}, plan : PaidPlans, customer : Nat]

TypeOK ==
    /\ row \in [Orgs -> Row \cup {Gone}]
    /\ ledger \subseteq 1..Len(events)
    /\ customers \in Seq(Orgs)
    /\ subscriptions \in Seq(StripeSubscription)
    /\ sessions \subseteq Session
    /\ events \in Seq(Event)
    /\ job \in [Workers -> Job \cup {Idle}]
    /\ failures \in 0..MaxFailures
    /\ clean \in [Orgs -> BOOLEAN]

Init ==
    /\ row = [o \in Orgs |-> [plan |-> FreePlan, customer |-> NoId,
                              subscription |-> NoId, status |-> "active"]]
    /\ ledger = {}
    /\ customers = <<>> /\ subscriptions = <<>> /\ sessions = {} /\ events = <<>>
    /\ job = [w \in Workers |-> Idle]
    /\ failures = 0
    /\ clean = [o \in Orgs |-> TRUE]

Present     == {o \in Orgs : row[o] # Gone}
At(w, pc)   == job[w] # Idle /\ job[w].pc = pc
Become(w, j) == job' = [job EXCEPT ![w] = j]
OwnerOf(s)  == customers[subscriptions[s].customer]
EventOrg(e) == customers[events[e].customer]
LiveOf(o)   == {s \in DOMAIN subscriptions :
                  OwnerOf(s) = o /\ subscriptions[s].status # "canceled"}

\* The bound counts the customers that checkouts in progress may need.
StripeHasRoom ==
    Len(events) + Len(customers) + Cardinality({w \in Workers : At(w, "create")})
      < MaxStripe
-----------------------------------------------------------------------------
(* POST /billing/checkout                                                  *)

\* The Owner picks a plan with a price; the row is read, and with it whether
\* the organization has a customer already.
StartCheckout(w, o, p) ==
    /\ job[w] = Idle
    /\ o \in Present
    /\ row[o].customer = NoId => StripeHasRoom
    /\ Become(w, IF row[o].customer = NoId
                   THEN [pc |-> "create", org |-> o, plan |-> p]
                   ELSE [pc |-> "session", plan |-> p, customer |-> row[o].customer])
    /\ UNCHANGED <<failures, row, ledger, stripe, clean>>

\* ensure_customer: stripe.Customer.create.
CreateCustomer(w) ==
    /\ At(w, "create")
    /\ customers' = Append(customers, job[w].org)
    /\ Become(w, [pc |-> "attach", org |-> job[w].org, plan |-> job[w].plan,
                  customer |-> Len(customers) + 1])
    /\ UNCHANGED <<failures, row, ledger, subscriptions, sessions, events, clean>>

\* ensure_customer: save(update_fields=["stripe_customer_id"]), which raises
\* when the row is gone.
AttachCustomer(w) ==
    /\ At(w, "attach")
    /\ LET o == job[w].org IN
       \/ /\ o \in Present
          /\ row' = [row EXCEPT ![o].customer = job[w].customer]
          /\ clean' = [clean EXCEPT ![o] = @ /\ row[o].customer = NoId]
          /\ Become(w, [pc |-> "session", plan |-> job[w].plan,
                        customer |-> job[w].customer])
       \/ /\ o \notin Present
          /\ Become(w, Idle)
          /\ UNCHANGED <<row, clean>>
    /\ UNCHANGED <<failures, ledger, stripe>>

\* create_checkout_session, and the response with its address.
CreateSession(w) ==
    /\ At(w, "session")
    /\ sessions' = sessions \cup {[customer |-> job[w].customer, plan |-> job[w].plan]}
    /\ Become(w, Idle)
    /\ UNCHANGED <<failures, row, ledger, customers, subscriptions, events, clean>>
-----------------------------------------------------------------------------
(* Stripe: what happens to a subscription, and the event it emits.         *)

Emit(type, s) ==
    /\ StripeHasRoom
    /\ events' = Append(events,
         [type |-> type, subscription |-> s, customer |-> subscriptions'[s].customer,
          price |-> subscriptions'[s].price, status |-> subscriptions'[s].status])

\* The Owner pays: a session turns into a subscription.
CompleteCheckout(c) ==
    /\ Len(subscriptions) < MaxSubscriptions
    /\ sessions' = sessions \ {c}
    /\ subscriptions' = Append(subscriptions,
         [customer |-> c.customer, price |-> c.plan, status |-> "active"])
    /\ Emit("checkout", Len(subscriptions) + 1)
    /\ clean' = [clean EXCEPT ![customers[c.customer]] =
                   @ /\ LiveOf(customers[c.customer]) = {}]
    /\ UNCHANGED <<failures, row, ledger, customers, job>>

\* The plan is switched in the portal, or the status changes.
UpdateSubscription(s, price, status) ==
    /\ subscriptions[s].status # "canceled"
    /\ subscriptions' = [subscriptions EXCEPT ![s].price = price, ![s].status = status]
    /\ Emit("updated", s)
    /\ UNCHANGED <<failures, row, ledger, customers, sessions, job, clean>>

FailPayment(s) ==
    /\ subscriptions[s].status # "canceled"
    /\ subscriptions' = [subscriptions EXCEPT ![s].status = "past_due"]
    /\ Emit("payment_failed", s)
    /\ UNCHANGED <<failures, row, ledger, customers, sessions, job, clean>>

CancelSubscription(s) ==
    /\ subscriptions[s].status # "canceled"
    /\ subscriptions' = [subscriptions EXCEPT ![s].status = "canceled"]
    /\ Emit("deleted", s)
    /\ UNCHANGED <<failures, row, ledger, customers, sessions, job, clean>>
-----------------------------------------------------------------------------
(* POST /billing/webhook: one transaction.                                 *)

\* A slip for the mutation runs: an event in the ledger is processed again.
Deliver_Repeats(w, e) ==
    /\ job[w] = Idle
    /\ ~\E v \in Workers : job[v] # Idle /\ job[v].pc \in {"find", "save"} /\ job[v].event = e
    /\ Become(w, [pc |-> "find", event |-> e])
    /\ UNCHANGED <<failures, row, ledger, stripe, clean>>

\* WebhookEvent.objects.get_or_create.  An event in the ledger is answered
\* "Already processed", which changes nothing; while another transaction has
\* inserted it, the unique index makes this one wait for its outcome.
Deliver(w, e) ==
    /\ job[w] = Idle
    /\ e \notin ledger
    /\ ~\E v \in Workers : job[v] # Idle /\ job[v].pc \in {"find", "save"} /\ job[v].event = e
    /\ Become(w, [pc |-> "find", event |-> e])
    /\ UNCHANGED <<failures, row, ledger, stripe, clean>>

\* The ids _find_subscription is called with; an invoice has no metadata.
MetadataOrg(e)    == IF e.type = "payment_failed" THEN {} ELSE {customers[e.customer]}
SubscriptionId(e) == IF e.type = "checkout" THEN NoId ELSE e.subscription

\* A slip for the mutation runs: an empty id is looked up too.
FindSubscription_EmptyId(e) ==
    LET bySubscription == {o \in Present : row[o].subscription = SubscriptionId(e)}
        byCustomer     == {o \in Present : row[o].customer = e.customer}
    IN  IF MetadataOrg(e) \cap Present # {} THEN MetadataOrg(e)
        ELSE IF bySubscription # {} THEN bySubscription ELSE byCustomer

\* _find_subscription: by the organization in the metadata, by the
\* subscription id, by the customer id.
FindSubscription(e) ==
    LET bySubscription == {o \in Present : /\ SubscriptionId(e) # NoId
                                           /\ row[o].subscription = SubscriptionId(e)}
        byCustomer     == {o \in Present : row[o].customer = e.customer}
    IN  IF MetadataOrg(e) \cap Present # {} THEN MetadataOrg(e)
        ELSE IF bySubscription # {} THEN bySubscription ELSE byCustomer

\* An event is in order when no later one of its organization has been handled
\* before it.
InOrder(e) == e \in ledger \/ \A f \in ledger : EventOrg(f) = EventOrg(e) => f < e

\* A slip for the mutation runs: an event of no row is refused.
Find_Refuses(w) ==
    /\ At(w, "find")
    /\ LET e     == job[w].event
           found == FindSubscription(events[e])
       IN IF found = {} THEN Become(w, Idle)
          ELSE \E o \in found :
                 Become(w, [pc |-> "save", event |-> e, org |-> o, row |-> row[o]])
    /\ UNCHANGED <<failures, row, ledger, clean, stripe>>

\* The row is read, without a lock; an event that belongs to none is recorded
\* and acknowledged.
Find(w) ==
    /\ At(w, "find")
    /\ LET e     == job[w].event
           found == FindSubscription(events[e])
       IN \/ /\ found = {}
             /\ ledger' = ledger \cup {e}
             /\ clean' = [clean EXCEPT ![EventOrg(e)] = @ /\ InOrder(e)]
             /\ Become(w, Idle)
          \/ /\ \E o \in found :
                   Become(w, [pc |-> "save", event |-> e, org |-> o, row |-> row[o]])
             /\ UNCHANGED <<ledger, clean>>
    /\ UNCHANGED <<failures, row, stripe>>

\* A slip for the mutation runs: a price no plan has is saved all the same.
PlanFor_Unchecked(price, plan) == price

\* _plan_for_price, and "if plan is not None": a price no plan has changes
\* nothing.
PlanFor(price, plan) == IF price \in PaidPlans THEN price ELSE plan

StatusFor(stripeStatus, status) ==
    IF stripeStatus \in DOMAIN StatusMap THEN StatusMap[stripeStatus] ELSE status

\* The handlers, on the row they have read.
Mapped(e, r) ==
    CASE e.type = "checkout" ->
           [r EXCEPT !.customer = e.customer, !.subscription = e.subscription,
                     !.plan = e.price, !.status = "active"]
      [] e.type = "updated" ->
           [r EXCEPT !.subscription = e.subscription,
                     !.status = StatusFor(e.status, @), !.plan = PlanFor(e.price, @)]
      [] e.type = "deleted" ->
           [r EXCEPT !.status = "canceled", !.plan = FreePlan, !.subscription = NoId]
      [] e.type = "payment_failed" -> [r EXCEPT !.status = "past_due"]

\* save() writes every field of the row read before, the invoice's handler only
\* the status; then the transaction commits.  A row deleted meanwhile fails the
\* save, or the foreign key at the commit, and rolls the ledger back with it.
Save(w) ==
    /\ At(w, "save")
    /\ LET e == job[w].event
           o == job[w].org
           r == IF events[e].type = "payment_failed" THEN row[o] ELSE job[w].row
       IN \/ /\ o \in Present
             /\ row' = [row EXCEPT ![o] = Mapped(events[e], r)]
             /\ ledger' = ledger \cup {e}
             /\ clean' = [clean EXCEPT ![o] = @ /\ InOrder(e) /\ row[o] = job[w].row]
          \/ /\ o \notin Present
             /\ UNCHANGED <<row, ledger, clean>>
    /\ Become(w, Idle)
    /\ UNCHANGED <<failures, stripe>>

\* A slip for the mutation runs: the ledger row outlives the rollback.
Fail_KeepsLedger(w) ==
    /\ job[w] # Idle
    /\ failures < MaxFailures
    /\ failures' = failures + 1
    /\ Become(w, Idle)
    /\ ledger' = IF job[w].pc = "save" THEN ledger \cup {job[w].event} ELSE ledger
    /\ UNCHANGED <<row, stripe, clean>>

\* The worker dies, or a statement or a call to Stripe raises.
Fail(w) ==
    /\ job[w] # Idle
    /\ failures < MaxFailures
    /\ failures' = failures + 1
    /\ Become(w, Idle)
    /\ UNCHANGED <<row, ledger, stripe, clean>>

DeleteOrg(o) ==
    /\ o \in Present
    /\ row' = [row EXCEPT ![o] = Gone]
    /\ UNCHANGED <<failures, ledger, stripe, job, clean>>
-----------------------------------------------------------------------------
Checkout(w) == CreateCustomer(w) \/ AttachCustomer(w) \/ CreateSession(w)

Next ==
    \/ \E w \in Workers, o \in Orgs, p \in PaidPlans : StartCheckout(w, o, p)
    \/ \E w \in Workers : Checkout(w)
    \/ \E c \in sessions : CompleteCheckout(c)
    \/ \E s \in DOMAIN subscriptions, p \in Prices, t \in StripeStatuses :
          UpdateSubscription(s, p, t)
    \/ \E s \in DOMAIN subscriptions : FailPayment(s) \/ CancelSubscription(s)
    \/ \E w \in Workers, e \in DOMAIN events : Deliver(w, e)
    \/ \E w \in Workers : Find(w) \/ Save(w) \/ Fail(w)
    \/ \E o \in Orgs : DeleteOrg(o)

Spec == Init /\ [][Next]_vars

\* A request that is not cut short runs to its end, and Stripe retries an event
\* until it is acknowledged; failures do not go on for ever (MaxFailures).
FairSpec ==
    /\ Spec
    /\ \A w \in Workers : WF_vars(Checkout(w) \/ Find(w) \/ Save(w))
    /\ SF_vars(\E w \in Workers, e \in DOMAIN events : Deliver(w, e))
-----------------------------------------------------------------------------
\* "The webhook is the source of truth" (billing/webhooks.py): when every event
\* of an organization has been processed, its row says what Stripe says of its
\* live subscription, or that it is on the Free plan.  The code ensures it as
\* long as the events of the organization were handled in order and one at a
\* time, no second subscription started while one was live, and no checkout
\* replaced the customer of another: clean[o].
Settled(o) == \A e \in DOMAIN events : EventOrg(e) = o => e \in ledger

AgreesWithStripe ==
    \A o \in Present :
       clean[o] /\ Settled(o) =>
          /\ LiveOf(o) = {} => row[o].plan = FreePlan /\ row[o].subscription = NoId
          /\ \A s \in LiveOf(o) :
                LET t == subscriptions[s] IN
                /\ row[o].subscription = s
                /\ row[o].customer = t.customer
                /\ t.price \in PaidPlans => row[o].plan = t.price
                /\ t.status \in DOMAIN StatusMap => row[o].status = StatusMap[t.status]

\* An event, late, repeated, or of an organization that is gone, changes no row
\* but that of the organization its customer was created for.
OwnEventsOnly ==
    [][\A w \in Workers, o \in Orgs :
          At(w, "save") /\ job'[w] = Idle /\ row'[o] # row[o] /\ row'[o] # Gone
             => EventOrg(job[w].event) = o]_vars

\* "A duplicate delivery is a no-op" (billing/views.py): once recorded an event
\* stays so, and what a row says of its subscription changes only in the step that
\* records an event of its organization for the first time.
EachEventOnce ==
    [][/\ ledger \subseteq ledger'
       /\ \A o \in Orgs :
             /\ row'[o] \notin {row[o], Gone}
             /\ row'[o] # [row[o] EXCEPT !.customer = row'[o].customer]
             => \E e \in DOMAIN events \ ledger :
                   EventOrg(e) = o /\ ledger' = ledger \cup {e}]_vars

\* Every event Stripe emits is recorded in the end, whatever failed, was
\* delivered twice or lost its organization meanwhile.  (One formula for all of
\* them: Stripe falls silent at its bound.)
EventsRecorded == ~(DOMAIN events \subseteq ledger) ~> DOMAIN events \subseteq ledger

\* "Downgrade to Free so limits revert when a paid subscription ends"
\* (billing/webhooks.py): when all its events are processed and no subscription
\* of it is live, an organization is on the Free plan.
LimitsRevert == \A o \in Present : Settled(o) /\ LiveOf(o) = {} => row[o].plan = FreePlan
=============================================================================
