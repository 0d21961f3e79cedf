--------------------------- MODULE BillingProofs ---------------------------
(***************************************************************************)
(* What module Billing promises, for any organizations, workers, plans,    *)
(* prices and bounds: the rows are well-typed, no event changes the row of *)
(* another organization, and a row whose events were handled in order      *)
(* agrees with Stripe.                                                     *)
(***************************************************************************)
EXTENDS Billing, SequenceTheorems, TLAPS

Named(c, o) == c \in DOMAIN customers /\ customers[c] = o

\* The ids in a row, or in a copy of it, belong to the row's organization.
Belongs(o, r) ==
    /\ r.customer # NoId => Named(r.customer, o)
    /\ r.subscription # NoId => /\ r.subscription \in DOMAIN subscriptions
                                /\ OwnerOf(r.subscription) = o

RowsInv == \A o \in Present : Belongs(o, row[o])

\* What Stripe has refers to what Stripe has, and a checkout buys a plan.
StripeInv ==
    /\ \A c \in sessions : c.customer \in DOMAIN customers
    /\ \A s \in DOMAIN subscriptions : subscriptions[s].customer \in DOMAIN customers
    /\ \A e \in DOMAIN events :
          /\ events[e].subscription \in DOMAIN subscriptions
          /\ subscriptions[events[e].subscription].customer = events[e].customer
          /\ events[e].type = "checkout" => events[e].price \in PaidPlans

\* What a request holds: an event Stripe has emitted, which it is about to map
\* to the event's own organization; a customer of the organization it serves.
Fits(j) ==
    j # Idle =>
       /\ j.pc = "find" => j.event \in DOMAIN events
       /\ j.pc = "save" => /\ j.event \in DOMAIN events
                           /\ EventOrg(j.event) = j.org
                           /\ Belongs(j.org, j.row)
       /\ j.pc = "attach"  => Named(j.customer, j.org)
       /\ j.pc = "session" => j.customer \in DOMAIN customers

JobsInv == \A w \in Workers : Fits(job[w])

IInv == TypeOK /\ RowsInv /\ StripeInv /\ JobsInv
-----------------------------------------------------------------------------
\* What a worker at a given point has read.
LEMMA Locals ==
    ASSUME TypeOK, NEW w \in Workers, job[w] # Idle
    PROVE  /\ job[w] \in Job
           /\ At(w, "find") => job[w].event \in Nat
           /\ At(w, "save") => job[w].org \in Orgs /\ job[w].row \in Row
           /\ At(w, "create") => job[w].org \in Orgs /\ job[w].plan \in PaidPlans
           /\ At(w, "attach") => /\ job[w].org \in Orgs /\ job[w].plan \in PaidPlans
                                 /\ job[w].customer \in Nat
           /\ At(w, "session") => job[w].plan \in PaidPlans /\ job[w].customer \in Nat
  <1>1. job[w] \in Job  BY DEF TypeOK
  <1> QED  BY <1>1 DEF Job, At

\* What an event carries.
LEMMA EventData ==
    ASSUME TypeOK, StripeInv, NEW e \in DOMAIN events
    PROVE  /\ events[e] \in Event
           /\ events[e].customer \in DOMAIN customers
           /\ EventOrg(e) \in Orgs
           /\ events[e].subscription \in DOMAIN subscriptions
           /\ OwnerOf(events[e].subscription) = EventOrg(e)
           /\ events[e].customer # NoId /\ events[e].subscription # NoId
  <1>1. events[e] \in Event  BY DEF TypeOK
  <1>2. /\ events[e].subscription \in DOMAIN subscriptions
        /\ subscriptions[events[e].subscription].customer = events[e].customer
    BY DEF StripeInv
  <1>3. events[e].customer \in DOMAIN customers  BY <1>2 DEF StripeInv
  <1>4. DOMAIN customers = 1..Len(customers) /\ DOMAIN subscriptions = 1..Len(subscriptions)
    BY DEF TypeOK
  <1>5. Len(customers) \in Nat /\ Len(subscriptions) \in Nat  BY DEF TypeOK
  <1>6. customers[events[e].customer] \in Orgs  BY <1>3 DEF TypeOK
  <1> QED  BY <1>1, <1>2, <1>3, <1>4, <1>5, <1>6 DEF EventOrg, OwnerOf, NoId

\* The row an event is mapped to is one of its organization.
LEMMA Found ==
    ASSUME TypeOK, StripeInv, RowsInv,
           NEW e \in DOMAIN events, NEW o \in FindSubscription(events[e])
    PROVE  o \in Present /\ o = EventOrg(e)
  <1>1. CASE o \in MetadataOrg(events[e]) /\ MetadataOrg(events[e]) \cap Present # {}
    BY <1>1 DEF MetadataOrg, EventOrg
  <1>2. CASE /\ o \in Present
             /\ SubscriptionId(events[e]) # NoId
             /\ row[o].subscription = SubscriptionId(events[e])
    <2>1. row[o].subscription = events[e].subscription
      BY <1>2 DEF SubscriptionId
    <2>2. OwnerOf(row[o].subscription) = o
      BY <1>2 DEF RowsInv, Belongs
    <2> QED  BY <1>2, <2>1, <2>2, EventData
  <1>3. CASE o \in Present /\ row[o].customer = events[e].customer
    BY <1>3, EventData DEF RowsInv, Belongs, Named, EventOrg
  <1> QED  BY <1>1, <1>2, <1>3 DEF FindSubscription

\* A handler gives the row ids of the event, of the row it read, or none.
LEMMA MappedRow ==
    ASSUME TypeOK, StripeInv, NEW e \in DOMAIN events,
           NEW r \in Row, Belongs(EventOrg(e), r)
    PROVE  /\ Mapped(events[e], r) \in Row
           /\ Belongs(EventOrg(e), Mapped(events[e], r))
  <1> DEFINE m == Mapped(events[e], r)
  <1>1. /\ events[e].type \in EventTypes
        /\ events[e].customer \in Nat /\ events[e].subscription \in Nat
    BY EventData DEF Event
  <1>2. /\ Named(events[e].customer, EventOrg(e))
        /\ events[e].subscription \in DOMAIN subscriptions
        /\ OwnerOf(events[e].subscription) = EventOrg(e)
    BY EventData DEF Named, EventOrg
  <1>3. CASE events[e].type = "checkout"
    <2>1. m = [r EXCEPT !.customer = events[e].customer,
                        !.subscription = events[e].subscription,
                        !.plan = events[e].price, !.status = "active"]
      BY <1>3 DEF Mapped
    <2>2. events[e].price \in PaidPlans  BY <1>3 DEF StripeInv
    <2> QED  BY <1>1, <1>2, <2>1, <2>2 DEF Row, Belongs
  <1>4. CASE events[e].type = "updated"
    <2>1. m = [r EXCEPT !.subscription = events[e].subscription,
                        !.status = StatusFor(events[e].status, @),
                        !.plan = PlanFor(events[e].price, @)]
      BY <1>4 DEF Mapped
    <2>2. StatusFor(events[e].status, r.status)
             \in {"active", "past_due", "canceled", "incomplete"}
      BY DEF StatusFor, StatusMap, Row
    <2>3. PlanFor(events[e].price, r.plan) \in PaidPlans \cup {FreePlan}
      BY DEF PlanFor, Row
    <2>4. m \in Row  BY <1>1, <2>1, <2>2, <2>3 DEF Row
    <2>5. m.customer = r.customer /\ m.subscription = events[e].subscription
      BY <2>1 DEF Row
    <2> QED  BY <1>2, <2>4, <2>5 DEF Belongs
  <1>5. CASE events[e].type = "deleted"
    <2>1. m = [r EXCEPT !.status = "canceled", !.plan = FreePlan, !.subscription = NoId]
      BY <1>5 DEF Mapped
    <2>2. m = [plan |-> FreePlan, customer |-> r.customer, subscription |-> NoId,
               status |-> "canceled"]
      BY <2>1 DEF Row
    <2>3. m \in Row  BY <2>2 DEF Row, NoId
    <2> QED  BY <2>2, <2>3 DEF Belongs
  <1>6. CASE events[e].type = "payment_failed"
    <2>1. m = [r EXCEPT !.status = "past_due"]
      BY <1>6 DEF Mapped
    <2> QED  BY <2>1 DEF Row, Belongs
  <1> QED  BY <1>1, <1>3, <1>4, <1>5, <1>6 DEF EventTypes

\* Appending to a sequence leaves what it has in place.
LEMMA Appended ==
    ASSUME NEW S, NEW s \in Seq(S), NEW x \in S
    PROVE  /\ Append(s, x) \in Seq(S)
           /\ Len(Append(s, x)) = Len(s) + 1
           /\ DOMAIN Append(s, x) = DOMAIN s \cup {Len(s) + 1}
           /\ \A i \in DOMAIN s : Append(s, x)[i] = s[i]
           /\ Append(s, x)[Len(s) + 1] = x
           /\ Len(s) + 1 \notin DOMAIN s
  <1>1. Len(s) \in Nat /\ DOMAIN s = 1..Len(s)  OBVIOUS
  <1> QED  BY <1>1, AppendProperties
-----------------------------------------------------------------------------
(* Stripe's logs only grow.                                                *)

Grown ==
    /\ \A c \in DOMAIN customers : c \in DOMAIN customers' /\ customers'[c] = customers[c]
    /\ \A s \in DOMAIN subscriptions :
          /\ s \in DOMAIN subscriptions'
          /\ subscriptions'[s].customer = subscriptions[s].customer
    /\ \A e \in DOMAIN events : e \in DOMAIN events' /\ events'[e] = events[e]

StripeTyped ==
    /\ customers \in Seq(Orgs)
    /\ subscriptions \in Seq(StripeSubscription)
    /\ sessions \subseteq Session
    /\ events \in Seq(Event)

\* What an event reports of a subscription that is Stripe's already.
LEMMA Emitted ==
    ASSUME TypeOK, StripeInv,
           NEW type \in EventTypes, NEW s \in DOMAIN subscriptions', Emit(type, s),
           customers' = customers, sessions' \subseteq sessions,
           subscriptions' \in Seq(StripeSubscription),
           \A t \in DOMAIN subscriptions :
              /\ t \in DOMAIN subscriptions'
              /\ subscriptions'[t].customer = subscriptions[t].customer,
           \A t \in DOMAIN subscriptions' : subscriptions'[t].customer \in DOMAIN customers,
           type = "checkout" => subscriptions'[s].price \in PaidPlans
    PROVE  StripeTyped' /\ StripeInv' /\ Grown
  <1> DEFINE e == [type |-> type, subscription |-> s, customer |-> subscriptions'[s].customer,
                   price |-> subscriptions'[s].price, status |-> subscriptions'[s].status]
  <1>1. events' = Append(events, e)  BY DEF Emit
  <1>2. e \in Event
    <2>1. subscriptions'[s] \in StripeSubscription  OBVIOUS
    <2>2. s \in Nat  OBVIOUS
    <2> QED  BY <2>1, <2>2 DEF StripeSubscription, Event
  <1>3. events \in Seq(Event)  BY DEF TypeOK
  <1> HIDE DEF e
  <1>4. /\ events' \in Seq(Event)
        /\ DOMAIN events' = DOMAIN events \cup {Len(events) + 1}
        /\ \A i \in DOMAIN events : events'[i] = events[i]
        /\ events'[Len(events) + 1] = e
    BY <1>1, <1>2, <1>3, Appended
  <1>5. StripeTyped'  BY <1>4 DEF TypeOK, StripeTyped
  <1>6. Grown  BY <1>4 DEF Grown
  <1>7. ASSUME NEW i \in DOMAIN events'
        PROVE  /\ events'[i].subscription \in DOMAIN subscriptions'
               /\ subscriptions'[events'[i].subscription].customer = events'[i].customer
               /\ events'[i].type = "checkout" => events'[i].price \in PaidPlans
    <2>1. CASE i \in DOMAIN events
      BY <1>4, <2>1 DEF StripeInv
    <2>2. CASE i = Len(events) + 1
      BY <1>4, <2>2 DEF e
    <2> QED  BY <1>4, <2>1, <2>2
  <1>8. StripeInv'  BY <1>7 DEF StripeInv
  <1> QED  BY <1>5, <1>6, <1>8

LEMMA StripeStep ==
    ASSUME TypeOK, StripeInv, JobsInv, Next
    PROVE  StripeTyped' /\ StripeInv' /\ Grown
  <1> USE DEF StripeTyped
  <1>1. ASSUME UNCHANGED stripe
        PROVE  StripeTyped' /\ StripeInv' /\ Grown
    BY <1>1 DEF stripe, TypeOK, StripeInv, Grown
  <1>2. ASSUME NEW w \in Workers, CreateCustomer(w)
        PROVE  StripeTyped' /\ StripeInv' /\ Grown
    <2>1. customers' = Append(customers, job[w].org) /\ job[w].org \in Orgs
      BY <1>2, Locals DEF CreateCustomer, At
    <2>2. /\ customers' \in Seq(Orgs)
          /\ DOMAIN customers' = DOMAIN customers \cup {Len(customers) + 1}
          /\ \A c \in DOMAIN customers : customers'[c] = customers[c]
      <3>1. customers \in Seq(Orgs)  BY DEF TypeOK
      <3> QED  BY <2>1, <3>1, Appended
    <2>3. UNCHANGED <<subscriptions, sessions, events>>  BY <1>2 DEF CreateCustomer
    <2> QED  BY <2>2, <2>3 DEF TypeOK, StripeInv, Grown
  <1>3. ASSUME NEW w \in Workers, CreateSession(w)
        PROVE  StripeTyped' /\ StripeInv' /\ Grown
    <2>1. /\ job[w].customer \in Nat /\ job[w].plan \in PaidPlans
          /\ job[w].customer \in DOMAIN customers
      BY <1>3, Locals DEF CreateSession, At, JobsInv, Fits
    <2>2. UNCHANGED <<customers, subscriptions, events>>  BY <1>3 DEF CreateSession
    <2>3. sessions' = sessions \cup {[customer |-> job[w].customer, plan |-> job[w].plan]}
      BY <1>3 DEF CreateSession
    <2> QED  BY <2>1, <2>2, <2>3 DEF TypeOK, StripeInv, Grown, Session
  <1>4. ASSUME NEW c \in sessions, CompleteCheckout(c)
        PROVE  StripeTyped' /\ StripeInv' /\ Grown
    <2> DEFINE t == [customer |-> c.customer, price |-> c.plan, status |-> "active"]
    <2>1. /\ subscriptions' = Append(subscriptions, t)
          /\ sessions' \subseteq sessions /\ customers' = customers
          /\ Emit("checkout", Len(subscriptions) + 1)
      BY <1>4 DEF CompleteCheckout
    <2>2. c.customer \in Nat /\ c.plan \in PaidPlans /\ c.customer \in DOMAIN customers
      BY DEF TypeOK, Session, StripeInv
    <2>3. t \in StripeSubscription /\ t.price \in PaidPlans /\ t.customer \in DOMAIN customers
      BY <2>2, BillingAssumption DEF StripeSubscription
    <2>4. subscriptions \in Seq(StripeSubscription)  BY DEF TypeOK
    <2> HIDE DEF t
    <2>5. /\ subscriptions' \in Seq(StripeSubscription)
          /\ DOMAIN subscriptions' = DOMAIN subscriptions \cup {Len(subscriptions) + 1}
          /\ \A s \in DOMAIN subscriptions : subscriptions'[s] = subscriptions[s]
          /\ subscriptions'[Len(subscriptions) + 1] = t
      BY <2>1, <2>3, <2>4, Appended
    <2>6. \A s \in DOMAIN subscriptions' : subscriptions'[s].customer \in DOMAIN customers
      BY <2>3, <2>5 DEF StripeInv
    <2>7. "checkout" \in EventTypes  BY DEF EventTypes
    <2> QED  BY <2>1, <2>3, <2>5, <2>6, <2>7, Emitted
  <1>5. ASSUME NEW s \in DOMAIN subscriptions, NEW type \in EventTypes \ {"checkout"},
               NEW price \in Prices, NEW status \in StripeStatuses \cup {"canceled", "past_due"},
               subscriptions' = [subscriptions EXCEPT ![s].price = price, ![s].status = status],
               Emit(type, s), UNCHANGED <<customers, sessions>>
        PROVE  StripeTyped' /\ StripeInv' /\ Grown
    <2>1. /\ subscriptions \in Seq(StripeSubscription)
          /\ DOMAIN subscriptions' = DOMAIN subscriptions
          /\ \A t \in DOMAIN subscriptions : subscriptions[t] \in StripeSubscription
      BY <1>5 DEF TypeOK
    <2>2. \A t \in DOMAIN subscriptions :
             subscriptions'[t] = IF t = s
               THEN [subscriptions[t] EXCEPT !.price = price, !.status = status]
               ELSE subscriptions[t]
      BY <1>5, <2>1
    <2>3. \A t \in DOMAIN subscriptions :
             /\ subscriptions'[t] \in StripeSubscription
             /\ subscriptions'[t].customer = subscriptions[t].customer
      BY <2>1, <2>2 DEF StripeSubscription
    <2>4. subscriptions' \in Seq(StripeSubscription)
      <3>1. subscriptions' = [subscriptions EXCEPT ![s] =
                                [@ EXCEPT !.price = price, !.status = status]]
        BY <1>5
      <3>2. [subscriptions[s] EXCEPT !.price = price, !.status = status] \in StripeSubscription
        BY <2>1 DEF StripeSubscription
      <3> QED  BY <2>1, <3>1, <3>2, ExceptSeq
    <2>5. \A t \in DOMAIN subscriptions' : subscriptions'[t].customer \in DOMAIN customers
      BY <2>1, <2>3 DEF StripeInv
    <2> QED  BY <1>5, <2>1, <2>3, <2>4, <2>5, Emitted
  <1>6. ASSUME NEW s \in DOMAIN subscriptions, NEW p \in Prices, NEW t \in StripeStatuses,
               UpdateSubscription(s, p, t)
        PROVE  StripeTyped' /\ StripeInv' /\ Grown
    BY <1>5, <1>6 DEF UpdateSubscription, EventTypes
  <1>7. ASSUME NEW s \in DOMAIN subscriptions, NEW type \in {"payment_failed", "deleted"},
               NEW status \in {"past_due", "canceled"},
               subscriptions' = [subscriptions EXCEPT ![s].status = status],
               Emit(type, s), UNCHANGED <<customers, sessions>>
        PROVE  StripeTyped' /\ StripeInv' /\ Grown
    <2>1. subscriptions[s] \in StripeSubscription  BY DEF TypeOK
    <2>2. /\ subscriptions' = [subscriptions EXCEPT ![s].price = subscriptions[s].price,
                                                    ![s].status = status]
          /\ subscriptions[s].price \in Prices
      <3>1. [subscriptions[s] EXCEPT !.status = status]
              = [subscriptions[s] EXCEPT !.price = subscriptions[s].price, !.status = status]
        BY <2>1 DEF StripeSubscription
      <3> QED  BY <1>7, <2>1, <3>1 DEF StripeSubscription, TypeOK
    <2> QED  BY <1>5, <1>7, <2>2 DEF EventTypes
  <1>8. ASSUME NEW s \in DOMAIN subscriptions, FailPayment(s) \/ CancelSubscription(s)
        PROVE  StripeTyped' /\ StripeInv' /\ Grown
    BY <1>7, <1>8 DEF FailPayment, CancelSubscription
  <1>9. CASE \/ \E w \in Workers, o \in Orgs, p \in PaidPlans : StartCheckout(w, o, p)
             \/ \E w \in Workers : AttachCustomer(w) \/ Find(w) \/ Save(w) \/ Fail(w)
             \/ \E w \in Workers, e \in DOMAIN events : Deliver(w, e)
             \/ \E o \in Orgs : DeleteOrg(o)
    <2>1. UNCHANGED stripe
      BY <1>9 DEF StartCheckout, AttachCustomer, Find, Save, Fail, Deliver, DeleteOrg
    <2> QED  BY <1>1, <2>1
  <1> QED  BY <1>2, <1>3, <1>4, <1>6, <1>8, <1>9 DEF Next, Checkout
-----------------------------------------------------------------------------
(* What rows and requests hold stays theirs, and what they take is theirs. *)

LEMMA Kept ==
    ASSUME StripeInv, Grown, NEW o, NEW r, Belongs(o, r)
    PROVE  Belongs(o, r)'
  <1>1. r.customer # NoId => Named(r.customer, o)'
    BY DEF Belongs, Named, Grown
  <1>2. ASSUME r.subscription # NoId
        PROVE  /\ r.subscription \in DOMAIN subscriptions'
               /\ OwnerOf(r.subscription)' = o
    <2>1. r.subscription \in DOMAIN subscriptions /\ OwnerOf(r.subscription) = o
      BY <1>2 DEF Belongs
    <2>2. subscriptions[r.subscription].customer \in DOMAIN customers
      BY <2>1 DEF StripeInv
    <2> QED  BY <2>1, <2>2 DEF Grown, OwnerOf
  <1> QED  BY <1>1, <1>2 DEF Belongs

LEMMA StillFits ==
    ASSUME StripeInv, Grown, NEW j, Fits(j)
    PROVE  Fits(j)'
  <1>1. CASE j = Idle
    BY <1>1 DEF Fits
  <1>2. CASE j # Idle /\ j.pc = "save"
    <2>1. /\ j.event \in DOMAIN events /\ EventOrg(j.event) = j.org
          /\ Belongs(j.org, j.row)
      BY <1>2 DEF Fits
    <2>2. events[j.event].customer \in DOMAIN customers
      BY <2>1 DEF StripeInv
    <2>3. j.event \in DOMAIN events' /\ EventOrg(j.event)' = j.org
      BY <2>1, <2>2 DEF Grown, EventOrg
    <2>4. Belongs(j.org, j.row)'
      BY <2>1, Kept
    <2> QED  BY <1>2, <2>3, <2>4 DEF Fits
  <1>3. CASE j # Idle /\ j.pc # "save"
    BY <1>3 DEF Fits, Named, Grown
  <1> QED  BY <1>1, <1>2, <1>3

LEMMA NextJobs ==
    ASSUME IInv, Next
    PROVE  job' \in [Workers -> Job \cup {Idle}] /\ JobsInv'
  <1> USE DEF IInv
  <1>1. StripeInv' /\ Grown  BY StripeStep
  <1>2. ASSUME NEW w \in Workers, NEW j \in Job \cup {Idle}, Become(w, j), Fits(j)'
        PROVE  job' \in [Workers -> Job \cup {Idle}] /\ JobsInv'
    <2>1. job' \in [Workers -> Job \cup {Idle}]
      BY <1>2 DEF Become, TypeOK
    <2>2. ASSUME NEW v \in Workers
          PROVE  Fits(job[v])'
      <3>1. CASE v = w
        <4>1. job'[v] = j  BY <1>2, <3>1 DEF Become, TypeOK
        <4> QED  BY <1>2, <4>1 DEF Fits
      <3>2. CASE v # w
        <4>1. job'[v] = job[v]  BY <1>2, <3>2 DEF Become, TypeOK
        <4>2. Fits(job[v])  BY DEF JobsInv
        <4> QED  BY <1>1, <4>1, <4>2, StillFits DEF Fits
      <3> QED  BY <3>1, <3>2
    <2> QED  BY <2>1, <2>2 DEF JobsInv
  <1> USE DEF NoId
  <1>3. ASSUME NEW w \in Workers, Become(w, Idle)
        PROVE  job' \in [Workers -> Job \cup {Idle}] /\ JobsInv'
    <2>1. PICK j \in Job \cup {Idle} : j = Idle  OBVIOUS
    <2> QED  BY <1>2, <1>3, <2>1 DEF Fits
  <1>4. ASSUME UNCHANGED job
        PROVE  job' \in [Workers -> Job \cup {Idle}] /\ JobsInv'
    <2>1. ASSUME NEW v \in Workers PROVE Fits(job[v])'
      <3>1. Fits(job[v])  BY DEF JobsInv
      <3> QED  BY <1>1, <1>4, <3>1, StillFits DEF Fits
    <2> QED  BY <1>4, <2>1 DEF TypeOK, JobsInv
  <1>5. ASSUME NEW w \in Workers, NEW o \in Orgs, NEW p \in PaidPlans, StartCheckout(w, o, p)
        PROVE  job' \in [Workers -> Job \cup {Idle}] /\ JobsInv'
    <2>1. row[o] \in Row /\ o \in Present
      BY <1>5 DEF StartCheckout, Present, TypeOK
    <2>2. CASE row[o].customer = NoId
      <3>1. PICK j \in Job : Become(w, j) /\ j.pc = "create"
        BY <1>5, <2>2 DEF StartCheckout, Job
      <3> QED  BY <1>2, <3>1 DEF Fits
    <2>3. CASE row[o].customer # NoId
      <3>1. PICK j \in Job : Become(w, j) /\ j.pc = "session" /\ j.customer = row[o].customer
        BY <1>5, <2>1, <2>3 DEF StartCheckout, Job, Row
      <3>2. row[o].customer \in DOMAIN customers
        BY <2>1, <2>3 DEF RowsInv, Belongs, Named
      <3> QED  BY <1>1, <1>2, <3>1, <3>2 DEF Fits, Grown
    <2> QED  BY <2>2, <2>3
  <1>6. ASSUME NEW w \in Workers, CreateCustomer(w)
        PROVE  job' \in [Workers -> Job \cup {Idle}] /\ JobsInv'
    <2>1. job[w].org \in Orgs /\ job[w].plan \in PaidPlans
      BY <1>6, Locals DEF CreateCustomer, At
    <2>2. customers \in Seq(Orgs) /\ customers' = Append(customers, job[w].org)
      BY <1>6 DEF CreateCustomer, TypeOK
    <2>3. /\ Len(customers) + 1 \in DOMAIN customers' /\ Len(customers) + 1 \in Nat
          /\ customers'[Len(customers) + 1] = job[w].org
      BY <2>1, <2>2, Appended
    <2>4. PICK j \in Job : /\ Become(w, j)
                           /\ j.pc = "attach" /\ j.org = job[w].org
                           /\ j.customer = Len(customers) + 1
      BY <1>6, <2>1, <2>3 DEF CreateCustomer, Job
    <2>5. Fits(j)'  BY <2>3, <2>4 DEF Fits, Named
    <2> QED  BY <1>2, <2>4, <2>5
  <1>7. ASSUME NEW w \in Workers, AttachCustomer(w)
        PROVE  job' \in [Workers -> Job \cup {Idle}] /\ JobsInv'
    <2>1. CASE Become(w, Idle)  BY <1>3, <2>1
    <2>2. CASE Become(w, [pc |-> "session", plan |-> job[w].plan,
                          customer |-> job[w].customer])
      <3>1. job[w].plan \in PaidPlans /\ job[w].customer \in Nat
        BY <1>7, Locals DEF AttachCustomer, At
      <3>2. Named(job[w].customer, job[w].org)
        BY <1>7 DEF AttachCustomer, At, JobsInv, Fits
      <3>3. PICK j \in Job : Become(w, j) /\ j.pc = "session" /\ j.customer = job[w].customer
        BY <2>2, <3>1 DEF Job
      <3>4. Fits(j)'  BY <1>1, <3>2, <3>3 DEF Fits, Named, Grown
      <3> QED  BY <1>2, <3>3, <3>4
    <2> QED  BY <1>7, <2>1, <2>2 DEF AttachCustomer
  <1>8. ASSUME NEW w \in Workers, NEW e \in DOMAIN events, Deliver(w, e)
        PROVE  job' \in [Workers -> Job \cup {Idle}] /\ JobsInv'
    <2>1. e \in Nat  BY DEF TypeOK
    <2>2. PICK j \in Job : Become(w, j) /\ j.pc = "find" /\ j.event = e
      BY <1>8, <2>1 DEF Deliver, Job
    <2>3. Fits(j)'  BY <1>1, <2>2 DEF Fits, Grown
    <2> QED  BY <1>2, <2>2, <2>3
  <1>9. ASSUME NEW w \in Workers, Find(w)
        PROVE  job' \in [Workers -> Job \cup {Idle}] /\ JobsInv'
    <2>1. CASE Become(w, Idle)  BY <1>3, <2>1
    <2>2. CASE \E o \in FindSubscription(events[job[w].event]) :
                  Become(w, [pc |-> "save", event |-> job[w].event, org |-> o, row |-> row[o]])
      <3>1. job[w].event \in DOMAIN events /\ job[w].event \in Nat
        BY <1>9 DEF Find, At, JobsInv, Fits, TypeOK
      <3>2. PICK o \in FindSubscription(events[job[w].event]) :
               Become(w, [pc |-> "save", event |-> job[w].event, org |-> o, row |-> row[o]])
        BY <2>2
      <3>3. o \in Present /\ o = EventOrg(job[w].event)
        BY <3>1, Found
      <3>4. o \in Orgs /\ row[o] \in Row /\ Belongs(o, row[o])
        BY <3>3 DEF Present, TypeOK, RowsInv
      <3>5. PICK j \in Job : /\ Become(w, j) /\ j.pc = "save"
                             /\ j.event = job[w].event /\ j.org = o /\ j.row = row[o]
        BY <3>1, <3>2, <3>4 DEF Job
      <3>6. Fits(j)  BY <3>1, <3>3, <3>4, <3>5 DEF Fits
      <3>7. Fits(j)'  BY <1>1, <3>6, StillFits
      <3> QED  BY <1>2, <3>5, <3>7
    <2> QED  BY <1>9, <2>1, <2>2 DEF Find
  <1>10. ASSUME NEW w \in Workers, CreateSession(w) \/ Save(w) \/ Fail(w)
         PROVE  Become(w, Idle)
    BY <1>10 DEF CreateSession, Save, Fail
  <1>11. CASE \/ \E c \in sessions : CompleteCheckout(c)
              \/ \E s \in DOMAIN subscriptions, p \in Prices, t \in StripeStatuses :
                    UpdateSubscription(s, p, t)
              \/ \E s \in DOMAIN subscriptions : FailPayment(s) \/ CancelSubscription(s)
              \/ \E o \in Orgs : DeleteOrg(o)
    <2>1. UNCHANGED job
      BY <1>11 DEF CompleteCheckout, UpdateSubscription, FailPayment, CancelSubscription,
                   DeleteOrg
    <2> QED  BY <1>4, <2>1
  <1> QED
    BY <1>3, <1>5, <1>6, <1>7, <1>8, <1>9, <1>10, <1>11 DEF Next, Checkout

LEMMA NextRows ==
    ASSUME IInv, Next
    PROVE  row' \in [Orgs -> Row \cup {Gone}] /\ RowsInv'
  <1> USE DEF IInv
  <1>1. StripeInv' /\ Grown  BY StripeStep
  <1>2. ASSUME UNCHANGED row
        PROVE  row' \in [Orgs -> Row \cup {Gone}] /\ RowsInv'
    <2>1. ASSUME NEW o \in Orgs, row[o] # Gone PROVE Belongs(o, row[o])'
      <3>1. Belongs(o, row[o])  BY <2>1 DEF RowsInv, Present
      <3> QED  BY <1>1, <1>2, <3>1, Kept DEF Belongs
    <2> QED  BY <1>2, <2>1 DEF TypeOK, RowsInv, Present
  <1>3. ASSUME NEW o \in Orgs, NEW r \in Row, row' = [row EXCEPT ![o] = r], Belongs(o, r)'
        PROVE  row' \in [Orgs -> Row \cup {Gone}] /\ RowsInv'
    <2>1. row' \in [Orgs -> Row \cup {Gone}]  BY <1>3 DEF TypeOK
    <2>2. ASSUME NEW q \in Orgs, row'[q] # Gone PROVE Belongs(q, row[q])'
      <3>1. CASE q = o
        <4>1. row'[q] = r  BY <1>3, <3>1 DEF TypeOK
        <4> QED  BY <1>3, <3>1, <4>1 DEF Belongs
      <3>2. CASE q # o
        <4>1. row'[q] = row[q]  BY <1>3, <3>2 DEF TypeOK
        <4>2. Belongs(q, row[q])  BY <2>2, <4>1 DEF RowsInv, Present
        <4> QED  BY <1>1, <4>1, <4>2, Kept DEF Belongs
      <3> QED  BY <3>1, <3>2
    <2> QED  BY <2>1, <2>2 DEF RowsInv, Present
  <1>4. ASSUME NEW w \in Workers, AttachCustomer(w)
        PROVE  row' \in [Orgs -> Row \cup {Gone}] /\ RowsInv'
    <2> DEFINE o == job[w].org
    <2>1. job[w].org \in Orgs /\ job[w].customer \in Nat
      BY <1>4, Locals DEF AttachCustomer, At
    <2>2. Named(job[w].customer, job[w].org)
      BY <1>4 DEF AttachCustomer, At, JobsInv, Fits
    <2>3. CASE o \in Present
      <3>1. row[o] \in Row /\ Belongs(o, row[o])
        BY <2>1, <2>3 DEF Present, TypeOK, RowsInv
      <3>2. row' = [row EXCEPT ![o] = [row[o] EXCEPT !.customer = job[w].customer]]
        BY <1>4, <2>3 DEF AttachCustomer
      <3>3. PICK q \in Orgs : q = o  BY <2>1
      <3> DEFINE x == [row[o] EXCEPT !.customer = job[w].customer]
      <3>4. PICK r \in Row : /\ r = x
                             /\ r.customer = job[w].customer
                             /\ r.subscription = row[o].subscription
        <4>1. x = [plan |-> row[o].plan, customer |-> job[w].customer,
                   subscription |-> row[o].subscription, status |-> row[o].status]
          BY <3>1 DEF Row
        <4> HIDE DEF x
        <4>2. /\ x \in Row
              /\ x.customer = job[w].customer /\ x.subscription = row[o].subscription
          BY <2>1, <3>1, <4>1 DEF Row
        <4> QED  BY <4>2
      <3>5. Belongs(q, r)  BY <2>2, <3>1, <3>3, <3>4 DEF Belongs
      <3>6. Belongs(q, r)'  BY <1>1, <3>5, Kept
      <3> QED  BY <1>3, <3>2, <3>3, <3>4, <3>6
    <2>4. CASE o \notin Present
      BY <1>2, <1>4, <2>4 DEF AttachCustomer
    <2> QED  BY <2>3, <2>4
  <1>5. ASSUME NEW w \in Workers, Save(w)
        PROVE  row' \in [Orgs -> Row \cup {Gone}] /\ RowsInv'
    <2> DEFINE e == job[w].event
               o == job[w].org
               read == IF events[e].type = "payment_failed" THEN row[o] ELSE job[w].row
    <2>1. /\ e \in DOMAIN events /\ EventOrg(e) = o
          /\ Belongs(o, job[w].row)
      BY <1>5 DEF Save, At, JobsInv, Fits
    <2>2. o \in Orgs /\ job[w].row \in Row
      BY <1>5, Locals DEF Save, At
    <2>3. CASE o \in Present
      <3>1. row[o] \in Row /\ Belongs(o, row[o])
        BY <2>2, <2>3 DEF Present, TypeOK, RowsInv
      <3>2. row' = [row EXCEPT ![o] = Mapped(events[e], read)]
        BY <1>5, <2>3 DEF Save
      <3>3. read \in Row /\ Belongs(o, read)
        BY <2>1, <2>2, <3>1
      <3> HIDE DEF read
      <3>4. Mapped(events[e], read) \in Row /\ Belongs(o, Mapped(events[e], read))
        BY <2>1, <3>3, MappedRow
      <3>5. PICK q \in Orgs : q = o  BY <2>2
      <3>6. PICK r \in Row : r = Mapped(events[e], read)  BY <3>4
      <3>7. Belongs(q, r)'  BY <1>1, <3>4, <3>5, <3>6, Kept
      <3> QED  BY <1>3, <3>2, <3>5, <3>6, <3>7
    <2>4. CASE o \notin Present
      BY <1>2, <1>5, <2>4 DEF Save
    <2> QED  BY <2>3, <2>4
  <1>6. ASSUME NEW o \in Orgs, DeleteOrg(o)
        PROVE  row' \in [Orgs -> Row \cup {Gone}] /\ RowsInv'
    <2>1. row' = [row EXCEPT ![o] = Gone]  BY <1>6 DEF DeleteOrg
    <2>2. ASSUME NEW q \in Orgs, row'[q] # Gone PROVE Belongs(q, row[q])'
      <3>1. row'[q] = row[q]  BY <2>1, <2>2 DEF TypeOK
      <3>2. Belongs(q, row[q])  BY <2>2, <3>1 DEF RowsInv, Present
      <3> QED  BY <1>1, <3>1, <3>2, Kept DEF Belongs
    <2> QED  BY <2>1, <2>2 DEF TypeOK, RowsInv, Present
  <1>7. CASE UNCHANGED row
    BY <1>2, <1>7
  <1>8. \/ UNCHANGED row
        \/ \E w \in Workers : AttachCustomer(w) \/ Save(w)
        \/ \E o \in Orgs : DeleteOrg(o)
    BY DEF Next, Checkout, StartCheckout, CreateCustomer, CreateSession, CompleteCheckout,
           UpdateSubscription, FailPayment, CancelSubscription, Deliver, Find, Fail
  <1> QED  BY <1>4, <1>5, <1>6, <1>7, <1>8

\* The ledger holds events there are; a failure is counted.
LEMMA NextRest ==
    ASSUME IInv, Next
    PROVE  /\ ledger' \subseteq 1..Len(events')
           /\ failures' \in 0..MaxFailures
           /\ clean' \in [Orgs -> BOOLEAN]
  <1> USE DEF IInv
  <1>1. ledger' \subseteq DOMAIN events
    <2>1. ASSUME NEW w \in Workers, Find(w) \/ Save(w)
          PROVE  job[w].event \in DOMAIN events
      BY <2>1 DEF Find, Save, At, JobsInv, Fits
    <2>2. ledger \subseteq DOMAIN events  BY DEF TypeOK
    <2>3. ASSUME NEW w \in Workers, Find(w) \/ Save(w)
          PROVE  ledger' \subseteq ledger \cup {job[w].event}
      BY <2>3 DEF Find, Save
    <2>4. \/ UNCHANGED ledger
          \/ \E w \in Workers : Find(w) \/ Save(w)
      BY DEF Next, Checkout, StartCheckout, CreateCustomer, AttachCustomer, CreateSession,
             CompleteCheckout, UpdateSubscription, FailPayment, CancelSubscription,
             Deliver, Fail, DeleteOrg
    <2> QED  BY <2>1, <2>2, <2>3, <2>4
  <1>2. DOMAIN events \subseteq 1..Len(events')
    <2>1. DOMAIN events \subseteq DOMAIN events'  BY StripeStep DEF Grown
    <2>2. events' \in Seq(Event)  BY StripeStep DEF StripeTyped
    <2> QED  BY <2>1, <2>2
  <1>3. failures' \in 0..MaxFailures
    <2>1. \/ UNCHANGED failures
          \/ \E w \in Workers : Fail(w)
      BY DEF Next, Checkout, StartCheckout, CreateCustomer, AttachCustomer, CreateSession,
             CompleteCheckout, UpdateSubscription, FailPayment, CancelSubscription,
             Deliver, Find, Save, DeleteOrg
    <2>2. failures \in 0..MaxFailures /\ MaxFailures \in Nat
      BY BillingAssumption DEF TypeOK
    <2> QED  BY <2>1, <2>2 DEF Fail
  <1>4. clean' \in [Orgs -> BOOLEAN]
    <2>1. ASSUME NEW o, NEW x \in BOOLEAN, clean' = [clean EXCEPT ![o] = @ /\ x]
          PROVE  clean' \in [Orgs -> BOOLEAN]
      <3>1. clean \in [Orgs -> BOOLEAN]  BY DEF TypeOK
      <3>2. [clean EXCEPT ![o] = @ /\ x] \in [Orgs -> BOOLEAN]
        <4>1. CASE x = TRUE  BY <3>1, <4>1
        <4>2. CASE x = FALSE  BY <3>1, <4>2
        <4> QED  BY <4>1, <4>2
      <3> QED  BY <2>1, <3>2
    <2>2. ASSUME NEW w \in Workers, AttachCustomer(w)
          PROVE  clean' \in [Orgs -> BOOLEAN]
      <3>1. CASE UNCHANGED clean  BY <3>1 DEF TypeOK
      <3>2. CASE clean' = [clean EXCEPT ![job[w].org] = @ /\ row[job[w].org].customer = NoId]
        BY <2>1, <3>2
      <3> QED  BY <2>2, <3>1, <3>2 DEF AttachCustomer
    <2>3. ASSUME NEW c \in sessions, CompleteCheckout(c)
          PROVE  clean' \in [Orgs -> BOOLEAN]
      BY <2>1, <2>3 DEF CompleteCheckout
    <2>4. ASSUME NEW w \in Workers, Find(w)
          PROVE  clean' \in [Orgs -> BOOLEAN]
      <3>1. CASE UNCHANGED clean  BY <3>1 DEF TypeOK
      <3>2. CASE clean' = [clean EXCEPT ![EventOrg(job[w].event)] = @ /\ InOrder(job[w].event)]
        BY <2>1, <3>2 DEF InOrder
      <3> QED  BY <2>4, <3>1, <3>2 DEF Find
    <2>5. ASSUME NEW w \in Workers, Save(w)
          PROVE  clean' \in [Orgs -> BOOLEAN]
      <3>1. CASE UNCHANGED clean  BY <3>1 DEF TypeOK
      <3>2. CASE clean' = [clean EXCEPT ![job[w].org] = @ /\ InOrder(job[w].event)
                                                          /\ row[job[w].org] = job[w].row]
        BY <2>1, <3>2 DEF InOrder
      <3> QED  BY <2>5, <3>1, <3>2 DEF Save
    <2>6. CASE UNCHANGED clean
      BY <2>6 DEF TypeOK
    <2>7. \/ UNCHANGED clean
          \/ \E w \in Workers : AttachCustomer(w) \/ Find(w) \/ Save(w)
          \/ \E c \in sessions : CompleteCheckout(c)
      BY DEF Next, Checkout, StartCheckout, CreateCustomer, CreateSession,
             UpdateSubscription, FailPayment, CancelSubscription, Deliver, Fail, DeleteOrg
    <2> QED  BY <2>2, <2>3, <2>4, <2>5, <2>6, <2>7
  <1> QED  BY <1>1, <1>2, <1>3, <1>4
-----------------------------------------------------------------------------
LEMMA InitIInv == Init => IInv
  <1> SUFFICES ASSUME Init PROVE IInv  OBVIOUS
  <1>1. TypeOK  BY BillingAssumption DEF Init, TypeOK, Row, NoId
  <1>2. RowsInv  BY DEF Init, RowsInv, Present, Belongs
  <1>3. StripeInv  BY DEF Init, StripeInv
  <1>4. JobsInv  BY DEF Init, JobsInv, Fits
  <1> QED  BY <1>1, <1>2, <1>3, <1>4 DEF IInv

LEMMA NextIInv == IInv /\ [Next]_vars => IInv'
  <1> SUFFICES ASSUME IInv, [Next]_vars PROVE IInv'  OBVIOUS
  <1>1. CASE Next
    <2>1. StripeTyped' /\ StripeInv'  BY <1>1, StripeStep DEF IInv
    <2>2. TypeOK'  BY <1>1, <2>1, NextJobs, NextRows, NextRest DEF TypeOK, StripeTyped
    <2> QED  BY <1>1, <2>1, <2>2, NextJobs, NextRows DEF IInv
  <1>2. CASE UNCHANGED vars
    <2>1. TypeOK'  BY <1>2 DEF IInv, vars, TypeOK
    <2>2. RowsInv'  BY <1>2 DEF IInv, vars, RowsInv, Present, Belongs, Named, OwnerOf
    <2>3. StripeInv'  BY <1>2 DEF IInv, vars, StripeInv
    <2>4. JobsInv'
      BY <1>2 DEF IInv, vars, JobsInv, Fits, Belongs, Named, OwnerOf, EventOrg
    <2> QED  BY <2>1, <2>2, <2>3, <2>4 DEF IInv
  <1> QED  BY <1>1, <1>2

\* A step that ends a webhook's save and changes a row is that save.
LEMMA SavesOwn ==
    ASSUME IInv, Next, NEW w \in Workers, NEW o \in Orgs,
           At(w, "save"), job'[w] = Idle, row'[o] # row[o], row'[o] # Gone
    PROVE  EventOrg(job[w].event) = o
  <1> USE DEF IInv
  <1>1. EventOrg(job[w].event) = job[w].org /\ job[w].org \in Orgs
    BY Locals DEF At, JobsInv, Fits
  <1>2. ASSUME NEW v \in Workers, AttachCustomer(v)
        PROVE  FALSE
    <2>1. v # w  BY <1>2 DEF AttachCustomer, At
    <2> QED  BY <1>2, <2>1 DEF AttachCustomer, Become, At, TypeOK
  <1>3. ASSUME NEW v \in Workers, Save(v)
        PROVE  o = job[w].org
    <2>1. v = w  BY <1>3 DEF Save, Become, At, TypeOK
    <2> QED  BY <1>3, <2>1 DEF Save, TypeOK
  <1>4. ASSUME NEW q \in Orgs, DeleteOrg(q)
        PROVE  FALSE
    BY <1>4 DEF DeleteOrg, TypeOK
  <1>5. \/ \E v \in Workers : AttachCustomer(v) \/ Save(v)
        \/ \E q \in Orgs : DeleteOrg(q)
    BY DEF Next, Checkout, StartCheckout, CreateCustomer, CreateSession, CompleteCheckout,
           UpdateSubscription, FailPayment, CancelSubscription, Deliver, Find, Fail
  <1> QED  BY <1>1, <1>2, <1>3, <1>4, <1>5

\* The type invariant of every reachable state: rows, ledger, Stripe's records
\* and what each request of billing/views.py holds.
THEOREM BillingTypeCorrect == Spec => []TypeOK
  <1> QED  BY InitIInv, NextIInv, PTL DEF Spec, IInv

\* Whatever order events come in, _find_subscription and the handlers of
\* billing/webhooks.py never change another organization's row.
THEOREM OwnEventsTheorem == Spec => OwnEventsOnly
  <1>1. IInv /\ [Next]_vars =>
          [\A w \in Workers, o \in Orgs :
              At(w, "save") /\ job'[w] = Idle /\ row'[o] # row[o] /\ row'[o] # Gone
                 => EventOrg(job[w].event) = o]_vars
    BY SavesOwn
  <1> QED  BY <1>1, InitIInv, NextIInv, PTL DEF Spec, OwnEventsOnly
-----------------------------------------------------------------------------
(* The row and what Stripe says of the subscription.                       *)

\* The events of an organization, and those recorded.
Of(o)      == {e \in DOMAIN events : EventOrg(e) = o}
Handled(o) == Of(o) \cap ledger

IsLast(f, S) == f \in S /\ \A g \in S : g <= f

\* What Stripe's last event of an organization says: nothing, that its
\* subscription has ended, or which one is live, at what price and status.
Told(o) ==
    \/ Of(o) = {} /\ LiveOf(o) = {}
    \/ \E f \in Of(o) :
          /\ IsLast(f, Of(o))
          /\ \/ events[f].type = "deleted" /\ LiveOf(o) = {}
             \/ /\ events[f].type # "deleted"
                /\ LiveOf(o) = {events[f].subscription}
                /\ events[f].price = subscriptions[events[f].subscription].price
                /\ events[f].status = subscriptions[events[f].subscription].status

\* An event that starts no subscription goes on from the one before it.
Follows(f, e) ==
    /\ events[f].type # "deleted"
    /\ events[f].subscription = events[e].subscription
    /\ events[f].customer = events[e].customer
    /\ events[e].type = "payment_failed" => events[f].price = events[e].price

Chained(o) ==
    \A e \in Of(o) :
       \/ events[e].type = "checkout"
       \/ \E f \in Of(o) : /\ f < e
                           /\ \A g \in Of(o) : g <= f \/ e <= g
                           /\ Follows(f, e)

StoryInv ==
    /\ \A e \in DOMAIN events :
          /\ events[e].type = "checkout" => events[e].status = "active"
          /\ events[e].type = "payment_failed" => events[e].status = "past_due"
    /\ \A o \in Orgs : clean[o] => Told(o) /\ Chained(o)

\* An event is handled by one request at a time, and not again.
Handling(w) == At(w, "find") \/ At(w, "save")

FreshInv ==
    \A w \in Workers : Handling(w) =>
       /\ job[w].event \notin ledger
       /\ \A v \in Workers \ {w} : Handling(v) => job[v].event # job[w].event

\* The row says what an event says.
Agrees(r, e) ==
    IF e.type = "deleted" THEN r.plan = FreePlan /\ r.subscription = NoId
    ELSE /\ r.subscription = e.subscription
         /\ r.customer = e.customer
         /\ e.price \in PaidPlans => r.plan = e.price
         /\ e.status \in DOMAIN StatusMap => r.status = StatusMap[e.status]

\* No event of the organization has been overtaken.
Complete(o) == \A e \in Of(o), f \in Handled(o) : e < f => e \in ledger

\* Unless an event is overtaken, the row says what the last one handled does.
CopyInv ==
    \A o \in Present : clean[o] /\ Complete(o) =>
       /\ Handled(o) = {} => row[o].plan = FreePlan /\ row[o].subscription = NoId
       /\ \A f \in Handled(o) : IsLast(f, Handled(o)) => Agrees(row[o], events[f])

AInv == IInv /\ StoryInv /\ FreshInv /\ CopyInv
-----------------------------------------------------------------------------
\* An organization is not clean again.
LEMMA CleanFalls ==
    ASSUME IInv, Next, NEW o \in Orgs, clean'[o]
    PROVE  clean[o]
  <1> clean \in [Orgs -> BOOLEAN]  BY DEF IInv, TypeOK
  <1>1. ASSUME NEW w \in Workers, AttachCustomer(w) PROVE clean[o]
    BY <1>1 DEF AttachCustomer
  <1>2. ASSUME NEW c \in sessions, CompleteCheckout(c) PROVE clean[o]
    BY <1>2 DEF CompleteCheckout
  <1>3. ASSUME NEW w \in Workers, Find(w) PROVE clean[o]
    BY <1>3 DEF Find
  <1>4. ASSUME NEW w \in Workers, Save(w) PROVE clean[o]
    BY <1>4 DEF Save
  <1>5. \/ UNCHANGED clean
        \/ \E w \in Workers : AttachCustomer(w) \/ Find(w) \/ Save(w)
        \/ \E c \in sessions : CompleteCheckout(c)
    BY DEF Next, Checkout, StartCheckout, CreateCustomer, CreateSession,
           UpdateSubscription, FailPayment, CancelSubscription, Deliver, Fail, DeleteOrg
  <1> QED  BY <1>1, <1>2, <1>3, <1>4, <1>5

\* Event n is new, comes last, and is one of q's: what has become of s.
NewsOf(n, type, s, q) ==
    /\ n \in DOMAIN events' /\ n \notin DOMAIN events
    /\ \A e \in DOMAIN events : e < n
    /\ DOMAIN events' = DOMAIN events \cup {n}
    /\ events'[n].type = type
    /\ events'[n].subscription = s
    /\ events'[n].price = subscriptions'[s].price
    /\ events'[n].status = subscriptions'[s].status
    /\ Of(q)' = Of(q) \cup {n}
    /\ \A o \in Orgs : o # q => Of(o)' = Of(o)

\* What Stripe emits is news of one organization.
LEMMA EmittedLast ==
    ASSUME IInv, Next, NEW type \in EventTypes, NEW s \in DOMAIN subscriptions',
           Emit(type, s), UNCHANGED customers, NEW q \in Orgs, q = OwnerOf(s)'
    PROVE  \E n : NewsOf(n, type, s, q)
  <1> DEFINE x == [type |-> type, subscription |-> s,
                   customer |-> subscriptions'[s].customer,
                   price |-> subscriptions'[s].price, status |-> subscriptions'[s].status]
  <1>1. events' = Append(events, x)  BY DEF Emit
  <1>2. StripeTyped' /\ Grown  BY StripeStep DEF IInv
  <1>3. events \in Seq(Event) /\ events' \in Seq(Event)
    BY <1>2 DEF IInv, TypeOK, StripeTyped
  <1>4. Len(events) \in Nat /\ DOMAIN events = 1..Len(events)
    BY <1>3
  <1>0. PICK n \in Nat : n = Len(events) + 1  BY <1>4
  <1> HIDE DEF x
  <1>5. Len(events') = n /\ events'[n] = x
    BY <1>0, <1>1, <1>3, <1>4
  <1>6. DOMAIN events' = 1..n
    BY <1>3, <1>5
  <1>7. n \in DOMAIN events' /\ n \notin DOMAIN events /\ DOMAIN events' = DOMAIN events \cup {n}
    BY <1>0, <1>4, <1>6
  <1>8. \A e \in DOMAIN events : e < n  BY <1>0, <1>4
  <1>9. \A e \in DOMAIN events : EventOrg(e)' = EventOrg(e)
    BY <1>2 DEF EventOrg, Grown
  <1>10. EventOrg(n)' = OwnerOf(s)'
    BY <1>5 DEF EventOrg, OwnerOf, x
  <1>11. Of(q)' = Of(q) \cup {n}
    BY <1>7, <1>9, <1>10 DEF Of
  <1>12. \A o \in Orgs : o # q => Of(o)' = Of(o)
    BY <1>7, <1>9, <1>10 DEF Of
  <1>13. /\ events'[n].type = type
         /\ events'[n].subscription = s
         /\ events'[n].price = subscriptions'[s].price
         /\ events'[n].status = subscriptions'[s].status
    BY <1>5 DEF x
  <1> QED  BY <1>7, <1>8, <1>11, <1>12, <1>13 DEF NewsOf

\* A story that the step does not touch.
LEMMA SameStory ==
    ASSUME Grown, NEW o, Of(o)' = Of(o), LiveOf(o)' = LiveOf(o),
           \A s \in LiveOf(o) : subscriptions'[s] = subscriptions[s],
           Told(o), Chained(o)
    PROVE  Told(o)' /\ Chained(o)'
  <1>1. \A e \in Of(o) : events'[e] = events[e]  BY DEF Of, Grown
  <1>2. Told(o)'  BY <1>1 DEF Told, IsLast
  <1>3. Chained(o)'  BY <1>1 DEF Chained, Follows
  <1> QED  BY <1>2, <1>3

\* A story that the step continues.
LEMMA NextChapter ==
    ASSUME IInv, IInv', Grown, NEW o, Told(o), Chained(o),
           NEW n \in DOMAIN events', n \notin DOMAIN events,
           \A e \in DOMAIN events : e < n,
           Of(o)' = Of(o) \cup {n},
           IF events'[n].type = "deleted" THEN LiveOf(o)' = {}
           ELSE /\ LiveOf(o)' = {events'[n].subscription}
                /\ events'[n].price = subscriptions'[events'[n].subscription].price
                /\ events'[n].status = subscriptions'[events'[n].subscription].status,
           \/ events'[n].type = "checkout"
           \/ /\ events'[n].subscription \in LiveOf(o)
              /\ events'[n].type = "payment_failed" =>
                    events'[n].price = subscriptions[events'[n].subscription].price
    PROVE  Told(o)' /\ Chained(o)'
  <1>0. n \in Nat /\ Of(o) \subseteq Nat
    <2>1. events \in Seq(Event) /\ events' \in Seq(Event)  BY DEF IInv, TypeOK
    <2> QED  BY <2>1 DEF Of
  <1>1. \A e \in Of(o) : events'[e] = events[e] /\ e < n  BY DEF Of, Grown
  <1>2. IsLast(n, Of(o)')
    <2>1. \A g \in Of(o)' : g <= n  BY <1>0, <1>1
    <2> QED  BY <2>1 DEF IsLast
  <1>3. Told(o)'
    <2>1. n \in Of(o)' /\ IsLast(n, Of(o))'  BY <1>2 DEF IsLast
    <2> QED  BY <2>1 DEF Told
  <1>4. ASSUME NEW e \in Of(o)', events'[e].type # "checkout"
        PROVE  \E f \in Of(o)' : /\ f < e
                                 /\ \A g \in Of(o)' : g <= f \/ e <= g
                                 /\ Follows(f, e)'
    <2>1. CASE e \in Of(o)
      <3>1. PICK f \in Of(o) : /\ f < e
                               /\ \A g \in Of(o) : g <= f \/ e <= g
                               /\ Follows(f, e)
        BY <1>1, <1>4, <2>1 DEF Chained
      <3>2. Follows(f, e)'  BY <1>1, <2>1, <3>1 DEF Follows
      <3>3. e <= n  BY <1>0, <1>1, <2>1 DEF Of, IInv, TypeOK
      <3> QED  BY <3>1, <3>2, <3>3
    <2>2. CASE e = n
      <3>1. events'[n].subscription \in LiveOf(o)  BY <1>4, <2>2
      <3>2. PICK f \in Of(o) : /\ IsLast(f, Of(o))
                               /\ events[f].type # "deleted"
                               /\ LiveOf(o) = {events[f].subscription}
                               /\ events[f].price = subscriptions[events[f].subscription].price
        BY <3>1 DEF Told
      <3>3. events[f].subscription = events'[n].subscription  BY <3>1, <3>2
      <3>4. events'[f] = events[f] /\ f < n  BY <1>1
      <3>5. events'[f].customer = events'[n].customer
        <4>1. f \in DOMAIN events'  BY DEF Of, Grown
        <4> QED  BY <3>3, <3>4, <4>1 DEF IInv, StripeInv
      <3>6. Follows(f, n)'
        BY <1>4, <2>2, <3>2, <3>3, <3>4, <3>5 DEF Follows
      <3>7. \A g \in Of(o)' : g <= f \/ n <= g
        BY <1>0, <3>2 DEF IsLast
      <3> QED  BY <2>2, <3>4, <3>6, <3>7
    <2> QED  BY <2>1, <2>2
  <1>5. Chained(o)'  BY <1>4 DEF Chained
  <1> QED  BY <1>3, <1>5


\* Whatever happens to a subscription, the event that reports it goes on from
\* the last one of its organization.
LEMMA EmittedStory ==
    ASSUME IInv, IInv', StoryInv, Next,
           NEW type \in EventTypes, NEW s \in DOMAIN subscriptions', Emit(type, s),
           UNCHANGED customers, NEW q \in Orgs, q = OwnerOf(s)',
           DOMAIN subscriptions' = DOMAIN subscriptions \cup {s},
           \A t \in DOMAIN subscriptions : t # s => subscriptions'[t] = subscriptions[t],
           subscriptions'[s].status = "canceled" <=> type = "deleted",
           type = "payment_failed" => /\ subscriptions'[s].status = "past_due"
                                      /\ subscriptions'[s].price = subscriptions[s].price,
           type # "checkout" => /\ s \in DOMAIN subscriptions
                                /\ subscriptions[s].status # "canceled",
           type = "checkout" => /\ s \notin DOMAIN subscriptions
                                /\ subscriptions'[s].status = "active"
                                /\ clean'[q] => LiveOf(q) = {}
    PROVE  StoryInv'
  <1>0. Grown  BY StripeStep DEF IInv
  <1>news. PICK n : NewsOf(n, type, s, q)  BY EmittedLast
  <1>2. /\ n \in DOMAIN events' /\ n \notin DOMAIN events
        /\ \A e \in DOMAIN events : e < n
        /\ DOMAIN events' = DOMAIN events \cup {n}
        /\ events'[n].type = type
        /\ events'[n].subscription = s
        /\ events'[n].price = subscriptions'[s].price
        /\ events'[n].status = subscriptions'[s].status
        /\ Of(q)' = Of(q) \cup {n}
        /\ \A o \in Orgs : o # q => Of(o)' = Of(o)
    BY <1>news DEF NewsOf
  <1>3. \A t \in DOMAIN subscriptions : OwnerOf(t)' = OwnerOf(t)
    BY <1>0 DEF Grown, OwnerOf, IInv, StripeInv
  <1>4. \A e \in DOMAIN events' :
           /\ events'[e].type = "checkout" => events'[e].status = "active"
           /\ events'[e].type = "payment_failed" => events'[e].status = "past_due"
    BY <1>0, <1>2 DEF StoryInv, Grown
  <1>5. ASSUME NEW o \in Orgs, o # q, clean'[o]
        PROVE  Told(o)' /\ Chained(o)'
    <2>1. Told(o) /\ Chained(o)  BY <1>5, CleanFalls DEF StoryInv
    <2>2. LiveOf(o)' = LiveOf(o)  BY <1>3, <1>5 DEF LiveOf
    <2>3. \A t \in LiveOf(o) : subscriptions'[t] = subscriptions[t]
      BY <1>3, <1>5 DEF LiveOf
    <2>4. Of(o)' = Of(o)  BY <1>2, <1>5
    <2> QED  BY <1>0, <2>1, <2>2, <2>3, <2>4, SameStory
  <1>6. ASSUME clean'[q]
        PROVE  Told(q)' /\ Chained(q)'
    <2>1. Told(q) /\ Chained(q)  BY <1>6, CleanFalls DEF StoryInv
    <2>2. LiveOf(q) \subseteq {s}
      <3>1. CASE type = "checkout"
        BY <1>6, <3>1
      <3>2. CASE type # "checkout"
        <4>1. s \in LiveOf(q)  BY <1>3, <3>2 DEF LiveOf
        <4> QED  BY <2>1, <4>1 DEF Told
      <3> QED  BY <3>1, <3>2
    <2>3. LiveOf(q)' = IF type = "deleted" THEN {} ELSE {s}
      <3>1. ASSUME NEW t \in LiveOf(q)', t # s
            PROVE  FALSE
        <4>1. t \in DOMAIN subscriptions /\ subscriptions'[t] = subscriptions[t]
          BY <3>1 DEF LiveOf
        <4>2. t \in LiveOf(q)  BY <1>3, <3>1, <4>1 DEF LiveOf
        <4> QED  BY <2>2, <3>1, <4>2
      <3>2. s \in LiveOf(q)' <=> type # "deleted"
        BY DEF LiveOf
      <3> QED  BY <3>1, <3>2
    <2>4. \/ events'[n].type = "checkout"
          \/ /\ events'[n].subscription \in LiveOf(q)
             /\ events'[n].type = "payment_failed" =>
                   events'[n].price = subscriptions[events'[n].subscription].price
      BY <1>2, <1>3 DEF LiveOf
    <2> QED  BY <1>0, <1>2, <2>1, <2>3, <2>4, NextChapter
  <1> QED  BY <1>4, <1>5, <1>6 DEF StoryInv

LEMMA StoryStep ==
    ASSUME IInv, IInv', StoryInv, Next
    PROVE  StoryInv'
  <1>0. Grown  BY StripeStep DEF IInv
  <1>typed. /\ subscriptions \in Seq(StripeSubscription)
        /\ \A s \in DOMAIN subscriptions : subscriptions[s] \in StripeSubscription
    BY DEF IInv, TypeOK
  <1>owner. ASSUME UNCHANGED customers, NEW s \in DOMAIN subscriptions
        PROVE  OwnerOf(s)' = OwnerOf(s) /\ OwnerOf(s) \in Orgs
    BY <1>0, <1>owner DEF Grown, OwnerOf, IInv, StripeInv, TypeOK
  <1>1. ASSUME NEW c \in sessions, CompleteCheckout(c)
        PROVE  StoryInv'
    <2> DEFINE x == [customer |-> c.customer, price |-> c.plan, status |-> "active"]
    <2>1. subscriptions' = Append(subscriptions, x)
      BY <1>1 DEF CompleteCheckout
    <2>2. x \in StripeSubscription
      BY BillingAssumption DEF IInv, TypeOK, Session, StripeSubscription
    <2>3. x.customer = c.customer /\ x.status = "active"  OBVIOUS
    <2> HIDE DEF x
    <2>4. Len(subscriptions) \in Nat  BY <1>typed
    <2>5. PICK s \in Nat : s = Len(subscriptions) + 1  BY <2>4
    <2>6. /\ DOMAIN subscriptions' = DOMAIN subscriptions \cup {s}
          /\ s \notin DOMAIN subscriptions /\ subscriptions'[s] = x
          /\ \A t \in DOMAIN subscriptions : subscriptions'[t] = subscriptions[t]
      BY <1>typed, <2>1, <2>2, <2>5, Appended
    <2>7. Emit("checkout", s) /\ UNCHANGED customers
      BY <1>1, <2>5 DEF CompleteCheckout
    <2>8. OwnerOf(s)' = customers[c.customer]
      BY <2>3, <2>6, <2>7 DEF OwnerOf
    <2>9. clean'[customers[c.customer]] => LiveOf(customers[c.customer]) = {}
      <3>1. customers[c.customer] \in Orgs  BY DEF IInv, TypeOK, StripeInv
      <3>2. clean' = [clean EXCEPT ![customers[c.customer]] =
                        @ /\ LiveOf(customers[c.customer]) = {}]
        BY <1>1 DEF CompleteCheckout
      <3> QED  BY <3>1, <3>2 DEF IInv, TypeOK
    <2>10. customers[c.customer] \in Orgs  BY DEF IInv, TypeOK, StripeInv
    <2> QED  BY <2>3, <2>6, <2>7, <2>8, <2>9, <2>10, EmittedStory DEF EventTypes
  <1>2. ASSUME NEW s \in DOMAIN subscriptions, NEW p \in Prices, NEW st \in StripeStatuses,
               UpdateSubscription(s, p, st)
        PROVE  StoryInv'
    <2>1. /\ DOMAIN subscriptions' = DOMAIN subscriptions
          /\ \A t \in DOMAIN subscriptions : t # s => subscriptions'[t] = subscriptions[t]
          /\ subscriptions'[s].status = st
      <3>1. /\ DOMAIN subscriptions' = DOMAIN subscriptions
            /\ \A t \in DOMAIN subscriptions : t # s => subscriptions'[t] = subscriptions[t]
            /\ subscriptions'[s] = [subscriptions[s] EXCEPT !.price = p, !.status = st]
        BY <1>2, <1>typed DEF UpdateSubscription
      <3> QED  BY <1>typed, <3>1 DEF StripeSubscription
    <2>2. Emit("updated", s) /\ UNCHANGED customers /\ subscriptions[s].status # "canceled"
      BY <1>2 DEF UpdateSubscription
    <2>3. st # "canceled"  BY BillingAssumption
    <2>4. OwnerOf(s)' = OwnerOf(s) /\ OwnerOf(s) \in Orgs  BY <2>2, <1>owner
    <2> QED  BY <2>1, <2>2, <2>3, <2>4, EmittedStory DEF EventTypes
  <1>3. ASSUME NEW s \in DOMAIN subscriptions, FailPayment(s)
        PROVE  StoryInv'
    <2>1. /\ DOMAIN subscriptions' = DOMAIN subscriptions
          /\ \A t \in DOMAIN subscriptions : t # s => subscriptions'[t] = subscriptions[t]
          /\ subscriptions'[s].status = "past_due"
          /\ subscriptions'[s].price = subscriptions[s].price
      <3>1. /\ DOMAIN subscriptions' = DOMAIN subscriptions
            /\ \A t \in DOMAIN subscriptions : t # s => subscriptions'[t] = subscriptions[t]
            /\ subscriptions'[s] = [subscriptions[s] EXCEPT !.status = "past_due"]
        BY <1>3, <1>typed DEF FailPayment
      <3> QED  BY <1>typed, <3>1 DEF StripeSubscription
    <2>2. /\ Emit("payment_failed", s) /\ UNCHANGED customers
          /\ subscriptions[s].status # "canceled"
      BY <1>3 DEF FailPayment
    <2>3. OwnerOf(s)' = OwnerOf(s) /\ OwnerOf(s) \in Orgs  BY <2>2, <1>owner
    <2> QED  BY <2>1, <2>2, <2>3, EmittedStory DEF EventTypes
  <1>4. ASSUME NEW s \in DOMAIN subscriptions, CancelSubscription(s)
        PROVE  StoryInv'
    <2>1. /\ DOMAIN subscriptions' = DOMAIN subscriptions
          /\ \A t \in DOMAIN subscriptions : t # s => subscriptions'[t] = subscriptions[t]
          /\ subscriptions'[s].status = "canceled"
      <3>1. /\ DOMAIN subscriptions' = DOMAIN subscriptions
            /\ \A t \in DOMAIN subscriptions : t # s => subscriptions'[t] = subscriptions[t]
            /\ subscriptions'[s] = [subscriptions[s] EXCEPT !.status = "canceled"]
        BY <1>4, <1>typed DEF CancelSubscription
      <3> QED  BY <1>typed, <3>1 DEF StripeSubscription
    <2>2. Emit("deleted", s) /\ UNCHANGED customers /\ subscriptions[s].status # "canceled"
      BY <1>4 DEF CancelSubscription
    <2>3. OwnerOf(s)' = OwnerOf(s) /\ OwnerOf(s) \in Orgs  BY <2>2, <1>owner
    <2> QED  BY <2>1, <2>2, <2>3, EmittedStory DEF EventTypes
  <1>5. ASSUME UNCHANGED <<subscriptions, events>>
        PROVE  StoryInv'
    <2>1. \A t \in DOMAIN subscriptions : OwnerOf(t)' = OwnerOf(t)
      BY <1>0, <1>5 DEF OwnerOf, Grown, IInv, StripeInv
    <2>2. \A e \in DOMAIN events : EventOrg(e)' = EventOrg(e)
      BY <1>0, <1>5, EventData DEF EventOrg, Grown, IInv
    <2>3. ASSUME NEW o \in Orgs, clean'[o]
          PROVE  Told(o)' /\ Chained(o)'
      <3>1. Told(o) /\ Chained(o)  BY <2>3, CleanFalls DEF StoryInv
      <3>2. Of(o)' = Of(o)  BY <1>5, <2>2 DEF Of
      <3>3. LiveOf(o)' = LiveOf(o)  BY <1>5, <2>1 DEF LiveOf
      <3> QED  BY <1>0, <1>5, <3>1, <3>2, <3>3, SameStory
    <2> QED  BY <1>5, <2>3 DEF StoryInv
  <1>6. \/ UNCHANGED <<subscriptions, events>>
        \/ \E c \in sessions : CompleteCheckout(c)
        \/ \E s \in DOMAIN subscriptions, p \in Prices, st \in StripeStatuses :
              UpdateSubscription(s, p, st)
        \/ \E s \in DOMAIN subscriptions : FailPayment(s) \/ CancelSubscription(s)
    BY DEF Next, Checkout, StartCheckout, CreateCustomer, AttachCustomer, CreateSession,
           Deliver, Find, Save, Fail, DeleteOrg, stripe
  <1> QED  BY <1>1, <1>2, <1>3, <1>4, <1>5, <1>6


\* The ledger refuses an event that is recorded or in progress.
LEMMA FreshStep ==
    ASSUME IInv, FreshInv, Next
    PROVE  FreshInv'
  <1> USE DEF FreshInv, Handling, At
  <1>1. job \in [Workers -> Job \cup {Idle}]  BY DEF IInv, TypeOK
  <1>2. ASSUME NEW w \in Workers, \A v \in Workers \ {w} : job'[v] = job[v],
               job'[w] = Idle \/ job'[w].pc \notin {"find", "save"},
               \/ UNCHANGED ledger
               \/ Handling(w) /\ ledger' = ledger \cup {job[w].event}
        PROVE  FreshInv'
    BY <1>1, <1>2
  <1>3. ASSUME NEW w \in Workers, NEW j, Become(w, j), UNCHANGED ledger,
               j.event \notin ledger,
               \A v \in Workers \ {w} : Handling(v) => job[v].event # j.event
        PROVE  FreshInv'
    BY <1>1, <1>3 DEF Become
  <1>4. ASSUME NEW w \in Workers, NEW e \in DOMAIN events, Deliver(w, e)
        PROVE  FreshInv'
    <2>1. PICK j : Become(w, j) /\ j.event = e  BY <1>4 DEF Deliver
    <2> QED  BY <1>3, <1>4, <2>1 DEF Deliver
  <1>5. ASSUME NEW w \in Workers, Find(w)
        PROVE  FreshInv'
    <2>1. CASE Become(w, Idle) /\ ledger' = ledger \cup {job[w].event}
      BY <1>1, <1>2, <1>5, <2>1 DEF Find, Become
    <2>2. CASE UNCHANGED ledger /\ \E o \in FindSubscription(events[job[w].event]) :
                  Become(w, [pc |-> "save", event |-> job[w].event, org |-> o, row |-> row[o]])
      <3>1. PICK j : Become(w, j) /\ j.event = job[w].event  BY <2>2
      <3> QED  BY <1>3, <1>5, <2>2, <3>1 DEF Find
    <2> QED  BY <1>5, <2>1, <2>2 DEF Find
  <1>6. ASSUME NEW w \in Workers, Save(w)
        PROVE  FreshInv'
    BY <1>1, <1>2, <1>6 DEF Save, Become
  <1>7. ASSUME NEW w \in Workers, \/ Checkout(w) \/ Fail(w)
                                  \/ \E o \in Orgs, p \in PaidPlans : StartCheckout(w, o, p)
        PROVE  FreshInv'
    <2>1. /\ \A v \in Workers \ {w} : job'[v] = job[v]
          /\ job'[w] = Idle \/ job'[w].pc \notin {"find", "save"}
      BY <1>1, <1>7 DEF Checkout, CreateCustomer, AttachCustomer, CreateSession, Fail,
                       StartCheckout, Become
    <2>2. UNCHANGED ledger
      BY <1>7 DEF Checkout, CreateCustomer, AttachCustomer, CreateSession, Fail, StartCheckout
    <2> QED  BY <1>2, <2>1, <2>2
  <1>8. CASE UNCHANGED <<job, ledger>>
    BY <1>8
  <1>9. \/ UNCHANGED <<job, ledger>>
        \/ \E w \in Workers, e \in DOMAIN events : Deliver(w, e)
        \/ \E w \in Workers : \/ Find(w) \/ Save(w) \/ Checkout(w) \/ Fail(w)
                              \/ \E o \in Orgs, p \in PaidPlans : StartCheckout(w, o, p)
    BY DEF Next, CompleteCheckout, UpdateSubscription, FailPayment, CancelSubscription,
           DeleteOrg
  <1> QED  BY <1>4, <1>5, <1>6, <1>7, <1>8, <1>9

\* A handler makes the row say what its event says, if it said what the event
\* before did.
LEMMA MappedAgrees ==
    ASSUME IInv, StoryInv, NEW e \in DOMAIN events, NEW r \in Row,
           \/ events[e].type = "checkout"
           \/ \E f \in DOMAIN events : Follows(f, e) /\ Agrees(r, events[f])
    PROVE  Agrees(Mapped(events[e], r), events[e])
  <1>1. /\ events[e].type \in EventTypes
        /\ events[e].type = "checkout" => events[e].status = "active"
        /\ events[e].type = "payment_failed" => events[e].status = "past_due"
    BY EventData DEF StoryInv, IInv, Event
  <1>2. CASE events[e].type = "checkout"
    <2>1. Mapped(events[e], r) =
            [r EXCEPT !.customer = events[e].customer, !.subscription = events[e].subscription,
                      !.plan = events[e].price, !.status = "active"]
      BY <1>2 DEF Mapped
    <2>2. StatusMap["active"] = "active"  BY DEF StatusMap
    <2> QED  BY <1>1, <1>2, <2>1, <2>2 DEF Agrees, Row
  <1>3. CASE events[e].type = "updated"
    <2>1. Mapped(events[e], r) =
            [r EXCEPT !.subscription = events[e].subscription,
                      !.status = StatusFor(events[e].status, @),
                      !.plan = PlanFor(events[e].price, @)]
      BY <1>3 DEF Mapped
    <2>2. r.customer = events[e].customer
      BY <1>3 DEF Follows, Agrees
    <2> QED  BY <1>3, <2>1, <2>2 DEF Agrees, Row, StatusFor, PlanFor
  <1>4. CASE events[e].type = "deleted"
    <2>1. Mapped(events[e], r) =
            [r EXCEPT !.status = "canceled", !.plan = FreePlan, !.subscription = NoId]
      BY <1>4 DEF Mapped
    <2> QED  BY <1>4, <2>1 DEF Agrees, Row
  <1>5. CASE events[e].type = "payment_failed"
    <2>1. Mapped(events[e], r) = [r EXCEPT !.status = "past_due"]
      BY <1>5 DEF Mapped
    <2>2. /\ r.customer = events[e].customer /\ r.subscription = events[e].subscription
          /\ events[e].price \in PaidPlans => r.plan = events[e].price
      BY <1>5 DEF Follows, Agrees
    <2>3. StatusMap["past_due"] = "past_due"  BY DEF StatusMap
    <2> QED  BY <1>1, <1>5, <2>1, <2>2, <2>3 DEF Agrees, Row
  <1> QED  BY <1>1, <1>2, <1>3, <1>4, <1>5 DEF EventTypes

\* When it is an event's turn, the row says what the event before it did.
LEMMA Turn ==
    ASSUME IInv, StoryInv, CopyInv, NEW o \in Present, clean[o],
           NEW e \in Of(o), \A f \in Handled(o) : f < e,
           \A d \in Of(o) : d < e => d \in ledger
    PROVE  \/ events[e].type = "checkout"
           \/ \E f \in Of(o) : Follows(f, e) /\ Agrees(row[o], events[f])
  <1>0. Of(o) \subseteq Nat
    <2>1. events \in Seq(Event)  BY DEF IInv, TypeOK
    <2> QED  BY <2>1 DEF Of
  <1> SUFFICES ASSUME events[e].type # "checkout"
               PROVE  \E f \in Of(o) : Follows(f, e) /\ Agrees(row[o], events[f])
    OBVIOUS
  <1>1. Chained(o)  BY DEF StoryInv, Present
  <1>2. PICK f \in Of(o) : f < e /\ (\A g \in Of(o) : g <= f \/ e <= g) /\ Follows(f, e)
    BY <1>1 DEF Chained
  <1>3. f \in Handled(o)  BY <1>2 DEF Handled
  <1>4. IsLast(f, Handled(o))
    <2>1. ASSUME NEW g \in Handled(o) PROVE g <= f
      <3>1. g \in Of(o) /\ g < e  BY DEF Handled
      <3> QED  BY <1>0, <1>2, <3>1
    <2> QED  BY <1>3, <2>1 DEF IsLast
  <1>5. Complete(o)
    <2>1. ASSUME NEW d \in Of(o), NEW h \in Handled(o), d < h PROVE d \in ledger
      <3>1. h \in Of(o) /\ h < e  BY DEF Handled
      <3>2. d < e  BY <1>0, <2>1, <3>1
      <3> QED  BY <3>2
    <2> QED  BY <2>1 DEF Complete
  <1>6. Agrees(row[o], events[f])  BY <1>3, <1>4, <1>5 DEF CopyInv
  <1> QED  BY <1>2, <1>6


\* A step that leaves the row and what is recorded of its events.
LEMMA CopyKept ==
    ASSUME IInv, CopyInv, Next, NEW o \in Present,
           row'[o] = row[o], Handled(o)' = Handled(o), clean'[o], Complete(o)'
    PROVE  /\ Handled(o)' = {} => row'[o].plan = FreePlan /\ row'[o].subscription = NoId
           /\ \A f \in Handled(o)' : IsLast(f, Handled(o)') => Agrees(row'[o], events'[f])
  <1>1. Grown  BY StripeStep DEF IInv
  <1>2. clean[o]  BY CleanFalls DEF Present
  <1>3. \A e \in Of(o) : e \in Of(o)'
    BY <1>1, EventData DEF Of, EventOrg, Grown, IInv
  <1>4. Complete(o)
    <2>1. ASSUME NEW e \in Of(o), NEW f \in Handled(o), e < f PROVE e \in ledger
      <3>1. e \in Of(o)' /\ f \in Handled(o)'  BY <1>3
      <3>2. e \in ledger'  BY <2>1, <3>1 DEF Complete
      <3>3. e \in Handled(o)'  BY <3>1, <3>2 DEF Handled
      <3> QED  BY <3>3 DEF Handled
    <2> QED  BY <2>1 DEF Complete
  <1>5. \A f \in Handled(o) : events'[f] = events[f]
    BY <1>1 DEF Handled, Of, Grown
  <1> QED  BY <1>2, <1>4, <1>5 DEF CopyInv

\* What is recorded of an organization's events when event e is.
LEMMA Recorded ==
    ASSUME IInv, NEW e \in DOMAIN events, ledger' = ledger \cup {e}, UNCHANGED stripe,
           NEW o
    PROVE  /\ Of(o)' = Of(o)
           /\ o # EventOrg(e) => Handled(o)' = Handled(o)
           /\ o = EventOrg(e) => Handled(o)' = Handled(o) \cup {e}
  <1>1. Of(o)' = Of(o)  BY DEF Of, EventOrg, stripe
  <1> QED  BY <1>1 DEF Handled, Of

\* An event that is recorded in order, and leaves none behind, has its turn.
LEMMA InTurn ==
    ASSUME IInv, StoryInv, CopyInv, NEW e \in DOMAIN events, e \notin ledger,
           ledger' = ledger \cup {e}, UNCHANGED stripe,
           NEW o \in Present, o = EventOrg(e), clean[o], InOrder(e), Complete(o)'
    PROVE  /\ \A f \in Handled(o) : f < e
           /\ \A f \in Handled(o)' : IsLast(f, Handled(o)') => f = e
           /\ \/ events[e].type = "checkout"
              \/ \E f \in Of(o) : Follows(f, e) /\ Agrees(row[o], events[f])
  <1>0. Of(o) \subseteq Nat /\ e \in Nat
    <2>1. events \in Seq(Event)  BY DEF IInv, TypeOK
    <2> QED  BY <2>1 DEF Of
  <1>1. Of(o)' = Of(o) /\ Handled(o)' = Handled(o) \cup {e}  BY Recorded
  <1>2. \A f \in Handled(o) : f < e  BY DEF InOrder, Handled, Of
  <1>3. \A d \in Of(o) : d < e => d \in ledger
    <2>1. ASSUME NEW d \in Of(o), d < e PROVE d \in ledger
      <3>1. d \in ledger'  BY <1>1, <2>1 DEF Complete
      <3>2. d # e  BY <1>0, <2>1
      <3> QED  BY <3>1, <3>2
    <2> QED  BY <2>1
  <1>4. e \in Of(o)  BY DEF Of
  <1>5. ASSUME NEW f \in Handled(o)', IsLast(f, Handled(o)') PROVE f = e
    <2>1. e <= f  BY <1>1, <1>5 DEF IsLast
    <2>2. f \in Handled(o) => f < e /\ f \in Nat  BY <1>0, <1>2 DEF Handled
    <2> QED  BY <1>0, <1>1, <2>1, <2>2
  <1> QED  BY <1>2, <1>3, <1>4, <1>5, Turn

LEMMA CopyStep ==
    ASSUME IInv, StoryInv, FreshInv, CopyInv, Next
    PROVE  CopyInv'
  <1> DEFINE Copy(o) ==
        /\ Handled(o) = {} => row[o].plan = FreePlan /\ row[o].subscription = NoId
        /\ \A f \in Handled(o) : IsLast(f, Handled(o)) => Agrees(row[o], events[f])
  <1>0. Grown  BY StripeStep DEF IInv
  <1>c. \A o \in Orgs : clean'[o] => clean[o]  BY CleanFalls
  <1>s. ASSUME \A o \in Present' : clean'[o] /\ Complete(o)' => o \in Present /\ Copy(o)'
        PROVE  CopyInv'
    BY <1>s DEF CopyInv
  <1>k. ASSUME NEW o \in Present, row'[o] = row[o], Handled(o)' = Handled(o),
               clean'[o], Complete(o)'
        PROVE  Copy(o)'
    BY <1>k, CopyKept
  <1> HIDE DEF Copy
  <1>1. ASSUME UNCHANGED ledger
        PROVE  \A o \in Orgs : Handled(o)' = Handled(o)
    <2>1. \A e \in ledger : e \in DOMAIN events /\ e \in DOMAIN events' /\ EventOrg(e)' = EventOrg(e)
      <3>1. events \in Seq(Event) /\ ledger \subseteq 1..Len(events)  BY DEF IInv, TypeOK
      <3>2. ledger \subseteq DOMAIN events  BY <3>1
      <3> QED  BY <1>0, <3>2, EventData DEF Grown, EventOrg, IInv
    <2> QED  BY <1>1, <2>1 DEF Handled, Of
  <1>2. CASE UNCHANGED <<row, ledger>>
    BY <1>1, <1>2, <1>s, <1>k DEF Present
  <1>3. ASSUME NEW q \in Orgs, DeleteOrg(q)
        PROVE  CopyInv'
    <2>1. \A o \in Present' : o \in Present /\ row'[o] = row[o]
      BY <1>3 DEF DeleteOrg, Present, IInv, TypeOK
    <2>2. UNCHANGED ledger  BY <1>3 DEF DeleteOrg
    <2> QED  BY <1>1, <1>s, <1>k, <2>1, <2>2 DEF Present
  <1>4. ASSUME NEW w \in Workers, AttachCustomer(w), ~UNCHANGED row
        PROVE  CopyInv'
    <2>1. PICK q \in Present : /\ row' = [row EXCEPT ![q].customer = job[w].customer]
                               /\ clean' = [clean EXCEPT ![q] = @ /\ row[q].customer = NoId]
      <3>1. job[w].org \in Present  BY <1>4 DEF AttachCustomer
      <3> QED  BY <1>4, <3>1 DEF AttachCustomer
    <2>2. UNCHANGED <<ledger, stripe>>  BY <1>4 DEF AttachCustomer
    <2>3. ASSUME NEW o \in Present', o # q, clean'[o], Complete(o)'
          PROVE  o \in Present /\ Copy(o)'
      <3>1. row'[o] = row[o] /\ o \in Present
        BY <2>1, <2>3 DEF Present, IInv, TypeOK
      <3> QED  BY <1>1, <1>k, <2>2, <2>3, <3>1 DEF Present
    <2>4. ASSUME clean'[q], Complete(q)'
          PROVE  Copy(q)'
      <3>1. clean[q] /\ row[q].customer = NoId
        BY <2>1, <2>4 DEF IInv, TypeOK, Present
      <3>2. row[q] \in Row  BY DEF Present, IInv, TypeOK
      <3>3. /\ row'[q].plan = row[q].plan
            /\ row'[q].subscription = row[q].subscription
        BY <2>1, <3>2 DEF Row, IInv, TypeOK, Present
      <3>4. Of(q)' = Of(q) /\ Handled(q)' = Handled(q)
        BY <2>2 DEF Of, Handled, EventOrg, stripe
      <3>5. Complete(q)  BY <2>2, <2>4, <3>4 DEF Complete
      <3>6. Copy(q)  BY <3>1, <3>5 DEF CopyInv, Copy
      <3>7. ASSUME NEW f \in Handled(q), IsLast(f, Handled(q))
            PROVE  Agrees(row'[q], events[f])
        <4>1. Agrees(row[q], events[f])  BY <3>6, <3>7 DEF Copy
        <4>2. events[f].customer # NoId  BY EventData DEF Handled, Of, IInv
        <4>3. events[f].type = "deleted"  BY <3>1, <4>1, <4>2 DEF Agrees
        <4> QED  BY <3>3, <4>1, <4>3 DEF Agrees
      <3>8. events' = events  BY <2>2 DEF stripe
      <3> QED  BY <3>3, <3>4, <3>6, <3>7, <3>8 DEF Copy
    <2> QED  BY <1>s, <2>3, <2>4
  <1>5. ASSUME NEW w \in Workers, Find(w), ~UNCHANGED ledger
        PROVE  CopyInv'
    <2> DEFINE e == job[w].event
    <2>1. /\ e \in DOMAIN events /\ e \notin ledger
          /\ FindSubscription(events[e]) = {}
          /\ ledger' = ledger \cup {e} /\ UNCHANGED <<row, stripe>>
          /\ clean' = [clean EXCEPT ![EventOrg(e)] = @ /\ InOrder(e)]
      BY <1>5 DEF Find, At, IInv, JobsInv, Fits, FreshInv, Handling
    <2> HIDE DEF e
    <2>2. PICK n \in DOMAIN events : n = e  BY <2>1
    <2>3. ASSUME NEW o \in Present', clean'[o], Complete(o)', o # EventOrg(n)
          PROVE  o \in Present /\ Copy(o)'
      <3>1. o \in Present  BY <2>1 DEF Present
      <3>2. Handled(o)' = Handled(o)  BY <2>1, <2>2, <2>3, Recorded
      <3> QED  BY <1>k, <2>1, <2>3, <3>1, <3>2
    <2>4. ASSUME NEW o \in Present', clean'[o], Complete(o)', o = EventOrg(n)
          PROVE  FALSE
      <3>1. o \in Present /\ o \in Orgs  BY <2>1 DEF Present
      <3>2. clean[o] /\ InOrder(n)
        BY <2>1, <2>2, <2>4, <3>1 DEF IInv, TypeOK
      <3>3. \/ events[n].type = "checkout"
            \/ \E f \in Of(o) : Follows(f, n) /\ Agrees(row[o], events[f])
        BY <2>1, <2>2, <2>4, <3>1, <3>2, InTurn
      <3>4. CASE events[n].type # "payment_failed"
        BY <2>1, <2>2, <2>4, <3>1, <3>4 DEF FindSubscription, MetadataOrg, EventOrg
      <3>5. CASE events[n].type = "payment_failed"
        <4>1. row[o].subscription = events[n].subscription
          BY <3>3, <3>5 DEF Follows, Agrees
        <4>2. events[n].subscription # NoId  BY EventData DEF IInv
        <4> QED
          BY <2>1, <2>2, <3>1, <3>5, <4>1, <4>2 DEF FindSubscription, SubscriptionId, MetadataOrg
      <3> QED  BY <3>4, <3>5
    <2> QED  BY <1>s, <2>3, <2>4
  <1>6. ASSUME NEW w \in Workers, Save(w), ~UNCHANGED row \/ ~UNCHANGED ledger
        PROVE  CopyInv'
    <2> DEFINE e == job[w].event
               read == IF events[e].type = "payment_failed" THEN row[job[w].org] ELSE job[w].row
    <2>1. /\ e \in DOMAIN events /\ e \notin ledger
          /\ EventOrg(e) = job[w].org
      BY <1>6 DEF Save, At, IInv, JobsInv, Fits, FreshInv, Handling
    <2>2. /\ job[w].org \in Present
          /\ row' = [row EXCEPT ![job[w].org] = Mapped(events[e], read)]
          /\ ledger' = ledger \cup {e} /\ UNCHANGED stripe
          /\ clean' = [clean EXCEPT ![job[w].org] = /\ @ /\ InOrder(e)
                                                    /\ row[job[w].org] = job[w].row]
      BY <1>6 DEF Save
    <2> HIDE DEF e, read
    <2>3. PICK n \in DOMAIN events : n = e  BY <2>1
    <2>4. PICK q \in Present : q = job[w].org /\ q = EventOrg(n)  BY <2>1, <2>2, <2>3
    <2>5. ASSUME NEW o \in Present', o # q, clean'[o], Complete(o)'
          PROVE  o \in Present /\ Copy(o)'
      <3>1. row'[o] = row[o] /\ o \in Present
        BY <2>2, <2>4, <2>5 DEF Present, IInv, TypeOK
      <3>2. Handled(o)' = Handled(o)  BY <2>2, <2>3, <2>4, <2>5, Recorded
      <3> QED  BY <1>k, <2>5, <3>1, <3>2
    <2>6. ASSUME clean'[q], Complete(q)'
          PROVE  Copy(q)'
      <3>1. clean[q] /\ InOrder(n) /\ row[q] = job[w].row
        BY <2>2, <2>3, <2>4, <2>6 DEF IInv, TypeOK, Present
      <3>2. row[q] \in Row  BY DEF Present, IInv, TypeOK
      <3>3. row'[q] = Mapped(events[n], row[q])
        BY <2>2, <2>3, <2>4, <3>1 DEF read, e, IInv, TypeOK, Present
      <3>4. /\ \A f \in Handled(q)' : IsLast(f, Handled(q)') => f = n
            /\ \/ events[n].type = "checkout"
               \/ \E f \in Of(q) : Follows(f, n) /\ Agrees(row[q], events[f])
        BY <2>1, <2>2, <2>3, <2>4, <2>6, <3>1, InTurn
      <3>5. Agrees(row'[q], events[n])
        BY <3>2, <3>3, <3>4, MappedAgrees DEF Of
      <3>6. n \in Handled(q)' /\ events' = events
        BY <2>2, <2>3, <2>4, Recorded DEF stripe
      <3> QED  BY <3>4, <3>5, <3>6 DEF Copy
    <2> QED  BY <1>s, <2>4, <2>5, <2>6
  <1>7. \/ UNCHANGED <<row, ledger>>
        \/ \E q \in Orgs : DeleteOrg(q)
        \/ \E w \in Workers : \/ AttachCustomer(w) /\ ~UNCHANGED row
                              \/ Find(w) /\ ~UNCHANGED ledger
                              \/ Save(w) /\ (~UNCHANGED row \/ ~UNCHANGED ledger)
    BY DEF Next, Checkout, StartCheckout, CreateCustomer, AttachCustomer, CreateSession,
           CompleteCheckout, UpdateSubscription, FailPayment, CancelSubscription, Deliver,
           Find, Fail
  <1> QED  BY <1>2, <1>3, <1>4, <1>5, <1>6, <1>7

LEMMA InitAInv == Init => AInv
  <1> SUFFICES ASSUME Init PROVE AInv  OBVIOUS
  <1>1. IInv  BY InitIInv
  <1>2. DOMAIN events = {} /\ DOMAIN subscriptions = {} /\ ledger = {}  BY DEF Init
  <1>3. StoryInv  BY <1>2 DEF StoryInv, Told, Chained, Of, LiveOf
  <1>4. FreshInv  BY DEF Init, FreshInv, Handling, At
  <1>5. CopyInv  BY <1>2 DEF Init, CopyInv, Handled, Present
  <1> QED  BY <1>1, <1>3, <1>4, <1>5 DEF AInv

LEMMA NextAInv == AInv /\ [Next]_vars => AInv'
  <1> SUFFICES ASSUME AInv, [Next]_vars PROVE AInv'  OBVIOUS
  <1>1. IInv'  BY NextIInv DEF AInv
  <1>2. CASE Next
    BY <1>1, <1>2, StoryStep, FreshStep, CopyStep DEF AInv
  <1>3. CASE UNCHANGED vars
    <2>1. \A o : Of(o)' = Of(o) /\ LiveOf(o)' = LiveOf(o) /\ Handled(o)' = Handled(o)
      BY <1>3 DEF vars, Of, EventOrg, LiveOf, OwnerOf, Handled
    <2>2. StoryInv'
      BY <1>3, <2>1 DEF AInv, vars, StoryInv, Told, Chained, Follows
    <2>3. FreshInv'  BY <1>3 DEF AInv, vars, FreshInv, Handling, At
    <2>4. CopyInv'
      BY <1>3, <2>1 DEF AInv, vars, CopyInv, Present, Complete
    <2> QED  BY <1>1, <2>2, <2>3, <2>4 DEF AInv
  <1> QED  BY <1>2, <1>3

\* An organization all of whose events are recorded has the row the last one
\* asks for.
LEMMA SettledAgrees ==
    ASSUME AInv
    PROVE  AgreesWithStripe
  <1> USE DEF AInv
  <1> SUFFICES ASSUME NEW o \in Present, clean[o], Settled(o)
               PROVE  /\ LiveOf(o) = {} => row[o].plan = FreePlan /\ row[o].subscription = NoId
                      /\ \A s \in LiveOf(o) :
                            LET t == subscriptions[s] IN
                            /\ row[o].subscription = s
                            /\ row[o].customer = t.customer
                            /\ t.price \in PaidPlans => row[o].plan = t.price
                            /\ t.status \in DOMAIN StatusMap => row[o].status = StatusMap[t.status]
    BY DEF AgreesWithStripe
  <1>1. Handled(o) = Of(o) /\ Complete(o)  BY DEF Settled, Handled, Of, Complete
  <1>2. Told(o)  BY DEF StoryInv, Present
  <1>3. CASE Of(o) = {} /\ LiveOf(o) = {}
    BY <1>1, <1>3 DEF CopyInv
  <1>4. ASSUME NEW f \in Of(o), IsLast(f, Of(o)),
               \/ events[f].type = "deleted" /\ LiveOf(o) = {}
               \/ /\ events[f].type # "deleted"
                  /\ LiveOf(o) = {events[f].subscription}
                  /\ events[f].price = subscriptions[events[f].subscription].price
                  /\ events[f].status = subscriptions[events[f].subscription].status
        PROVE  /\ LiveOf(o) = {} => row[o].plan = FreePlan /\ row[o].subscription = NoId
               /\ \A s \in LiveOf(o) :
                     LET t == subscriptions[s] IN
                     /\ row[o].subscription = s
                     /\ row[o].customer = t.customer
                     /\ t.price \in PaidPlans => row[o].plan = t.price
                     /\ t.status \in DOMAIN StatusMap => row[o].status = StatusMap[t.status]
    <2>1. Agrees(row[o], events[f])  BY <1>1, <1>4 DEF CopyInv
    <2>2. subscriptions[events[f].subscription].customer = events[f].customer
      BY DEF Of, IInv, StripeInv
    <2> QED  BY <1>4, <2>1, <2>2 DEF Agrees
  <1> QED  BY <1>2, <1>3, <1>4 DEF Told

\* "The webhook is the source of truth" (billing/webhooks.py): whatever else
\* happens, an organization whose events were handled in order, one at a time,
\* has the row that Stripe's last word asks for.
THEOREM AgreesTheorem == Spec => []AgreesWithStripe
  <1> QED  BY InitAInv, NextAInv, SettledAgrees, PTL DEF Spec

\* A row's subscription changes by a save, and that save records its event.
LEMMA SavesRecord ==
    ASSUME IInv, FreshInv, Next, NEW o \in Orgs, row'[o] \notin {row[o], Gone},
           row'[o] # [row[o] EXCEPT !.customer = row'[o].customer]
    PROVE  \E e \in DOMAIN events \ ledger :
              EventOrg(e) = o /\ ledger' = ledger \cup {e}
  <1>1. row \in [Orgs -> Row \cup {Gone}]  BY DEF IInv, TypeOK
  <1>2. ASSUME NEW w \in Workers, AttachCustomer(w)
        PROVE  FALSE
    BY <1>1, <1>2 DEF AttachCustomer, Present, Row
  <1>3. ASSUME NEW q \in Orgs, DeleteOrg(q)
        PROVE  FALSE
    BY <1>1, <1>3 DEF DeleteOrg
  <1>4. ASSUME NEW w \in Workers, Save(w)
        PROVE  \E e \in DOMAIN events \ ledger :
                  EventOrg(e) = o /\ ledger' = ledger \cup {e}
    <2>1. At(w, "save") /\ o = job[w].org  BY <1>1, <1>4 DEF Save
    <2>2. ledger' = ledger \cup {job[w].event}  BY <1>4 DEF Save
    <2>3. job[w].event \in DOMAIN events /\ EventOrg(job[w].event) = o
      BY <2>1 DEF IInv, JobsInv, Fits, At
    <2>4. job[w].event \notin ledger  BY <2>1 DEF FreshInv, Handling
    <2> QED  BY <2>2, <2>3, <2>4
  <1>5. \/ \E w \in Workers : AttachCustomer(w) \/ Save(w)
        \/ \E q \in Orgs : DeleteOrg(q)
    BY DEF Next, Checkout, StartCheckout, CreateCustomer, CreateSession, CompleteCheckout,
           UpdateSubscription, FailPayment, CancelSubscription, Deliver, Find, Fail
  <1> QED  BY <1>2, <1>3, <1>4, <1>5

LEMMA LedgerGrows == Next => ledger \subseteq ledger'
  BY DEF Next, Checkout, StartCheckout, CreateCustomer, AttachCustomer, CreateSession,
         CompleteCheckout, UpdateSubscription, FailPayment, CancelSubscription, Deliver,
         Find, Save, Fail, DeleteOrg

\* "A duplicate delivery is a no-op" (billing/views.py): whatever is delivered
\* twice, fails midway or races, an event takes effect on a row at most once, in
\* the step that records it.
THEOREM EachEventTheorem == Spec => EachEventOnce
  <1>1. Init => FreshInv  BY DEF Init, FreshInv, Handling, At
  <1>2. IInv /\ FreshInv /\ [Next]_vars => FreshInv'
    <2>1. CASE UNCHANGED vars
      BY <2>1 DEF vars, FreshInv, Handling, At
    <2> QED  BY <2>1, FreshStep
  <1>3. IInv /\ FreshInv /\ [Next]_vars =>
          [/\ ledger \subseteq ledger'
           /\ \A o \in Orgs :
                 /\ row'[o] \notin {row[o], Gone}
                 /\ row'[o] # [row[o] EXCEPT !.customer = row'[o].customer]
                 => \E e \in DOMAIN events \ ledger :
                       EventOrg(e) = o /\ ledger' = ledger \cup {e}]_vars
    BY SavesRecord, LedgerGrows
  <1> QED  BY <1>1, <1>2, <1>3, InitIInv, NextIInv, PTL DEF Spec, EachEventOnce
=============================================================================
