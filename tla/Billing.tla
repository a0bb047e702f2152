------------------------------- MODULE Billing --------------------------------
(***************************************************************************)
(* The plan and quota of an organization against its subscriptions at      *)
(* Stripe.  Events carry the subscription as it was when they were made;   *)
(* Stripe delivers them late, in any order and more than once, and several *)
(* deliveries are handled at a time.  The customer calls (checkout, portal)*)
(* only matter by what happens at Stripe afterwards.                       *)
(***************************************************************************)
EXTENDS Integers, Sequences

CONSTANTS
    Subs,       \* subscriptions
    Plans,      \* paid plans
    Unknown,    \* a price that no plan is configured for
    None,       \* no subscription
    Handlers,   \* deliveries and status calls under way
    Forgets,    \* Stripe may not know a subscription (keys of another account)
    MaxEvents   \* bound of the model: events made

VARIABLES
    org,        \* Organization: plan, apiQuota, stripeSubscriptionId
    alive,      \* the row exists
    stripe,     \* state and price of each subscription
    events,     \* the events in the order Stripe made them
    handled,    \* how many were taken up in that order (history)
    serial,     \* so far in order, each once or again at once, only the two of a
                \* checkout overlapping (history)
    pc,         \* statement each handler is at
    local       \* what it carries

vars == <<org, alive, stripe, events, handled, serial, pc, local>>

\* The subscription is what an event or Stripe says of it.
Sub(s, state, price) == [sub |-> s, state |-> state, price |-> price]
Nothing == [sub |-> None, state |-> "none", price |-> Unknown, plan |-> "free"]

Init ==
    /\ org = [plan |-> "free", quota |-> "free", sub |-> None] /\ alive = TRUE
    /\ stripe = [s \in Subs |-> Sub(s, "none", Unknown)]
    /\ events = <<>> /\ handled = 0 /\ serial = TRUE
    /\ pc = [h \in Handlers |-> "idle"]
    /\ local = [h \in Handlers |-> Nothing]

----------------------------------------------------------------------------
(* Stripe.                                                                 *)

Make(made) == Len(events) + Len(made) <= MaxEvents /\ events' = events \o made

Event(type, x) == [type |-> type, sub |-> x.sub, state |-> x.state, price |-> x.price]

\* A checkout session is completed: two events, in either order.
CompleteCheckout(s, price) ==
    /\ stripe[s].state = "none"
    /\ LET x == Sub(s, "active", price)
           one == Event("completed", x)
           two == Event("updated", x)
       IN  stripe' = [stripe EXCEPT ![s] = x] /\ (Make(<<one, two>>) \/ Make(<<two, one>>))
    /\ UNCHANGED <<org, alive, handled, serial, pc, local>>

\* The customer changes the plan, or a payment becomes overdue or is made.
UpdateSubscription(s, state, price) ==
    /\ stripe[s].state \in {"active", "past_due"}
    /\ stripe' = [stripe EXCEPT ![s] = Sub(s, state, price)] /\ stripe' # stripe
    /\ Make(<<Event("updated", stripe'[s])>>)
    /\ UNCHANGED <<org, alive, handled, serial, pc, local>>

CancelSubscription(s) ==
    /\ stripe[s].state \in {"active", "past_due"}
    /\ stripe' = [stripe EXCEPT ![s].state = "canceled"]
    /\ Make(<<Event("deleted", stripe'[s])>>)
    /\ UNCHANGED <<org, alive, handled, serial, pc, local>>

----------------------------------------------------------------------------
(* handleWebhookEvent.                                                     *)

FirstStep(type) ==
    CASE type = "completed" -> "link" [] type = "updated" -> "find" [] type = "deleted" -> "end"

\* One event, or the two of one checkout.
Twins(i, j) == Event("updated", events[i]) = Event("updated", events[j])

Deliver(h, i) ==
    /\ pc[h] = "idle"
    /\ pc' = [pc EXCEPT ![h] = FirstStep(events[i].type)]
    /\ local' = [local EXCEPT ![h] = [sub |-> events[i].sub, state |-> events[i].state,
                                      price |-> events[i].price, plan |-> "free"]]
    /\ handled' = IF i = handled + 1 THEN i ELSE handled
    /\ serial' = (serial /\ i \in {handled, handled + 1} /\
                   ((\A g \in Handlers : pc[g] = "idle") \/ Twins(i, handled)))
    /\ UNCHANGED <<org, alive, stripe, events>>

Goto(h, step) == pc' = [pc EXCEPT ![h] = step]
Elsewhere == UNCHANGED <<alive, stripe, events, handled, serial>>

\* checkout.session.completed: link the subscription,
Link(h) ==
    /\ pc[h] = "link"
    /\ \/ alive /\ org' = [org EXCEPT !.sub = local[h].sub] /\ Goto(h, "read")
       \/ ~alive /\ UNCHANGED org /\ Goto(h, "idle")
    /\ UNCHANGED local /\ Elsewhere

\* read the row,
Read(h) ==
    /\ pc[h] = "read"
    /\ \/ alive /\ local' = [local EXCEPT ![h].plan = org.plan] /\ Goto(h, "retrieve")
       \/ ~alive /\ UNCHANGED local /\ Goto(h, "idle")
    /\ UNCHANGED org /\ Elsewhere

\* and ask Stripe for the subscription as it is now.
Retrieved(x) == [x EXCEPT !.state = stripe[x.sub].state, !.price = stripe[x.sub].price]

Retrieve(h) ==
    /\ pc[h] = "retrieve"
    /\ local' = [local EXCEPT ![h] = Retrieved(@)]
    /\ Goto(h, "apply")
    /\ UNCHANGED org /\ Elsewhere

\* customer.subscription.created and updated: the organization it is linked to.
Find(h) ==
    /\ pc[h] = "find"
    /\ \/ /\ alive /\ org.sub = local[h].sub
          /\ local' = [local EXCEPT ![h].plan = org.plan] /\ Goto(h, "apply")
       \/ ~(alive /\ org.sub = local[h].sub) /\ UNCHANGED local /\ Goto(h, "idle")
    /\ UNCHANGED org /\ Elsewhere

Applies(x) == x.state = "active"

\* applySubscriptionPlan; a price without a plan keeps the plan that was read.
NewPlan(x) == IF x.price = Unknown THEN x.plan ELSE x.price

Apply(h) ==
    /\ pc[h] = "apply"
    /\ \/ /\ Applies(local[h]) /\ alive
          /\ org' = [org EXCEPT !.plan = NewPlan(local[h]), !.quota = NewPlan(local[h])]
       \/ ~(Applies(local[h]) /\ alive) /\ UNCHANGED org
    /\ Goto(h, "idle") /\ UNCHANGED local /\ Elsewhere

\* customer.subscription.deleted: find the organization,
End(h) ==
    /\ pc[h] = "end"
    /\ Goto(h, IF alive /\ org.sub = local[h].sub THEN "clear" ELSE "idle")
    /\ UNCHANGED <<org, local>> /\ Elsewhere

\* Mutant: the subscription stays linked.
Downgraded_Linked(o) == [o EXCEPT !.plan = "free"]
\* and downgrade its row, whatever is linked by then; apiQuota is not touched.
Downgraded(o) == [o EXCEPT !.plan = "free", !.sub = None]

Clear(h) ==
    /\ pc[h] = "clear"
    /\ org' = IF alive THEN Downgraded(org) ELSE org
    /\ Goto(h, "idle") /\ UNCHANGED local /\ Elsewhere

----------------------------------------------------------------------------
(* Other calls.                                                            *)

\* getSubscriptionStatus reads the row and asks Stripe; the answer that there is
\* no such subscription makes it reset the row, others change nothing.
Status(h) ==
    /\ Forgets /\ pc[h] = "idle" /\ alive /\ org.sub # None
    /\ local' = [local EXCEPT ![h] = [Nothing EXCEPT !.sub = org.sub]]
    /\ Goto(h, "clear")
    /\ serial' = FALSE
    /\ UNCHANGED <<org, alive, stripe, events, handled>>

\* deleteOrganization cancels the linked subscription and deletes the row; an
\* error of Stripe is ignored.
DeleteOrganization ==
    /\ alive /\ alive' = FALSE
    /\ \/ \E s \in Subs : org.sub = s /\ stripe[s].state \in {"active", "past_due"} /\
              stripe' = [stripe EXCEPT ![s].state = "canceled"] /\
              Make(<<Event("deleted", stripe'[s])>>)
       \/ UNCHANGED <<stripe, events>>
    /\ UNCHANGED <<org, handled, serial, pc, local>>

Next ==
    \/ \E s \in Subs, p \in Plans \cup {Unknown} :
        \/ CompleteCheckout(s, p)
        \/ \E state \in {"active", "past_due"} : UpdateSubscription(s, state, p)
    \/ \E s \in Subs : CancelSubscription(s)
    \/ \E h \in Handlers :
        \/ \E i \in DOMAIN events : Deliver(h, i)
        \/ Link(h) \/ Read(h) \/ Retrieve(h) \/ Find(h) \/ Apply(h) \/ End(h) \/ Clear(h)
        \/ Status(h)
    \/ DeleteOrganization

Spec == Init /\ [][Next]_vars

----------------------------------------------------------------------------
Quiet == handled = Len(events) /\ \A h \in Handlers : pc[h] = "idle"
Known(s) == stripe[s].price # Unknown

\* When the events were handled in order, the latest possibly again, and only the two of
\* one checkout (or one event and its repetition) side by side, then in the end plan and
\* quota are those of the linked subscription, and without one the plan is free.
SerialBillingAgrees ==
    serial /\ Quiet /\ alive =>
        /\ org.sub = None => org.plan = "free"
        /\ \A s \in Subs : org.sub = s =>
            /\ stripe[s].state # "canceled"
            /\ stripe[s].state = "active" /\ Known(s) =>
                  org.plan = stripe[s].price /\ org.quota = stripe[s].price

\* The documented quotas: the free plan has the free quota.
FreeQuota == org.plan = "free" => org.quota = "free"
=============================================================================
