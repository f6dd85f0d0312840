-------------------------------- MODULE Billing --------------------------------
(***************************************************************************)
(* The billing module against Stripe: checkout, plans and the webhook over *)
(* one database, in any interleaving, with calls that fail and restarts.   *)
(***************************************************************************)
EXTENDS StripeWebhooks

vars == <<stripeVars, checkoutVars, webhookVars>>

Init == StripeInit /\ CheckoutInit /\ WebhookInit

\* A restart: requests and deliveries in flight are lost, rows are kept.
Crash ==
    /\ faults < MaxFaults /\ faults' = faults + 1
    /\ CheckoutCrash /\ WebhookCrash
    /\ UNCHANGED <<stripeVars, plans, subscriptions, invoices, processed, acked>>

Next ==
    \/ StripeNext /\ UNCHANGED <<checkoutVars, webhookVars>>
    \/ CheckoutNext /\ UNCHANGED webhookVars
    \/ WebhookNext /\ UNCHANGED <<stripeVars, plans, checkout>>
    \/ Crash

Spec == Init /\ [][Next]_vars

\* The calls a delivery awaits settle.  That Stripe delivers again, or that a
\* delivery gets past line 94, is not assumed.
Fairness == \A d \in Deliveries : WF_delivery(ServeDelivery(d))

FairSpec == Spec /\ Fairness

TypeOK == StripeTypeOK /\ CheckoutTypeOK /\ WebhookTypeOK

-----------------------------------------------------------------------------
\* Stripe is not told to stop before the event is on record: every path of
\* handleWebhook that answers 2xx has recorded it or found it recorded.
AcknowledgedIsRecorded == acked \subseteq DOMAIN processed

\* The statuses a subscription has had at Stripe.
Had(s) ==
    {events[e].status : e \in {e \in DOMAIN events :
         events[e].sub = s /\ events[e].type \in {"updated", "deleted"}}}
      \cup {"active"}

\* A local subscription is one of Stripe's, in its owner's name, in a state it
\* has had there: overlapping deliveries may leave an old state, never one of
\* another subscription, of another user, or of none.
RowsShowStripeStates ==
    \A s \in DOMAIN subscriptions :
        /\ s \in DOMAIN stripe
        /\ subscriptions[s].user = stripe[s].owner
        /\ \E status \in Had(s) : subscriptions[s].status = MapStatus(status)

\* A local invoice belongs to a local subscription and its user, and is paid
\* only if Stripe said so.
InvoicesFollowStripe ==
    \A i \in DOMAIN invoices :
        /\ invoices[i].sub \in DOMAIN subscriptions
        /\ invoices[i].user = subscriptions[invoices[i].sub].user
        /\ \E e \in DOMAIN events :
             /\ events[e].invoice = i /\ events[e].sub = invoices[i].sub
             /\ invoices[i].status = IF events[e].type = "paid" THEN "PAID" ELSE "OPEN"

\* No event is one that Stripe would deliver for ever: whatever it is about,
\* whatever the tables hold and however its deliveries overlap, a delivery that
\* has begun ends with the event answered with 2xx, unless a call fails or the
\* server restarts before that.
BegunDeliveriesSucceed ==
    \A d \in Deliveries, n \in 0..MaxFaults :
        delivery[d].pc # "idle" /\ faults = n ~> d[1] \in acked \/ faults > n

Quiet(s) ==
    \A d \in Deliveries :
        d[1] \in DOMAIN events /\ EventOf(d).sub = s => delivery[d].pc = "idle"

\* What the comment on WebhookEvent in the schema promises: newer state is not
\* overwritten by an older event.  When nothing of a subscription is in flight
\* and its strictly newest event, a change of it, has been answered, the row
\* shows that change.
NewestEventWins ==
    \A e \in acked :
        LET s == events[e].sub IN
        /\ events[e].type \in {"updated", "deleted"}
        /\ s \in DOMAIN subscriptions /\ Quiet(s)
        /\ \A x \in DOMAIN events \ {e} :
             events[x].sub = s => events[x].created < events[e].created
        => subscriptions[s].status = MapStatus(events[e].status)

\* What the comment on createCheckoutSession promises: a user with a live
\* subscription does not get a second one.
OneLiveSubscription ==
    \A s, t \in DOMAIN subscriptions :
        /\ subscriptions[s].user = subscriptions[t].user
        /\ subscriptions[s].status \in Live /\ subscriptions[t].status \in Live
        => s = t
===============================================================================
