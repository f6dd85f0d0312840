---------------------------- MODULE StripeWebhooks ----------------------------
(***************************************************************************)
(* StripeWebhookController, one action per awaited call.  Stripe delivers  *)
(* an event at least once, possibly several times at once and in any       *)
(* order; delivery <<e, k>> serves the event e and may be used again when  *)
(* it has been answered.                                                   *)
(*                                                                         *)
(* A delivery begins after the checks of lines 63-94, which refuse a       *)
(* request without touching anything, so a refused request is a stutter.   *)
(* As the source stands req has no decorator (line 63) and line 78 throws, *)
(* so every request is refused there: nothing assumes that one gets past.  *)
(***************************************************************************)
EXTENDS Checkout

CONSTANTS
    Deliveries, \* <<event number, copy>>: the deliveries that may overlap
    MaxFaults   \* bound: calls that reject, and restarts

ASSUME WebhookAssumption ==
    Deliveries \subseteq (Nat \ {0}) \X Nat /\ MaxFaults \in Nat

VARIABLES
    invoices,   \* the Invoice table, by stripeInvoiceId
    processed,  \* the WebhookEvent table
    delivery,   \* where each delivery is
    acked,      \* events answered with 2xx: Stripe need not retry them
    faults      \* how many calls have rejected

webhookVars == <<invoices, processed, delivery, acked, faults>>

InvoiceRows == [sub : Subs, user : Users, status : {"PAID", "OPEN"}]
EventRecords == [object : Subs \cup {None}, created : Nat]

DeliveryStates ==
    [pc : {"idle", "stale", "retrieve", "cancel", "local", "record"}]
      \cup [pc : {"plan", "upsert"}, status : Statuses]
      \cup [pc : {"invoice"}, user : Users]

WebhookTypeOK ==
    /\ DOMAIN invoices \subseteq Invoices /\ invoices \in [DOMAIN invoices -> InvoiceRows]
    /\ DOMAIN processed \subseteq DOMAIN events
    /\ processed \in [DOMAIN processed -> EventRecords]
    /\ delivery \in [Deliveries -> DeliveryStates]
    /\ acked \subseteq DOMAIN events
    /\ faults \in Nat

WebhookInit ==
    /\ invoices = Empty /\ processed = Empty
    /\ delivery = [d \in Deliveries |-> [pc |-> "idle"]]
    /\ acked = {} /\ faults = 0

-----------------------------------------------------------------------------
EventOf(d) == events[d[1]]

Become(d, state) == delivery' = [delivery EXCEPT ![d] = state]
Goto(d, pc) == Become(d, [pc |-> pc])
WithStatus(pc, status) == [pc |-> pc, status |-> status]

\* correlationObjectId: the subscription, for an invoice too.
ObjectId(event) == event.sub

\* The switch of handleWebhook and the early returns of the handlers.
Dispatch(d) ==
    LET event == EventOf(d) IN
    \/ /\ event.type = "other" \/ event.sub = None
       /\ Goto(d, "record")
    \/ /\ event.type \in InvoiceTypes /\ event.sub # None
       /\ Goto(d, "local")
    \/ /\ event.type \in {"checkout", "updated", "deleted"} /\ event.sub # None
       /\ \/ event.owner = None /\ Goto(d, "record")
          \/ /\ event.owner # None
             /\ \/ event.type = "checkout" /\ Goto(d, "retrieve")
                \/ event.type = "updated" /\ Become(d, WithStatus("plan", event.status))
                \/ event.type = "deleted" /\ Goto(d, "cancel")

\* A delivery has got past line 94; alreadyProcessed.
CheckProcessed(d) ==
    /\ d[1] \in DOMAIN events /\ delivery[d].pc = "idle"
    /\ \/ /\ d[1] \in DOMAIN processed
          /\ acked' = acked \cup {d[1]}
          /\ UNCHANGED delivery
       \/ /\ d[1] \notin DOMAIN processed
          /\ IF ObjectId(EventOf(d)) # None THEN Goto(d, "stale") ELSE Dispatch(d)
          /\ UNCHANGED acked
    /\ UNCHANGED <<subscriptions, invoices, processed, faults>>

\* isStale: an event of the same object, as new or newer, is on record.
IsStale(event) ==
    \E e \in DOMAIN processed :
        /\ processed[e].object = ObjectId(event)
        /\ processed[e].created >= event.created

\* Faulty variant: a stale event is answered without being recorded.
CheckStaleForgetting(d) ==
    /\ delivery[d].pc = "stale"
    /\ IF IsStale(EventOf(d)) THEN Goto(d, "idle") /\ acked' = acked \cup {d[1]}
                              ELSE Dispatch(d) /\ UNCHANGED acked
    /\ UNCHANGED <<subscriptions, invoices, processed, faults>>

CheckStale(d) ==
    /\ delivery[d].pc = "stale"
    /\ IF IsStale(EventOf(d)) THEN Goto(d, "record") ELSE Dispatch(d)
    /\ UNCHANGED <<subscriptions, invoices, processed, acked, faults>>

\* handleCheckoutComplete asks Stripe for the subscription as it is now.
Retrieve(d) ==
    /\ delivery[d].pc = "retrieve"
    /\ Become(d, WithStatus("plan", stripe[EventOf(d).sub].status))
    /\ UNCHANGED <<subscriptions, invoices, processed, acked, faults>>

\* syncSubscription, the lookup of the plan.
FindPlan(d) ==
    /\ delivery[d].pc = "plan"
    /\ IF PriceOf[EventOf(d).sub] \in DOMAIN plans
       THEN Become(d, WithStatus("upsert", delivery[d].status))
       ELSE Goto(d, "record")
    /\ UNCHANGED <<subscriptions, invoices, processed, acked, faults>>

\* Faulty variant: the status is stored as Stripe spells it.
StatusAsSent(status) == status

\* mapSubscriptionStatus; what it does not know is ACTIVE.
MapStatus(status) ==
    CASE status = "past_due" -> "PAST_DUE"
      [] status = "canceled" -> "CANCELED"
      [] status = "incomplete" -> "INCOMPLETE"
      [] status = "incomplete_expired" -> "INCOMPLETE_EXPIRED"
      [] status = "trialing" -> "TRIALING"
      [] OTHER -> "ACTIVE"

\* Faulty variant: a created row is left with the default of the schema.
CreateSubscriptionIncomplete(d) ==
    /\ delivery[d].pc = "upsert"
    /\ LET s == EventOf(d).sub IN
       subscriptions' = Insert(subscriptions, s,
         IF s \in DOMAIN subscriptions
         THEN [subscriptions[s] EXCEPT !.status = MapStatus(delivery[d].status)]
         ELSE [user |-> EventOf(d).owner, status |-> "INCOMPLETE",
               order |-> Cardinality(DOMAIN subscriptions)])
    /\ Goto(d, "record")
    /\ UNCHANGED <<invoices, processed, acked, faults>>

\* syncSubscription, the write.
UpsertSubscription(d) ==
    /\ delivery[d].pc = "upsert"
    /\ LET s == EventOf(d).sub IN
       subscriptions' = Insert(subscriptions, s,
         [user |-> EventOf(d).owner,
          status |-> MapStatus(delivery[d].status),
          order |-> IF s \in DOMAIN subscriptions
                    THEN subscriptions[s].order ELSE Cardinality(DOMAIN subscriptions)])
    /\ Goto(d, "record")
    /\ UNCHANGED <<invoices, processed, acked, faults>>

\* handleSubscriptionDeleted.
CancelSubscription(d) ==
    /\ delivery[d].pc = "cancel"
    /\ subscriptions' = [s \in DOMAIN subscriptions |->
         IF s = EventOf(d).sub /\ subscriptions[s].user = EventOf(d).owner
         THEN [subscriptions[s] EXCEPT !.status = "CANCELED"] ELSE subscriptions[s]]
    /\ Goto(d, "record")
    /\ UNCHANGED <<invoices, processed, acked, faults>>

\* upsertInvoiceFromStripe, the lookup of the local subscription.
FindLocal(d) ==
    /\ delivery[d].pc = "local"
    /\ LET s == EventOf(d).sub IN
       IF s \in DOMAIN subscriptions
       THEN Become(d, [pc |-> "invoice", user |-> subscriptions[s].user])
       ELSE Goto(d, "record")
    /\ UNCHANGED <<subscriptions, invoices, processed, acked, faults>>

\* Faulty variant: both handlers store a paid invoice.
UpsertInvoicePaid(d) ==
    /\ delivery[d].pc = "invoice"
    /\ invoices' = Insert(invoices, EventOf(d).invoice,
         [sub |-> EventOf(d).sub, user |-> delivery[d].user, status |-> "PAID"])
    /\ Goto(d, "record")
    /\ UNCHANGED <<subscriptions, processed, acked, faults>>

\* upsertInvoiceFromStripe, the write: an invoice that is there keeps its owner.
UpsertInvoice(d) ==
    /\ delivery[d].pc = "invoice"
    /\ LET i == EventOf(d).invoice
           status == IF EventOf(d).type = "paid" THEN "PAID" ELSE "OPEN"
       IN  invoices' = Insert(invoices, i,
             IF i \in DOMAIN invoices THEN [invoices[i] EXCEPT !.status = status]
             ELSE [sub |-> EventOf(d).sub, user |-> delivery[d].user, status |-> status])
    /\ Goto(d, "record")
    /\ UNCHANGED <<subscriptions, processed, acked, faults>>

\* Faulty variant: the row of an overlapping delivery is an error.
RecordEventOnce(d) ==
    /\ delivery[d].pc = "record"
    /\ Goto(d, "idle")
    /\ IF d[1] \in DOMAIN processed THEN UNCHANGED <<processed, acked, faults>>
       ELSE /\ processed' = Insert(processed, d[1],
                 [object |-> ObjectId(EventOf(d)), created |-> EventOf(d).created])
            /\ \/ acked' = acked \cup {d[1]} /\ UNCHANGED faults
               \/ faults < MaxFaults /\ faults' = faults + 1 /\ UNCHANGED acked
    /\ UNCHANGED <<subscriptions, invoices>>

\* recordEvent: a row that is there already is as good.  The acknowledgement
\* of the insert may be lost, then the delivery is answered with an error.
RecordEvent(d) ==
    /\ delivery[d].pc = "record"
    /\ IF d[1] \in DOMAIN processed THEN UNCHANGED processed
       ELSE processed' = Insert(processed, d[1],
              [object |-> ObjectId(EventOf(d)), created |-> EventOf(d).created])
    /\ Goto(d, "idle")
    /\ \/ acked' = acked \cup {d[1]} /\ UNCHANGED faults
       \/ faults < MaxFaults /\ faults' = faults + 1 /\ UNCHANGED acked
    /\ UNCHANGED <<subscriptions, invoices>>

\* An awaited call rejects: answered with an error, Stripe will retry.
DeliveryFails(d) ==
    /\ delivery[d].pc # "idle" /\ faults < MaxFaults
    /\ faults' = faults + 1
    /\ Goto(d, "idle")
    /\ UNCHANGED <<subscriptions, invoices, processed, acked>>

\* What the server does with a delivery that has begun.
ServeDelivery(d) ==
    \/ CheckStale(d)
    \/ Retrieve(d)
    \/ FindPlan(d)
    \/ UpsertSubscription(d)
    \/ CancelSubscription(d)
    \/ FindLocal(d)
    \/ UpsertInvoice(d)
    \/ RecordEvent(d)

WebhookNext ==
    \E d \in Deliveries : CheckProcessed(d) \/ ServeDelivery(d) \/ DeliveryFails(d)

WebhookCrash == delivery' = [d \in Deliveries |-> [pc |-> "idle"]]
===============================================================================
