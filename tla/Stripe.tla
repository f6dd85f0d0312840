-------------------------------- MODULE Stripe --------------------------------
(***************************************************************************)
(* Stripe, as the billing module uses it: checkout sessions that become    *)
(* subscriptions, and the log of events it delivers to the webhook.  The   *)
(* service is external: a subscription changes in any way, each change is  *)
(* an event, and events of one second share its timestamp.                 *)
(*                                                                         *)
(* A checkout session is named by the subscription it becomes.  Prices,    *)
(* periods and amounts are left out, customers too.                        *)
(***************************************************************************)
EXTENDS Naturals, Sequences, Tables

CONSTANTS
    Subs,       \* Stripe's subscription ids
    Users,
    Invoices,   \* Stripe's invoice ids
    Statuses,   \* the subscription statuses that are explored
    None,       \* what is absent
    MaxEvents,  \* bound: the events Stripe emits
    MaxSecond   \* bound: the clock stops here

ASSUME StripeAssumption ==
    /\ None \notin Subs \cup Users \cup Invoices \cup Statuses
    /\ {"active", "canceled"} \subseteq Statuses
    /\ MaxEvents \in Nat /\ MaxSecond \in Nat

VARIABLES
    second,     \* Stripe's clock
    sessions,   \* open checkout sessions: who opened them
    stripe,     \* Stripe's subscriptions
    events      \* the events emitted so far

stripeVars == <<second, sessions, stripe, events>>

EventTypes == {"checkout", "updated", "deleted", "paid", "payment_failed", "other"}
InvoiceTypes == {"paid", "payment_failed"}

\* "owner" is metadata.userId.
StripeRows == [owner : Users \cup {None}, status : Statuses]
EventRows == [type : EventTypes, sub : Subs \cup {None}, created : Nat,
              owner : Users \cup {None}, status : Statuses \cup {None},
              invoice : Invoices \cup {None}]

StripeTypeOK ==
    /\ second \in Nat
    /\ DOMAIN sessions \subseteq Subs /\ sessions \in [DOMAIN sessions -> Users]
    /\ DOMAIN stripe \subseteq Subs /\ stripe \in [DOMAIN stripe -> StripeRows]
    /\ events \in Seq(EventRows)

StripeInit == second = 0 /\ sessions = Empty /\ stripe = Empty /\ events = << >>

Emit(type, s, owner, status, invoice) ==
    /\ Len(events) < MaxEvents
    /\ events' = Append(events,
         [type |-> type, sub |-> s, created |-> second, owner |-> owner,
          status |-> status, invoice |-> invoice])

\* A user pays in an open session: the subscription starts.
CompleteCheckout(s) ==
    /\ s \in DOMAIN sessions \ DOMAIN stripe
    /\ stripe' = Insert(stripe, s, [owner |-> sessions[s], status |-> "active"])
    /\ Emit("checkout", s, sessions[s], None, None)
    /\ UNCHANGED <<second, sessions>>

\* A subscription made in Stripe's dashboard carries no user id.
OpenElsewhere(s) ==
    /\ s \notin DOMAIN sessions \cup DOMAIN stripe
    /\ stripe' = Insert(stripe, s, [owner |-> None, status |-> "active"])
    /\ Emit("updated", s, None, "active", None)
    /\ UNCHANGED <<second, sessions>>

ChangeStatus(s, status) ==
    /\ s \in DOMAIN stripe /\ stripe[s].status \notin {"canceled", status}
    /\ stripe' = [stripe EXCEPT ![s].status = status]
    /\ Emit(IF status = "canceled" THEN "deleted" ELSE "updated",
            s, stripe[s].owner, status, None)
    /\ UNCHANGED <<second, sessions>>

\* A payment attempt; the payload of an invoice has no user id.
AttemptPayment(s, invoice, type) ==
    /\ s \in DOMAIN stripe
    /\ \A e \in DOMAIN events :
         events[e].invoice = invoice =>
             events[e].sub = s /\ events[e].type = "payment_failed"
    /\ Emit(type, s, None, None, invoice)
    /\ UNCHANGED <<second, sessions, stripe>>

\* An event without a subscription, of a type that is handled or not.
EmitUnrelated(type, invoice) ==
    /\ \A e \in DOMAIN events : events[e].invoice # invoice
    /\ Emit(type, None, None, None, invoice)
    /\ UNCHANGED <<second, sessions, stripe>>

PassSecond ==
    second < MaxSecond /\ second' = second + 1 /\ UNCHANGED <<sessions, stripe, events>>

StripeNext ==
    \/ \E s \in Subs : CompleteCheckout(s) \/ OpenElsewhere(s)
    \/ \E s \in Subs, status \in Statuses : ChangeStatus(s, status)
    \/ \E s \in Subs, i \in Invoices, type \in InvoiceTypes : AttemptPayment(s, i, type)
    \/ EmitUnrelated("other", None)
    \/ \E i \in Invoices : EmitUnrelated("paid", i)
    \/ PassSecond
===============================================================================
