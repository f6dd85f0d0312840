----------------------------- MODULE BillingProofs -----------------------------
(***************************************************************************)
(* Proofs about Billing, for every value of its constants.                 *)
(***************************************************************************)
EXTENDS Billing, FiniteSetTheorems, TLAPS

(***************************************************************************)
(* The inductive invariant.                                                *)
(***************************************************************************)

ChangeTypes == {"checkout", "updated", "deleted"}

\* What the payload of an event says was so at Stripe.
EventFacts ==
    /\ \A e \in DOMAIN events :
        /\ events[e].type \in ChangeTypes =>
             /\ events[e].sub \in DOMAIN stripe
             /\ events[e].owner = stripe[events[e].sub].owner
        /\ events[e].type \in {"updated", "deleted"} => events[e].status \in Statuses
        /\ events[e].type = "deleted" => events[e].status = "canceled"
        /\ events[e].type \in InvoiceTypes <=> events[e].invoice # None
    /\ \A e, f \in DOMAIN events :
        events[e].invoice # None /\ events[e].invoice = events[f].invoice
        => events[e].sub = events[f].sub

\* Each change of a subscription has been an event.
ChangesAreEvents == \A s \in DOMAIN stripe : stripe[s].status \in Had(s)

\* What a delivery carries across its awaited calls is true of its event.
Carries(d) ==
    LET x == EventOf(d) IN
    /\ d[1] \in DOMAIN events
    /\ delivery[d].pc \in {"retrieve", "plan", "upsert", "cancel"} =>
         x.type \in ChangeTypes /\ x.owner \in Users /\ x.sub \in Subs
    /\ delivery[d].pc \in {"plan", "upsert"} => delivery[d].status \in Had(x.sub)
    /\ delivery[d].pc = "cancel" => x.type = "deleted"
    /\ delivery[d].pc \in {"local", "invoice"} => x.type \in InvoiceTypes /\ x.sub \in Subs
    /\ delivery[d].pc = "invoice" =>
         /\ x.sub \in DOMAIN subscriptions
         /\ delivery[d].user = subscriptions[x.sub].user

DeliveriesCarry == \A d \in Deliveries : delivery[d].pc # "idle" => Carries(d)

IInv ==
    /\ TypeOK /\ IsFiniteSet(DOMAIN subscriptions)
    /\ EventFacts /\ ChangesAreEvents /\ DeliveriesCarry
    /\ AcknowledgedIsRecorded /\ RowsShowStripeStates /\ InvoicesFollowStripe

-----------------------------------------------------------------------------

\* What Append does to the log of events.
LEMMA Appended ==
    ASSUME NEW S, NEW log \in Seq(S), NEW x \in S
    PROVE  /\ Append(log, x) \in Seq(S)
           /\ DOMAIN Append(log, x) = DOMAIN log \cup {Len(log) + 1}
           /\ \A e \in DOMAIN log : Append(log, x)[e] = log[e]
           /\ Append(log, x)[Len(log) + 1] = x
           /\ Len(log) + 1 \notin DOMAIN log
  OBVIOUS

\* The log after an event of the given contents has been emitted.
LEMMA Emitted ==
    ASSUME StripeTypeOK, NEW type \in EventTypes, NEW s \in Subs \cup {None},
           NEW owner \in Users \cup {None}, NEW status \in Statuses \cup {None},
           NEW invoice \in Invoices \cup {None},
           Emit(type, s, owner, status, invoice)
    PROVE  LET n == Len(events) + 1
               row == [type |-> type, sub |-> s, created |-> second,
                       owner |-> owner, status |-> status, invoice |-> invoice]
           IN  /\ events' \in Seq(EventRows)
               /\ DOMAIN events' = DOMAIN events \cup {n} /\ n \notin DOMAIN events
               /\ \A e \in DOMAIN events : events'[e] = events[e]
               /\ events'[n] = row
<1> DEFINE row == [type |-> type, sub |-> s, created |-> second,
                   owner |-> owner, status |-> status, invoice |-> invoice]
<1>1. row \in EventRows
  BY DEF StripeTypeOK, EventRows
<1>2. events' = Append(events, row) /\ events \in Seq(EventRows)
  BY DEF Emit, StripeTypeOK
<1> HIDE DEF row
<1>3. /\ events' \in Seq(EventRows)
      /\ DOMAIN events' = DOMAIN events \cup {Len(events) + 1}
      /\ Len(events) + 1 \notin DOMAIN events
      /\ \A e \in DOMAIN events : events'[e] = events[e]
      /\ events'[Len(events) + 1] = row
  BY <1>1, <1>2, Appended
<1> QED BY <1>3 DEF row

-----------------------------------------------------------------------------
\* Stripe's steps keep the type of its state.
LEMMA TypeOfStripe ==
    ASSUME StripeTypeOK, StripeNext
    PROVE  StripeTypeOK'
<1> USE StripeAssumption
<1>1. ASSUME NEW s \in Subs, NEW owner \in Users \cup {None},
             stripe' = Insert(stripe, s, [owner |-> owner, status |-> "active"])
      PROVE  DOMAIN stripe' \subseteq Subs /\ stripe' \in [DOMAIN stripe' -> StripeRows]
  <2> DEFINE row == [owner |-> owner, status |-> "active"]
  <2>1. row \in StripeRows /\ stripe' = Insert(stripe, s, row)
    BY <1>1 DEF StripeRows
  <2> HIDE DEF row
  <2> QED BY <2>1, InsertType DEF StripeTypeOK
<1>2. ASSUME NEW s \in Subs, CompleteCheckout(s)
      PROVE  StripeTypeOK'
  <2>1. sessions[s] \in Users
    BY <1>2 DEF CompleteCheckout, StripeTypeOK
  <2>2. events' \in Seq(EventRows)
    BY <1>2, <2>1, Emitted DEF CompleteCheckout, EventTypes
  <2>3. DOMAIN stripe' \subseteq Subs /\ stripe' \in [DOMAIN stripe' -> StripeRows]
    BY <1>1, <1>2, <2>1 DEF CompleteCheckout
  <2> QED BY <1>2, <2>2, <2>3 DEF CompleteCheckout, StripeTypeOK
<1>3. ASSUME NEW s \in Subs, OpenElsewhere(s)
      PROVE  StripeTypeOK'
  <2>1. events' \in Seq(EventRows)
    BY <1>3, Emitted DEF OpenElsewhere, EventTypes
  <2>2. DOMAIN stripe' \subseteq Subs /\ stripe' \in [DOMAIN stripe' -> StripeRows]
    BY <1>1, <1>3 DEF OpenElsewhere
  <2> QED BY <1>3, <2>1, <2>2 DEF OpenElsewhere, StripeTypeOK
<1>4. ASSUME NEW s \in Subs, NEW status \in Statuses, ChangeStatus(s, status)
      PROVE  StripeTypeOK'
  <2>1. stripe[s].owner \in Users \cup {None}
    BY <1>4 DEF ChangeStatus, StripeRows, StripeTypeOK
  <2>2. events' \in Seq(EventRows)
    <3>1. CASE status = "canceled"
      BY <1>4, <2>1, <3>1, Emitted DEF ChangeStatus, EventTypes
    <3>2. CASE status # "canceled"
      BY <1>4, <2>1, <3>2, Emitted DEF ChangeStatus, EventTypes
    <3> QED BY <3>1, <3>2
  <2>3. stripe' \in [DOMAIN stripe -> StripeRows] /\ DOMAIN stripe' = DOMAIN stripe
    BY <1>4 DEF ChangeStatus, StripeRows, StripeTypeOK
  <2> QED BY <1>4, <2>2, <2>3 DEF ChangeStatus, StripeTypeOK
<1>5. ASSUME NEW s \in Subs, NEW i \in Invoices, NEW type \in InvoiceTypes,
             AttemptPayment(s, i, type)
      PROVE  StripeTypeOK'
  <2>1. type \in EventTypes /\ Emit(type, s, None, None, i)
    BY <1>5 DEF AttemptPayment, EventTypes, InvoiceTypes
  <2>2. events' \in Seq(EventRows)
    BY <2>1, Emitted
  <2> QED BY <1>5, <2>2 DEF AttemptPayment, StripeTypeOK
<1>6. ASSUME NEW i \in Invoices \cup {None}, NEW type \in {"paid", "other"},
             EmitUnrelated(type, i)
      PROVE  StripeTypeOK'
  <2>1. type \in EventTypes /\ Emit(type, None, None, None, i)
    BY <1>6 DEF EmitUnrelated, EventTypes
  <2>2. events' \in Seq(EventRows)
    BY <2>1, Emitted
  <2> QED BY <1>6, <2>2 DEF EmitUnrelated, StripeTypeOK
<1>7. CASE PassSecond
  BY <1>7 DEF PassSecond, StripeTypeOK
<1> QED BY <1>2, <1>3, <1>4, <1>5, <1>6, <1>7 DEF StripeNext

\* The steps of BillingService keep the type of its tables and requests.
LEMMA TypeOfCheckout ==
    ASSUME StripeTypeOK, CheckoutTypeOK, CheckoutNext
    PROVE  StripeTypeOK' /\ CheckoutTypeOK'
<1>1. ASSUME NEW p \in Prices, CreatePlan(p)
      PROVE  StripeTypeOK' /\ CheckoutTypeOK'
  <2>1. DOMAIN plans' \subseteq Prices /\ plans' \in [DOMAIN plans' -> BOOLEAN]
    BY <1>1 DEF CreatePlan, CheckoutTypeOK, Insert
  <2> QED BY <1>1, <2>1 DEF CreatePlan, stripeVars, StripeTypeOK, CheckoutTypeOK
<1>2. ASSUME NEW p \in Prices, NEW q \in Prices, NEW active \in BOOLEAN,
             UpdatePlan(p, q, active)
      PROVE  StripeTypeOK' /\ CheckoutTypeOK'
  <2> DEFINE rest == [x \in DOMAIN plans \ {p} |-> plans[x]]
  <2>1. DOMAIN rest \subseteq Prices /\ rest \in [DOMAIN rest -> BOOLEAN]
    BY DEF CheckoutTypeOK
  <2>2. plans' = Insert(rest, q, active)
    BY <1>2 DEF UpdatePlan
  <2> HIDE DEF rest
  <2>3. DOMAIN plans' \subseteq Prices /\ plans' \in [DOMAIN plans' -> BOOLEAN]
    BY <2>1, <2>2 DEF Insert
  <2> QED BY <1>2, <2>3 DEF UpdatePlan, stripeVars, StripeTypeOK, CheckoutTypeOK
<1>3. ASSUME NEW s \in Subs, NEW u \in Users, FindCheckoutPlan(s, u)
      PROVE  StripeTypeOK' /\ CheckoutTypeOK'
  BY <1>3 DEF FindCheckoutPlan, stripeVars, CheckoutStates, StripeTypeOK, CheckoutTypeOK
<1>4. ASSUME NEW s \in Subs, CheckCurrent(s) \/ CheckoutFails(s)
      PROVE  StripeTypeOK' /\ CheckoutTypeOK'
  <2>1. checkout' \in [Subs -> CheckoutStates]
    BY <1>4 DEF CheckCurrent, CheckoutFails, CheckoutStates, CheckoutTypeOK
  <2> QED BY <1>4, <2>1 DEF CheckCurrent, CheckoutFails, stripeVars, StripeTypeOK,
                            CheckoutTypeOK
<1>5. ASSUME NEW s \in Subs, CreateSession(s)
      PROVE  StripeTypeOK' /\ CheckoutTypeOK'
  <2>1. checkout[s] \in [pc : {"current", "create", "opened"}, user : Users]
    BY <1>5 DEF CreateSession, CheckoutStates, CheckoutTypeOK
  <2>2. checkout' \in [Subs -> CheckoutStates]
    <3>1. [checkout[s] EXCEPT !.pc = "opened"] \in CheckoutStates
      BY <2>1 DEF CheckoutStates
    <3> QED BY <1>5, <3>1 DEF CreateSession, CheckoutTypeOK
  <2>3. DOMAIN sessions' \subseteq Subs /\ sessions' \in [DOMAIN sessions' -> Users]
    <3>1. sessions' = Insert(sessions, s, checkout[s].user) /\ checkout[s].user \in Users
      BY <1>5, <2>1 DEF CreateSession
    <3> QED BY <3>1 DEF Insert, StripeTypeOK
  <2> QED BY <1>5, <2>2, <2>3 DEF CreateSession, StripeTypeOK, CheckoutTypeOK
<1> QED BY <1>1, <1>2, <1>3, <1>4, <1>5 DEF CheckoutNext

-----------------------------------------------------------------------------
\* Nothing is taken back: the log and the subscriptions only grow, and a
\* subscription keeps its owner.
Grows ==
    /\ DOMAIN events \subseteq DOMAIN events'
    /\ \A e \in DOMAIN events : events'[e] = events[e]
    /\ DOMAIN stripe \subseteq DOMAIN stripe'
    /\ \A s \in DOMAIN stripe : stripe'[s].owner = stripe[s].owner

\* Had, without the set.
LEMMA HadIff ==
    ASSUME NEW s, NEW status
    PROVE  status \in Had(s) <=>
             \/ status = "active"
             \/ \E e \in DOMAIN events :
                  /\ events[e].sub = s /\ events[e].type \in {"updated", "deleted"}
                  /\ status = events[e].status
  BY DEF Had

\* A state that has been is never forgotten.
LEMMA HadGrows ==
    ASSUME Grows, NEW s
    PROVE  Had(s) \subseteq Had(s)'
  BY DEF Grows, Had

\* One event at most is added by a step of Stripe's, and it tells the truth.
LEMMA StripeFacts ==
    ASSUME StripeTypeOK, EventFacts, ChangesAreEvents, StripeNext
    PROVE  Grows /\ EventFacts' /\ ChangesAreEvents'
<1> USE StripeAssumption
<1>1. ASSUME NEW type \in EventTypes, NEW s \in Subs \cup {None},
             NEW owner \in Users \cup {None}, NEW status \in Statuses \cup {None},
             NEW invoice \in Invoices \cup {None},
             Emit(type, s, owner, status, invoice),
             DOMAIN stripe \subseteq DOMAIN stripe',
             \A t \in DOMAIN stripe : stripe'[t].owner = stripe[t].owner,
             type \in ChangeTypes => s \in DOMAIN stripe' /\ owner = stripe'[s].owner,
             type \in {"updated", "deleted"} => status \in Statuses,
             type = "deleted" => status = "canceled",
             type \in InvoiceTypes <=> invoice # None,
             invoice # None =>
                 \A e \in DOMAIN events : events[e].invoice = invoice => events[e].sub = s
      PROVE  Grows /\ EventFacts'
  <2> DEFINE n == Len(events) + 1
  <2>1. /\ DOMAIN events' = DOMAIN events \cup {n} /\ n \notin DOMAIN events
        /\ \A e \in DOMAIN events : events'[e] = events[e]
        /\ events'[n] = [type |-> type, sub |-> s, created |-> second,
                         owner |-> owner, status |-> status, invoice |-> invoice]
    <3>1. Emit(type, s, owner, status, invoice)
      BY <1>1
    <3>2. /\ DOMAIN events' = DOMAIN events \cup {Len(events) + 1}
          /\ Len(events) + 1 \notin DOMAIN events
          /\ \A e \in DOMAIN events : events'[e] = events[e]
      BY <3>1, Emitted
    <3>3. events'[Len(events) + 1] =
            [type |-> type, sub |-> s, created |-> second,
             owner |-> owner, status |-> status, invoice |-> invoice]
      BY <3>1, Emitted
    <3> QED BY <3>2, <3>3
  <2> HIDE DEF n
  <2>2. Grows
    BY <1>1, <2>1 DEF Grows
  <2>3. /\ events'[n].type = type /\ events'[n].sub = s /\ events'[n].owner = owner
        /\ events'[n].status = status /\ events'[n].invoice = invoice
    BY <2>1
  <2>4. ASSUME NEW e \in DOMAIN events'
        PROVE  /\ events'[e].type \in ChangeTypes =>
                    /\ events'[e].sub \in DOMAIN stripe'
                    /\ events'[e].owner = stripe'[events'[e].sub].owner
               /\ events'[e].type \in {"updated", "deleted"} => events'[e].status \in Statuses
               /\ events'[e].type = "deleted" => events'[e].status = "canceled"
               /\ events'[e].type \in InvoiceTypes <=> events'[e].invoice # None
    <3>1. CASE e = n
      BY <1>1, <2>3, <3>1
    <3>2. CASE e # n
      <4>1. e \in DOMAIN events /\ events'[e] = events[e]
        BY <2>1, <2>4, <3>2
      <4> QED BY <1>1, <4>1 DEF EventFacts
    <3> QED BY <3>1, <3>2
  <2>5. ASSUME NEW e \in DOMAIN events', NEW f \in DOMAIN events',
               events'[e].invoice # None, events'[e].invoice = events'[f].invoice
        PROVE  events'[e].sub = events'[f].sub
    <3>1. \A x \in DOMAIN events' : x = n \/ (x \in DOMAIN events /\ events'[x] = events[x])
      BY <2>1
    <3>2. \A x \in DOMAIN events :
            invoice # None /\ events[x].invoice = invoice => events[x].sub = s
      BY <1>1
    <3>3. CASE e = n \/ f = n
      BY <2>3, <2>5, <3>1, <3>2, <3>3
    <3>4. CASE e # n /\ f # n
      BY <2>5, <3>1, <3>4 DEF EventFacts
    <3> QED BY <3>3, <3>4
  <2> QED BY <2>2, <2>4, <2>5 DEF EventFacts
<1>2. ASSUME Grows, NEW t \in DOMAIN stripe, stripe'[t].status = stripe[t].status
      PROVE  stripe'[t].status \in Had(t)'
  BY <1>2, HadGrows DEF ChangesAreEvents
<1>3. ASSUME NEW s \in Subs, NEW owner, s \notin DOMAIN stripe,
             stripe' = Insert(stripe, s, [owner |-> owner, status |-> "active"])
      PROVE  /\ DOMAIN stripe' = DOMAIN stripe \cup {s}
             /\ \A t \in DOMAIN stripe : stripe'[t] = stripe[t]
             /\ stripe'[s].owner = owner
             /\ Grows => ChangesAreEvents'
  <2>1. /\ DOMAIN stripe' = DOMAIN stripe \cup {s}
        /\ \A t \in DOMAIN stripe : stripe'[t] = stripe[t]
        /\ stripe'[s] = [owner |-> owner, status |-> "active"]
    BY <1>3 DEF Insert
  <2>2. "active" \in Had(s)'
    BY DEF Had
  <2> QED BY <1>2, <2>1, <2>2 DEF ChangesAreEvents
<1>4. ASSUME NEW s \in Subs, CompleteCheckout(s)
      PROVE  Grows /\ EventFacts' /\ ChangesAreEvents'
  <2>1. sessions[s] \in Users
    BY <1>4 DEF CompleteCheckout, StripeTypeOK
  <2>2. Grows /\ EventFacts'
    BY <1>1, <1>3, <1>4, <2>1 DEF CompleteCheckout, EventTypes, ChangeTypes, InvoiceTypes
  <2> QED BY <1>3, <1>4, <2>2 DEF CompleteCheckout
<1>5. ASSUME NEW s \in Subs, OpenElsewhere(s)
      PROVE  Grows /\ EventFacts' /\ ChangesAreEvents'
  <2>1. Grows /\ EventFacts'
    BY <1>1, <1>3, <1>5 DEF OpenElsewhere, EventTypes, ChangeTypes, InvoiceTypes
  <2> QED BY <1>3, <1>5, <2>1 DEF OpenElsewhere
<1>6. ASSUME NEW s \in Subs, NEW status \in Statuses, ChangeStatus(s, status)
      PROVE  Grows /\ EventFacts' /\ ChangesAreEvents'
  <2> DEFINE type == IF status = "canceled" THEN "deleted" ELSE "updated"
  <2>1. /\ s \in DOMAIN stripe /\ stripe[s].owner \in Users \cup {None}
        /\ Emit(type, s, stripe[s].owner, status, None)
        /\ type \in {"updated", "deleted"} /\ (type = "deleted" => status = "canceled")
    BY <1>6 DEF ChangeStatus, StripeRows, StripeTypeOK
  <2>2. /\ DOMAIN stripe' = DOMAIN stripe
        /\ \A t \in DOMAIN stripe : stripe'[t].owner = stripe[t].owner
        /\ \A t \in DOMAIN stripe \ {s} : stripe'[t].status = stripe[t].status
        /\ stripe'[s].status = status
    BY <1>6, <2>1 DEF ChangeStatus, StripeRows, StripeTypeOK
  <2> HIDE DEF type
  <2>3. /\ type \in EventTypes /\ type \notin InvoiceTypes /\ type \in ChangeTypes
        /\ None \in Invoices \cup {None}
    BY <2>1 DEF EventTypes, InvoiceTypes, ChangeTypes
  <2>4. Grows /\ EventFacts'
    BY <1>1, <2>1, <2>2, <2>3
  <2>5. status \in Had(s)'
    <3> DEFINE n == Len(events) + 1
    <3>1. /\ n \in DOMAIN events'
          /\ events'[n] = [type |-> type, sub |-> s, created |-> second,
                           owner |-> stripe[s].owner, status |-> status, invoice |-> None]
      BY <2>1, <2>3, Emitted
    <3> HIDE DEF n
    <3>2. /\ events'[n].type \in {"updated", "deleted"} /\ events'[n].sub = s
          /\ events'[n].status = status
      BY <2>1, <3>1
    <3> QED BY <3>1, <3>2 DEF Had
  <2> QED BY <1>2, <2>2, <2>4, <2>5 DEF ChangesAreEvents
<1>7. ASSUME Grows, UNCHANGED stripe
      PROVE  ChangesAreEvents'
  BY <1>2, <1>7 DEF ChangesAreEvents
<1>8. ASSUME NEW s \in Subs, NEW i \in Invoices, NEW type \in InvoiceTypes,
             AttemptPayment(s, i, type)
      PROVE  Grows /\ EventFacts' /\ ChangesAreEvents'
  <2>1. type \in EventTypes /\ type \notin ChangeTypes /\ i # None
    BY DEF EventTypes, InvoiceTypes, ChangeTypes
  <2>2. UNCHANGED stripe /\ Emit(type, s, None, None, i)
    BY <1>8 DEF AttemptPayment
  <2>3. \A e \in DOMAIN events : events[e].invoice = i => events[e].sub = s
    BY <1>8 DEF AttemptPayment
  <2>4. type \notin {"updated", "deleted"}
    BY DEF InvoiceTypes
  <2>5. Grows /\ EventFacts'
    BY <1>1, <2>1, <2>2, <2>3, <2>4
  <2> QED BY <1>7, <2>2, <2>5
<1>9. ASSUME NEW i \in Invoices \cup {None}, NEW type \in {"paid", "other"},
             type = "paid" <=> i # None, EmitUnrelated(type, i)
      PROVE  Grows /\ EventFacts' /\ ChangesAreEvents'
  <2>1. /\ type \in EventTypes /\ type \notin ChangeTypes
        /\ type \notin {"updated", "deleted"} /\ (type \in InvoiceTypes <=> i # None)
    BY <1>9 DEF EventTypes, InvoiceTypes, ChangeTypes
  <2>2. UNCHANGED stripe /\ Emit(type, None, None, None, i)
    BY <1>9 DEF EmitUnrelated
  <2>3. \A e \in DOMAIN events : events[e].invoice # i
    BY <1>9 DEF EmitUnrelated
  <2>4. Grows /\ EventFacts'
    BY <1>1, <2>1, <2>2, <2>3
  <2> QED BY <1>7, <2>2, <2>4
<1>10. CASE PassSecond
  <2>1. UNCHANGED <<stripe, events>>
    BY <1>10 DEF PassSecond
  <2> QED BY <2>1 DEF Grows, EventFacts, ChangesAreEvents, Had
<1> QED BY <1>4, <1>5, <1>6, <1>8, <1>9, <1>10 DEF StripeNext

-----------------------------------------------------------------------------
\* The webhook's steps leave Stripe alone.
Calm == UNCHANGED <<stripeVars, plans, checkout>>

\* The invariant without what is said of the state of the webhook.
LEMMA CalmKeeps ==
    ASSUME EventFacts, ChangesAreEvents, Calm
    PROVE  /\ EventFacts' /\ ChangesAreEvents'
           /\ events' = events /\ stripe' = stripe
           /\ \A s : Had(s)' = Had(s)
  BY DEF Calm, stripeVars, EventFacts, ChangesAreEvents, Had

\* A delivery at its next step, the others where they were: what each carries is
\* true if it is true of the one that moved, as rows keep their users.
LEMMA OneDelivery ==
    ASSUME TypeOK, DeliveriesCarry, EventFacts, ChangesAreEvents, Calm,
           NEW d \in Deliveries, NEW state \in DeliveryStates, Become(d, state),
           state.pc # "idle" => Carries(d)',
           DOMAIN subscriptions \subseteq DOMAIN subscriptions',
           \A s \in DOMAIN subscriptions : subscriptions'[s].user = subscriptions[s].user
    PROVE  /\ DeliveriesCarry'
           /\ delivery' \in [Deliveries -> DeliveryStates]
<1>1. /\ delivery' \in [Deliveries -> DeliveryStates] /\ delivery'[d] = state
      /\ \A c \in Deliveries \ {d} : delivery'[c] = delivery[c]
  BY DEF Become, TypeOK, WebhookTypeOK
<1>2. events' = events /\ \A s : Had(s)' = Had(s)
  BY CalmKeeps
<1>3. ASSUME NEW c \in Deliveries \ {d}, delivery'[c].pc # "idle"
      PROVE  Carries(c)'
  <2>1. Carries(c) /\ delivery'[c] = delivery[c]
    BY <1>1, <1>3 DEF DeliveriesCarry
  <2>2. EventOf(c)' = EventOf(c)
    BY <1>2 DEF EventOf
  <2> QED BY <1>2, <2>1, <2>2 DEF Carries
<1> QED BY <1>1, <1>3 DEF DeliveriesCarry

\* Where Dispatch sends a delivery, with what the payload says.
LEMMA Dispatched ==
    ASSUME IInv, NEW d \in Deliveries, d[1] \in DOMAIN events, Dispatch(d), Calm,
           UNCHANGED subscriptions
    PROVE  /\ DeliveriesCarry'
           /\ delivery' \in [Deliveries -> DeliveryStates]
<1> DEFINE x == EventOf(d)
<1>1. /\ x \in EventRows /\ events' = events /\ EventOf(d)' = x
      /\ TypeOK /\ EventFacts /\ ChangesAreEvents /\ DeliveriesCarry
  BY CalmKeeps DEF IInv, TypeOK, StripeTypeOK, EventOf
<1>2. /\ x.sub # None => x.sub \in Subs
      /\ x.owner # None => x.owner \in Users
      /\ x.type \in {"updated", "deleted"} => x.status \in Statuses
      /\ \A s : Had(s)' = Had(s)
  BY <1>1, CalmKeeps DEF EventRows, EventFacts, EventOf
<1> HIDE DEF x
<1>3. ASSUME NEW state \in DeliveryStates, Become(d, state), Carries(d)'
      PROVE  DeliveriesCarry' /\ delivery' \in [Deliveries -> DeliveryStates]
  BY <1>1, <1>3, OneDelivery
<1>4. \A state : Become(d, state) => delivery'[d] = state
  BY DEF IInv, TypeOK, WebhookTypeOK, Become
<1>5. CASE Goto(d, "record")
  <2>1. Carries(d)'
    BY <1>1, <1>4, <1>5 DEF Goto, Carries
  <2> QED BY <1>3, <1>5, <2>1 DEF Goto, DeliveryStates
<1>6. CASE x.type \in InvoiceTypes /\ x.sub # None /\ Goto(d, "local")
  <2>1. Carries(d)'
    BY <1>1, <1>2, <1>4, <1>6 DEF Goto, Carries
  <2> QED BY <1>3, <1>6, <2>1 DEF Goto, DeliveryStates
<1>7. CASE /\ x.type = "checkout" /\ x.sub # None /\ x.owner # None
           /\ Goto(d, "retrieve")
  <2>1. Carries(d)'
    BY <1>1, <1>2, <1>4, <1>7 DEF Goto, Carries, ChangeTypes
  <2> QED BY <1>3, <1>7, <2>1 DEF Goto, DeliveryStates
<1>8. CASE /\ x.type = "updated" /\ x.sub # None /\ x.owner # None
           /\ Become(d, WithStatus("plan", x.status))
  <2> DEFINE state == WithStatus("plan", x.status)
  <2>1. /\ state.pc = "plan" /\ state.status = x.status /\ state \in DeliveryStates
        /\ delivery'[d] = state
    BY <1>2, <1>4, <1>8 DEF WithStatus, DeliveryStates
  <2>2. x.status \in Had(x.sub)
    BY <1>1, <1>8, HadIff DEF x, EventOf
  <2> HIDE DEF state
  <2>3. Carries(d)'
    BY <1>1, <1>2, <1>8, <2>1, <2>2 DEF Carries, ChangeTypes
  <2> QED BY <1>3, <1>8, <2>1, <2>3 DEF state
<1>9. CASE /\ x.type = "deleted" /\ x.sub # None /\ x.owner # None
           /\ Goto(d, "cancel")
  <2>1. Carries(d)'
    BY <1>1, <1>2, <1>4, <1>9 DEF Goto, Carries, ChangeTypes
  <2> QED BY <1>3, <1>9, <2>1 DEF Goto, DeliveryStates
<1> QED BY <1>5, <1>6, <1>7, <1>8, <1>9 DEF Dispatch, x

\* The rows and the invoices when the webhook does not touch them.
LEMMA RowsAlone ==
    ASSUME RowsShowStripeStates, InvoicesFollowStripe, EventFacts, ChangesAreEvents,
           Calm, UNCHANGED <<subscriptions, invoices>>
    PROVE  RowsShowStripeStates' /\ InvoicesFollowStripe'
<1>1. events' = events /\ stripe' = stripe /\ \A s : Had(s)' = Had(s)
  BY CalmKeeps
<1> QED BY <1>1 DEF RowsShowStripeStates, InvoicesFollowStripe

\* The invoices when rows are written whose users stay.
LEMMA InvoicesKept ==
    ASSUME InvoicesFollowStripe, UNCHANGED <<invoices, events>>,
           DOMAIN subscriptions \subseteq DOMAIN subscriptions',
           \A s \in DOMAIN subscriptions : subscriptions'[s].user = subscriptions[s].user
    PROVE  InvoicesFollowStripe'
  BY DEF InvoicesFollowStripe

\* A step that moves deliveries and changes no row.
LEMMA NoRowChanges ==
    ASSUME IInv, Calm, UNCHANGED <<subscriptions, invoices, processed>>,
           DeliveriesCarry', delivery' \in [Deliveries -> DeliveryStates],
           acked' \subseteq DOMAIN processed, faults' \in Nat
    PROVE  IInv'
<1>1. TypeOK'
  BY DEF IInv, TypeOK, StripeTypeOK, CheckoutTypeOK, WebhookTypeOK, Calm, stripeVars
<1>2. EventFacts' /\ ChangesAreEvents'
  BY CalmKeeps DEF IInv
<1>3. RowsShowStripeStates' /\ InvoicesFollowStripe'
  BY RowsAlone DEF IInv
<1>4. IsFiniteSet(DOMAIN subscriptions)' /\ AcknowledgedIsRecorded'
  BY DEF IInv, AcknowledgedIsRecorded
<1> QED BY <1>1, <1>2, <1>3, <1>4 DEF IInv

\* A delivery that moves on without touching a row.
LEMMA Moves ==
    ASSUME IInv, Calm, UNCHANGED <<subscriptions, invoices, processed>>,
           NEW d \in Deliveries, NEW state \in DeliveryStates, Become(d, state),
           state.pc # "idle" => Carries(d)',
           acked' \subseteq DOMAIN processed, faults' \in Nat
    PROVE  IInv'
  BY OneDelivery, NoRowChanges DEF IInv

\* A delivery at rest carries nothing but its event.
LEMMA AtRest ==
    ASSUME IInv, Calm, NEW d \in Deliveries, NEW pc \in {"idle", "stale", "record"},
           d[1] \in DOMAIN events, Goto(d, pc)
    PROVE  Carries(d)' /\ [pc |-> pc] \in DeliveryStates /\ [pc |-> pc].pc = pc
<1>1. events' = events /\ delivery'[d] = [pc |-> pc]
  BY CalmKeeps DEF IInv, TypeOK, WebhookTypeOK, Goto, Become
<1> QED BY <1>1 DEF Carries, DeliveryStates

\* The steps of a delivery that write neither a subscription nor an invoice.
LEMMA ReadingSteps ==
    ASSUME IInv, Calm, NEW d \in Deliveries,
           \/ CheckProcessed(d) \/ CheckStale(d) \/ Retrieve(d) \/ FindPlan(d)
           \/ FindLocal(d) \/ DeliveryFails(d)
    PROVE  IInv'
<1> DEFINE x == EventOf(d)
<1>1. /\ acked \subseteq DOMAIN processed /\ faults \in Nat
      /\ delivery[d] \in DeliveryStates
      /\ DOMAIN processed \subseteq DOMAIN events
      /\ delivery[d].pc # "idle" => Carries(d)
  BY DEF IInv, TypeOK, WebhookTypeOK, AcknowledgedIsRecorded, DeliveriesCarry
<1>2. events' = events /\ EventOf(d)' = x /\ \A s : Had(s)' = Had(s)
  BY CalmKeeps DEF IInv, EventOf
<1> HIDE DEF x
<1>3. \A state : Become(d, state) => delivery'[d] = state
  BY DEF IInv, TypeOK, WebhookTypeOK, Become
<1>4. ASSUME CheckProcessed(d)
      PROVE  IInv'
  <2>1. CASE d[1] \in DOMAIN processed
    <3>1. /\ UNCHANGED <<delivery, subscriptions, invoices, processed, faults>>
          /\ acked' \subseteq DOMAIN processed
      BY <1>1, <1>4, <2>1 DEF CheckProcessed
    <3>2. DeliveriesCarry'
      BY <1>2, <3>1, CalmKeeps DEF DeliveriesCarry, Carries, EventOf, IInv
    <3>3. delivery' \in [Deliveries -> DeliveryStates]
      BY <3>1 DEF IInv, TypeOK, WebhookTypeOK
    <3> QED BY <1>1, <3>1, <3>2, <3>3, NoRowChanges
  <2>2. CASE d[1] \notin DOMAIN processed
    <3>1. /\ UNCHANGED <<subscriptions, invoices, processed, faults, acked>>
          /\ d[1] \in DOMAIN events
          /\ Goto(d, "stale") \/ Dispatch(d)
      BY <1>4, <2>2 DEF CheckProcessed
    <3>2. CASE Goto(d, "stale")
      <4>1. Carries(d)' /\ [pc |-> "stale"] \in DeliveryStates
        BY <3>1, <3>2, AtRest
      <4> QED BY <1>1, <3>1, <3>2, <4>1, Moves DEF Goto
    <3>3. CASE Dispatch(d)
      <4>1. DeliveriesCarry' /\ delivery' \in [Deliveries -> DeliveryStates]
        BY <3>1, <3>3, Dispatched
      <4> QED BY <1>1, <3>1, <4>1, NoRowChanges
    <3> QED BY <3>1, <3>2, <3>3
  <2> QED BY <2>1, <2>2
<1>5. ASSUME CheckStale(d)
      PROVE  IInv'
  <2>1. /\ UNCHANGED <<subscriptions, invoices, processed, faults, acked>>
        /\ d[1] \in DOMAIN events
        /\ Goto(d, "record") \/ Dispatch(d)
    BY <1>1, <1>5 DEF CheckStale, Carries
  <2>2. CASE Goto(d, "record")
    <3>1. Carries(d)' /\ [pc |-> "record"] \in DeliveryStates
      BY <2>1, <2>2, AtRest
    <3> QED BY <1>1, <2>1, <2>2, <3>1, Moves DEF Goto
  <2>3. CASE Dispatch(d)
    <3>1. DeliveriesCarry' /\ delivery' \in [Deliveries -> DeliveryStates]
      BY <2>1, <2>3, Dispatched
    <3> QED BY <1>1, <2>1, <3>1, NoRowChanges
  <2> QED BY <2>1, <2>2, <2>3
<1>6. ASSUME NEW status \in Had(x.sub), NEW pc \in {"plan", "upsert"},
             Become(d, WithStatus(pc, status)),
             delivery[d].pc \in {"retrieve", "plan"},
             UNCHANGED <<subscriptions, invoices, processed, faults, acked>>
      PROVE  IInv'
  <2> DEFINE state == WithStatus(pc, status)
  <2>1. Carries(d) /\ x = EventOf(d) /\ d[1] \in DOMAIN events
    BY <1>1, <1>6 DEF Carries, x
  <2>2. status \in Statuses
    BY <1>6, HadIff, StripeAssumption DEF IInv, EventFacts
  <2>3. /\ state.pc = pc /\ state.status = status /\ state \in DeliveryStates
        /\ Become(d, state) /\ delivery'[d] = state
    BY <1>3, <1>6, <2>2 DEF WithStatus, DeliveryStates
  <2> HIDE DEF state
  <2>4. /\ x.type \in ChangeTypes /\ x.owner \in Users /\ x.sub \in Subs
    BY <1>6, <2>1 DEF Carries
  <2>5. Carries(d)'
    BY <1>2, <1>6, <2>1, <2>3, <2>4 DEF Carries
  <2> QED BY <1>1, <1>6, <2>3, <2>5, Moves
<1>7. ASSUME Retrieve(d)
      PROVE  IInv'
  <2>1. Carries(d) /\ x = EventOf(d) /\ delivery[d].pc = "retrieve"
    BY <1>1, <1>7 DEF Retrieve, x
  <2>2. x.sub \in DOMAIN stripe
    BY <2>1 DEF Carries, IInv, EventFacts, EventOf
  <2>3. stripe[x.sub].status \in Had(x.sub)
    BY <2>2 DEF IInv, ChangesAreEvents
  <2> QED BY <1>6, <1>7, <2>1, <2>3 DEF Retrieve
<1>8. ASSUME Goto(d, "record") \/ Goto(d, "idle"), delivery[d].pc # "idle",
             faults' \in Nat,
             UNCHANGED <<subscriptions, invoices, processed, acked>>
      PROVE  IInv'
  <2>1. PICK pc \in {"record", "idle"} : Goto(d, pc)
    BY <1>8
  <2>2. Carries(d)' /\ [pc |-> pc] \in DeliveryStates
    BY <1>1, <1>8, <2>1, AtRest DEF Carries
  <2> QED BY <1>1, <1>8, <2>1, <2>2, Moves DEF Goto
<1>9. ASSUME FindPlan(d)
      PROVE  IInv'
  <2>1. Carries(d) /\ x = EventOf(d) /\ delivery[d].pc = "plan"
    BY <1>1, <1>9 DEF FindPlan, x
  <2>2. delivery[d].status \in Had(x.sub)
    BY <2>1 DEF Carries
  <2>3. /\ UNCHANGED <<subscriptions, invoices, processed, faults, acked>>
        /\ Become(d, WithStatus("upsert", delivery[d].status)) \/ Goto(d, "record")
    BY <1>9 DEF FindPlan
  <2> QED BY <1>1, <1>6, <1>8, <2>1, <2>2, <2>3
<1>10. ASSUME FindLocal(d)
       PROVE  IInv'
  <2>1. /\ Carries(d) /\ x = EventOf(d) /\ delivery[d].pc = "local"
        /\ UNCHANGED <<subscriptions, invoices, processed, faults, acked>>
    BY <1>1, <1>10 DEF FindLocal, x
  <2>2. CASE x.sub \in DOMAIN subscriptions
    <3> DEFINE u == subscriptions[x.sub].user
               state == [pc |-> "invoice", user |-> u]
    <3>1. Become(d, state)
      BY <1>10, <2>1, <2>2 DEF FindLocal
    <3>2. u \in Users
      BY <2>2 DEF IInv, TypeOK, CheckoutTypeOK, SubscriptionRows
    <3>3. state \in DeliveryStates /\ state.pc = "invoice" /\ state.user = u
          /\ delivery'[d] = state
      BY <1>3, <3>1, <3>2 DEF DeliveryStates
    <3> HIDE DEF state
    <3>4. Carries(d)'
      BY <1>2, <2>1, <2>2, <3>3 DEF Carries
    <3> QED BY <1>1, <2>1, <3>1, <3>3, <3>4, Moves
  <2>3. CASE x.sub \notin DOMAIN subscriptions
    <3>1. Goto(d, "record")
      BY <1>10, <2>1, <2>3 DEF FindLocal
    <3> QED BY <1>1, <1>8, <2>1, <3>1
  <2> QED BY <2>2, <2>3
<1>11. ASSUME DeliveryFails(d)
       PROVE  IInv'
  <2>1. faults' \in Nat
    BY <1>1, <1>11 DEF DeliveryFails
  <2> QED BY <1>8, <1>11, <2>1 DEF DeliveryFails
<1> QED BY <1>4, <1>5, <1>7, <1>9, <1>10, <1>11

\* A step that writes subscriptions, in the names of their owners.
LEMMA RowWritten ==
    ASSUME IInv, Calm, NEW d \in Deliveries, d[1] \in DOMAIN events, Goto(d, "record"),
           UNCHANGED <<invoices, processed, acked, faults>>,
           DOMAIN subscriptions \subseteq DOMAIN subscriptions',
           DOMAIN subscriptions' \subseteq Subs, IsFiniteSet(DOMAIN subscriptions'),
           subscriptions' \in [DOMAIN subscriptions' -> SubscriptionRows],
           \A s \in DOMAIN subscriptions : subscriptions'[s].user = subscriptions[s].user,
           RowsShowStripeStates'
    PROVE  IInv'
<1>1. Carries(d)' /\ [pc |-> "record"] \in DeliveryStates
  BY AtRest
<1>2. DeliveriesCarry' /\ delivery' \in [Deliveries -> DeliveryStates]
  BY <1>1, OneDelivery DEF IInv, Goto
<1>3. TypeOK'
  BY <1>2 DEF IInv, TypeOK, StripeTypeOK, CheckoutTypeOK, WebhookTypeOK, Calm, stripeVars
<1>4. EventFacts' /\ ChangesAreEvents' /\ events' = events
  BY CalmKeeps DEF IInv
<1>5. InvoicesFollowStripe' /\ AcknowledgedIsRecorded'
  BY <1>4, InvoicesKept DEF IInv, AcknowledgedIsRecorded
<1> QED BY <1>2, <1>3, <1>4, <1>5 DEF IInv

\* The local name of a status is a local status.
LEMMA MapStatusType == \A status : MapStatus(status) \in LocalStatuses
  BY DEF MapStatus, LocalStatuses

\* syncSubscription writes the row of its event's subscription.
LEMMA SubscriptionUpserted ==
    ASSUME IInv, Calm, NEW d \in Deliveries, UpsertSubscription(d)
    PROVE  IInv'
<1> DEFINE s == EventOf(d).sub
           row == [user |-> EventOf(d).owner,
                   status |-> MapStatus(delivery[d].status),
                   order |-> IF s \in DOMAIN subscriptions THEN subscriptions[s].order
                             ELSE Cardinality(DOMAIN subscriptions)]
<1>1. /\ d[1] \in DOMAIN events /\ EventOf(d).type \in ChangeTypes
      /\ EventOf(d).owner \in Users /\ s \in Subs
      /\ delivery[d].status \in Had(s)
  BY DEF UpsertSubscription, IInv, DeliveriesCarry, Carries
<1>2. s \in DOMAIN stripe /\ EventOf(d).owner = stripe[s].owner
  BY <1>1 DEF IInv, EventFacts, EventOf
<1>3. DOMAIN subscriptions \subseteq Subs /\ subscriptions \in [DOMAIN subscriptions -> SubscriptionRows]
      /\ IsFiniteSet(DOMAIN subscriptions)
  BY DEF IInv, TypeOK, CheckoutTypeOK
<1>4. row \in SubscriptionRows
  <2>1. MapStatus(delivery[d].status) \in LocalStatuses
    BY MapStatusType
  <2>2. row.order \in Nat
    BY <1>3, FS_CardinalityType DEF SubscriptionRows
  <2> QED BY <1>1, <2>1, <2>2 DEF SubscriptionRows
<1>5. /\ row.user = stripe[s].owner
      /\ row.status = MapStatus(delivery[d].status)
  BY <1>2
<1>6. /\ subscriptions' = Insert(subscriptions, s, row) /\ Goto(d, "record")
      /\ UNCHANGED <<invoices, processed, acked, faults>>
  BY DEF UpsertSubscription
<1> HIDE DEF row, s
<1>7. /\ DOMAIN subscriptions' = DOMAIN subscriptions \cup {s}
      /\ subscriptions'[s] = row
      /\ \A t \in DOMAIN subscriptions \ {s} : subscriptions'[t] = subscriptions[t]
  BY <1>6 DEF Insert
<1>8. subscriptions' \in [DOMAIN subscriptions' -> SubscriptionRows]
  BY <1>1, <1>3, <1>4, <1>6, InsertType
<1>9. IsFiniteSet(DOMAIN subscriptions')
  BY <1>3, <1>7, FS_AddElement
<1>10. \A t \in DOMAIN subscriptions : subscriptions'[t].user = subscriptions[t].user
  <2>1. s \in DOMAIN subscriptions => subscriptions[s].user = stripe[s].owner
    BY DEF IInv, RowsShowStripeStates
  <2> QED BY <1>5, <1>7, <2>1
<1>11. RowsShowStripeStates'
  <2>1. stripe' = stripe /\ \A t : Had(t)' = Had(t)
    BY CalmKeeps DEF IInv
  <2>2. \A t \in DOMAIN subscriptions \ {s} :
           /\ t \in DOMAIN stripe
           /\ subscriptions'[t].user = stripe[t].owner
           /\ \E status \in Had(t) : subscriptions'[t].status = MapStatus(status)
    BY <1>7 DEF IInv, RowsShowStripeStates
  <2> QED BY <1>1, <1>2, <1>5, <1>7, <2>1, <2>2 DEF RowsShowStripeStates
<1> QED BY <1>1, <1>3, <1>6, <1>7, <1>8, <1>9, <1>10, <1>11, RowWritten

\* handleSubscriptionDeleted ends the row, which Stripe has ended.
LEMMA SubscriptionCanceled ==
    ASSUME IInv, Calm, NEW d \in Deliveries, CancelSubscription(d)
    PROVE  IInv'
<1> DEFINE s == EventOf(d).sub
<1>1. d[1] \in DOMAIN events /\ EventOf(d).type = "deleted"
  BY DEF CancelSubscription, IInv, DeliveriesCarry, Carries
<1>2. "canceled" \in Had(s)
  BY <1>1, HadIff DEF IInv, EventFacts, EventOf
<1>3. /\ DOMAIN subscriptions \subseteq Subs /\ IsFiniteSet(DOMAIN subscriptions)
      /\ subscriptions \in [DOMAIN subscriptions -> SubscriptionRows]
  BY DEF IInv, TypeOK, CheckoutTypeOK
<1>4. /\ Goto(d, "record") /\ UNCHANGED <<invoices, processed, acked, faults>>
      /\ DOMAIN subscriptions' = DOMAIN subscriptions
      /\ \A t \in DOMAIN subscriptions :
           \/ subscriptions'[t] = subscriptions[t]
           \/ t = s /\ subscriptions'[t] = [subscriptions[t] EXCEPT !.status = "CANCELED"]
      /\ subscriptions' = [t \in DOMAIN subscriptions' |-> subscriptions'[t]]
  BY DEF CancelSubscription
<1> HIDE DEF s
<1>5. ASSUME NEW t \in DOMAIN subscriptions
      PROVE  /\ subscriptions'[t] \in SubscriptionRows
             /\ subscriptions'[t].user = subscriptions[t].user
             /\ \/ subscriptions'[t].status = subscriptions[t].status
                \/ t = s /\ subscriptions'[t].status = "CANCELED"
  <2>1. subscriptions[t] \in SubscriptionRows
    BY <1>3
  <2> QED BY <1>4, <2>1 DEF SubscriptionRows, LocalStatuses
<1>6. RowsShowStripeStates'
  <2>1. stripe' = stripe /\ \A t : Had(t)' = Had(t)
    BY CalmKeeps DEF IInv
  <2>2. MapStatus("canceled") = "CANCELED"
    BY DEF MapStatus
  <2> QED BY <1>2, <1>4, <1>5, <2>1, <2>2 DEF IInv, RowsShowStripeStates
<1>7. subscriptions' \in [DOMAIN subscriptions' -> SubscriptionRows]
  BY <1>4, <1>5
<1> QED BY <1>1, <1>3, <1>4, <1>5, <1>6, <1>7, RowWritten

\* upsertInvoiceFromStripe writes the invoice of its event.
LEMMA InvoiceUpserted ==
    ASSUME IInv, Calm, NEW d \in Deliveries, UpsertInvoice(d)
    PROVE  IInv'
<1> DEFINE x == EventOf(d)
           i == x.invoice
           status == IF x.type = "paid" THEN "PAID" ELSE "OPEN"
           row == IF i \in DOMAIN invoices THEN [invoices[i] EXCEPT !.status = status]
                  ELSE [sub |-> x.sub, user |-> delivery[d].user, status |-> status]
<1>1. /\ d[1] \in DOMAIN events /\ x.type \in InvoiceTypes /\ x.sub \in Subs
      /\ x.sub \in DOMAIN subscriptions
      /\ delivery[d].user = subscriptions[x.sub].user
  BY DEF UpsertInvoice, IInv, DeliveriesCarry, Carries
<1>2. x \in EventRows
  BY <1>1 DEF IInv, TypeOK, StripeTypeOK, EventOf
<1>3. i # None /\ i \in Invoices
  BY <1>1, <1>2 DEF EventRows, IInv, EventFacts, EventOf
<1>4. events' = events /\ UNCHANGED <<subscriptions, processed, acked, faults>>
  BY CalmKeeps DEF IInv, UpsertInvoice
<1>5. /\ DOMAIN invoices \subseteq Invoices /\ invoices \in [DOMAIN invoices -> InvoiceRows]
      /\ subscriptions[x.sub].user \in Users
  BY <1>1 DEF IInv, TypeOK, CheckoutTypeOK, WebhookTypeOK, SubscriptionRows
<1>6. /\ row.sub = x.sub /\ row.user = subscriptions[x.sub].user
      /\ row.status = status /\ row \in InvoiceRows
  <2>1. CASE i \in DOMAIN invoices
    <3>1. /\ invoices[i].sub \in DOMAIN subscriptions
          /\ invoices[i].user = subscriptions[invoices[i].sub].user
          /\ \E e \in DOMAIN events :
               events[e].invoice = i /\ events[e].sub = invoices[i].sub
      BY <2>1 DEF IInv, InvoicesFollowStripe
    <3>2. invoices[i].sub = x.sub
      BY <1>1, <1>3, <3>1 DEF IInv, EventFacts, EventOf
    <3>3. invoices[i] \in InvoiceRows
      BY <1>5, <2>1
    <3> QED BY <2>1, <3>1, <3>2, <3>3 DEF InvoiceRows
  <2>2. CASE i \notin DOMAIN invoices
    BY <1>1, <1>5, <2>2 DEF InvoiceRows
  <2> QED BY <2>1, <2>2
<1>7. invoices' = Insert(invoices, i, row) /\ Goto(d, "record")
  BY DEF UpsertInvoice
<1>8. status = (IF x.type = "paid" THEN "PAID" ELSE "OPEN")
  OBVIOUS
<1> HIDE DEF row, status
<1>9. /\ DOMAIN invoices' = DOMAIN invoices \cup {i} /\ invoices'[i] = row
      /\ \A j \in DOMAIN invoices \ {i} : invoices'[j] = invoices[j]
  BY <1>7 DEF Insert
<1>10. DOMAIN invoices' \subseteq Invoices /\ invoices' \in [DOMAIN invoices' -> InvoiceRows]
  BY <1>3, <1>5, <1>6, <1>7, InsertType
<1>11. InvoicesFollowStripe'
  <2>1. \A j \in DOMAIN invoices \ {i} :
          /\ invoices'[j].sub \in DOMAIN subscriptions
          /\ invoices'[j].user = subscriptions[invoices'[j].sub].user
          /\ \E e \in DOMAIN events :
               /\ events[e].invoice = j /\ events[e].sub = invoices'[j].sub
               /\ invoices'[j].status = IF events[e].type = "paid" THEN "PAID" ELSE "OPEN"
    BY <1>9 DEF IInv, InvoicesFollowStripe
  <2>2. \E e \in DOMAIN events :
          /\ events[e].invoice = i /\ events[e].sub = invoices'[i].sub
          /\ invoices'[i].status = IF events[e].type = "paid" THEN "PAID" ELSE "OPEN"
    BY <1>1, <1>6, <1>8, <1>9 DEF EventOf
  <2> QED BY <1>1, <1>4, <1>6, <1>9, <2>1, <2>2 DEF InvoicesFollowStripe
<1>12. DeliveriesCarry' /\ delivery' \in [Deliveries -> DeliveryStates]
  <2>1. Carries(d)' /\ [pc |-> "record"] \in DeliveryStates
    BY <1>1, <1>7, AtRest
  <2> QED BY <1>4, <1>7, <2>1, OneDelivery DEF IInv, Goto
<1>13. TypeOK'
  BY <1>4, <1>10, <1>12 DEF IInv, TypeOK, StripeTypeOK, CheckoutTypeOK, WebhookTypeOK,
                            Calm, stripeVars
<1>14. RowsShowStripeStates'
  <2>1. stripe' = stripe /\ \A t : Had(t)' = Had(t)
    BY CalmKeeps DEF IInv
  <2> QED BY <1>4, <2>1 DEF IInv, RowsShowStripeStates
<1>15. EventFacts' /\ ChangesAreEvents'
  BY CalmKeeps DEF IInv
<1> QED BY <1>4, <1>11, <1>12, <1>13, <1>14, <1>15 DEF IInv, AcknowledgedIsRecorded

\* recordEvent: what is answered with 2xx is on record.
LEMMA EventRecorded ==
    ASSUME IInv, Calm, NEW d \in Deliveries, RecordEvent(d)
    PROVE  IInv'
<1>1. d[1] \in DOMAIN events /\ faults \in Nat /\ events' = events
  BY CalmKeeps DEF RecordEvent, IInv, DeliveriesCarry, Carries, TypeOK, WebhookTypeOK
<1> DEFINE row == [object |-> ObjectId(EventOf(d)), created |-> EventOf(d).created]
<1>2. row \in EventRecords
  <2>1. events[d[1]] \in EventRows
    BY <1>1 DEF IInv, TypeOK, StripeTypeOK
  <2> QED BY <2>1 DEF EventRecords, ObjectId, EventOf, EventRows
<1>3. /\ \/ processed' = processed /\ d[1] \in DOMAIN processed
         \/ processed' = Insert(processed, d[1], row)
      /\ Goto(d, "idle") /\ UNCHANGED <<subscriptions, invoices>>
      /\ acked' \subseteq acked \cup {d[1]}
      /\ faults' \in Nat
  BY <1>1 DEF RecordEvent
<1> HIDE DEF row
<1>4. /\ DOMAIN processed \subseteq DOMAIN events
      /\ processed \in [DOMAIN processed -> EventRecords]
      /\ acked \subseteq DOMAIN processed
  BY DEF IInv, TypeOK, WebhookTypeOK, AcknowledgedIsRecorded
<1>5. /\ DOMAIN processed' = DOMAIN processed \cup {d[1]}
      /\ processed' \in [DOMAIN processed' -> EventRecords]
  <2>1. CASE processed' = processed /\ d[1] \in DOMAIN processed
    BY <1>4, <2>1
  <2>2. CASE processed' = Insert(processed, d[1], row)
    BY <1>1, <1>2, <1>4, <2>2, InsertType
  <2> QED BY <1>3, <2>1, <2>2
<1>6. acked' \subseteq DOMAIN processed' /\ DOMAIN processed' \subseteq DOMAIN events'
  BY <1>1, <1>3, <1>4, <1>5
<1>7. DeliveriesCarry' /\ delivery' \in [Deliveries -> DeliveryStates]
  <2>1. Carries(d)' /\ [pc |-> "idle"] \in DeliveryStates
    BY <1>1, <1>3, AtRest
  <2> QED BY <1>3, <2>1, OneDelivery DEF IInv, Goto
<1>8. TypeOK'
  BY <1>3, <1>5, <1>6, <1>7 DEF IInv, TypeOK, StripeTypeOK, CheckoutTypeOK,
                                WebhookTypeOK, Calm, stripeVars
<1>9. RowsShowStripeStates' /\ InvoicesFollowStripe'
  BY <1>3, RowsAlone DEF IInv
<1>10. EventFacts' /\ ChangesAreEvents'
  BY CalmKeeps DEF IInv
<1> QED BY <1>3, <1>6, <1>7, <1>8, <1>9, <1>10 DEF IInv, AcknowledgedIsRecorded

-----------------------------------------------------------------------------
\* While the webhook rests, the others only add to what it relies on.
LEMMA OthersKeep ==
    ASSUME IInv, Grows, UNCHANGED <<subscriptions, webhookVars>>,
           StripeTypeOK', CheckoutTypeOK', EventFacts', ChangesAreEvents'
    PROVE  IInv'
<1>1. /\ DOMAIN events \subseteq DOMAIN events'
      /\ \A e \in DOMAIN events : events'[e] = events[e]
      /\ \A s : Had(s) \subseteq Had(s)'
  BY HadGrows DEF Grows
<1>2. TypeOK'
  BY <1>1 DEF IInv, TypeOK, WebhookTypeOK, webhookVars
<1>3. ASSUME NEW d \in Deliveries, delivery'[d].pc # "idle"
      PROVE  Carries(d)'
  <2>1. Carries(d) /\ d[1] \in DOMAIN events
    BY <1>3 DEF IInv, DeliveriesCarry, Carries, webhookVars
  <2>2. EventOf(d)' = EventOf(d)
    BY <1>1, <2>1 DEF EventOf
  <2> QED BY <1>1, <2>1, <2>2 DEF Carries, webhookVars
<1>4. RowsShowStripeStates'
  BY <1>1 DEF Grows, IInv, RowsShowStripeStates, webhookVars
<1>5. InvoicesFollowStripe'
  BY <1>1 DEF IInv, InvoicesFollowStripe, webhookVars
<1>6. AcknowledgedIsRecorded'
  BY DEF IInv, AcknowledgedIsRecorded, webhookVars
<1>7. IsFiniteSet(DOMAIN subscriptions)'
  BY DEF IInv
<1> QED BY <1>2, <1>3, <1>4, <1>5, <1>6, <1>7 DEF IInv, DeliveriesCarry

\* The empty tables satisfy the invariant.
LEMMA InvariantInit == Init => IInv
<1> SUFFICES ASSUME Init PROVE IInv
  OBVIOUS
<1> USE DEF Init, StripeInit, CheckoutInit, WebhookInit
<1>1. DOMAIN Empty = {} /\ \A S : Empty \in [{} -> S]
  BY DEF Empty
<1>2. events \in Seq(EventRows) /\ DOMAIN events = {}
  OBVIOUS
<1>3. StripeTypeOK
  BY <1>1, <1>2 DEF StripeTypeOK
<1>4. CheckoutTypeOK
  BY <1>1 DEF CheckoutTypeOK, CheckoutStates
<1>5. WebhookTypeOK
  BY <1>1 DEF WebhookTypeOK, DeliveryStates
<1>6. EventFacts /\ ChangesAreEvents
  BY <1>1, <1>2 DEF EventFacts, ChangesAreEvents
<1>7. DeliveriesCarry
  BY DEF DeliveriesCarry
<1>8. AcknowledgedIsRecorded /\ RowsShowStripeStates /\ InvoicesFollowStripe
  BY <1>1 DEF AcknowledgedIsRecorded, RowsShowStripeStates, InvoicesFollowStripe
<1>9. IsFiniteSet(DOMAIN subscriptions)
  BY <1>1, FS_EmptySet
<1> QED BY <1>3, <1>4, <1>5, <1>6, <1>7, <1>8, <1>9 DEF IInv, TypeOK

\* Every step preserves the invariant.
LEMMA InvariantStep == IInv /\ [Next]_vars => IInv'
<1> SUFFICES ASSUME IInv, [Next]_vars PROVE IInv'
  OBVIOUS
<1>1. CASE StripeNext /\ UNCHANGED <<checkoutVars, webhookVars>>
  <2>1. Grows /\ EventFacts' /\ ChangesAreEvents' /\ StripeTypeOK'
    BY <1>1, StripeFacts, TypeOfStripe DEF IInv, TypeOK
  <2>2. CheckoutTypeOK' /\ UNCHANGED <<subscriptions, webhookVars>>
    BY <1>1 DEF IInv, TypeOK, CheckoutTypeOK, checkoutVars
  <2> QED BY <2>1, <2>2, OthersKeep
<1>2. CASE CheckoutNext /\ UNCHANGED webhookVars
  <2>1. StripeTypeOK' /\ CheckoutTypeOK'
    BY <1>2, TypeOfCheckout DEF IInv, TypeOK
  <2>2. UNCHANGED <<subscriptions, stripe, events>>
    BY <1>2 DEF CheckoutNext, CreatePlan, UpdatePlan, FindCheckoutPlan, CheckCurrent,
                CreateSession, CheckoutFails, stripeVars
  <2>3. Grows /\ EventFacts' /\ ChangesAreEvents'
    BY <2>2 DEF Grows, IInv, EventFacts, ChangesAreEvents, Had
  <2> QED BY <1>2, <2>1, <2>2, <2>3, OthersKeep
<1>3. CASE WebhookNext /\ UNCHANGED <<stripeVars, plans, checkout>>
  <2>1. Calm
    BY <1>3 DEF Calm
  <2>2. PICK d \in Deliveries : CheckProcessed(d) \/ ServeDelivery(d) \/ DeliveryFails(d)
    BY <1>3 DEF WebhookNext
  <2> QED BY <2>1, <2>2, ReadingSteps, SubscriptionUpserted, SubscriptionCanceled,
             InvoiceUpserted, EventRecorded DEF ServeDelivery
<1>4. CASE Crash
  <2>1. /\ UNCHANGED <<stripeVars, plans, subscriptions, invoices, processed, acked>>
        /\ faults' \in Nat
        /\ delivery' = [d \in Deliveries |-> [pc |-> "idle"]]
    BY <1>4 DEF Crash, WebhookCrash, IInv, TypeOK, WebhookTypeOK
  <2>2. checkout' \in [Subs -> CheckoutStates]
    BY <1>4 DEF Crash, CheckoutCrash, CheckoutStates, IInv, TypeOK, CheckoutTypeOK
  <2>3. TypeOK'
    <3>1. \A d \in Deliveries : [pc |-> "idle"] \in DeliveryStates
      BY DEF DeliveryStates
    <3> QED BY <2>1, <2>2, <3>1 DEF IInv, TypeOK, StripeTypeOK, CheckoutTypeOK,
                                    WebhookTypeOK, stripeVars
  <2>4. DeliveriesCarry'
    BY <2>1 DEF DeliveriesCarry
  <2>5. EventFacts' /\ ChangesAreEvents' /\ \A s : Had(s)' = Had(s)
    BY <2>1 DEF IInv, EventFacts, ChangesAreEvents, Had, stripeVars
  <2>6. AcknowledgedIsRecorded' /\ RowsShowStripeStates' /\ InvoicesFollowStripe'
    BY <2>1, <2>5 DEF IInv, AcknowledgedIsRecorded, RowsShowStripeStates,
                      InvoicesFollowStripe, stripeVars
  <2>7. IsFiniteSet(DOMAIN subscriptions)'
    BY <2>1 DEF IInv
  <2> QED BY <2>3, <2>4, <2>5, <2>6, <2>7 DEF IInv
<1>5. CASE UNCHANGED vars
  BY <1>5 DEF vars, checkoutVars, webhookVars, stripeVars, IInv, TypeOK, StripeTypeOK,
              CheckoutTypeOK, WebhookTypeOK, EventFacts, ChangesAreEvents, Had,
              DeliveriesCarry, Carries, EventOf, AcknowledgedIsRecorded,
              RowsShowStripeStates, InvoicesFollowStripe
<1> QED BY <1>1, <1>2, <1>3, <1>4, <1>5 DEF Next

-----------------------------------------------------------------------------
\* The invariant holds in every reachable state.
THEOREM BillingInvariant == Spec => []IInv
  BY InvariantInit, InvariantStep, PTL DEF Spec

\* The tables, the requests and the deliveries keep their types.
THEOREM BillingTypeCorrect == Spec => []TypeOK
<1>1. IInv => TypeOK
  BY DEF IInv
<1> QED BY <1>1, BillingInvariant, PTL

\* handleWebhook answers 2xx only for events on record, whatever overlaps, fails
\* or restarts.
THEOREM AnsweredMeansRecorded == Spec => []AcknowledgedIsRecorded
<1>1. IInv => AcknowledgedIsRecorded
  BY DEF IInv
<1> QED BY <1>1, BillingInvariant, PTL

\* syncSubscription and handleSubscriptionDeleted leave each row in the owner's
\* name and in a state its subscription has had at Stripe.
THEOREM RowsAreStripes == Spec => []RowsShowStripeStates
<1>1. IInv => RowsShowStripeStates
  BY DEF IInv
<1> QED BY <1>1, BillingInvariant, PTL

\* upsertInvoiceFromStripe gives each invoice the subscription, the user and the
\* status of an event of Stripe's.
THEOREM InvoicesAreStripes == Spec => []InvoicesFollowStripe
<1>1. IInv => InvoicesFollowStripe
  BY DEF IInv
<1> QED BY <1>1, BillingInvariant, PTL

-----------------------------------------------------------------------------
(***************************************************************************)
(* When the newest event does win.  NewestEventWins is no invariant of the *)
(* code; it is one if no two deliveries of a subscription are served at    *)
(* once and no plan gives up its price.  Without either, it is not.        *)
(***************************************************************************)

OneAtATime ==
    \A c, d \in Deliveries :
        /\ delivery[c].pc # "idle" /\ delivery[d].pc # "idle"
        /\ EventOf(c).sub = EventOf(d).sub /\ EventOf(c).sub # None
        => c = d

PricesStay == DOMAIN plans \subseteq DOMAIN plans'

IsChange(e) == events[e].type \in {"updated", "deleted"}

StrictlyNewest(e) ==
    \A x \in DOMAIN events \ {e} :
        events[x].sub = events[e].sub => events[x].created < events[e].created

\* The row, if there is one, shows what the event said.
Shown(e) ==
    events[e].sub \in DOMAIN subscriptions =>
        subscriptions[events[e].sub].status = MapStatus(events[e].status)

\* A delivery about a subscription: its event is not on record; what it is to
\* write is what the event says; it comes to record a change that has no later
\* one with the change written; and it writes nothing when a later one is on
\* record.
Busy(d) == delivery[d].pc # "idle" /\ EventOf(d).sub # None

InTurn(d) ==
    Busy(d) =>
        /\ d[1] \notin DOMAIN processed
        /\ delivery[d].pc = "retrieve" => ~IsChange(d[1])
        /\ delivery[d].pc = "upsert" => PriceOf[EventOf(d).sub] \in DOMAIN plans
        /\ delivery[d].pc \in {"plan", "upsert"} /\ IsChange(d[1]) =>
             delivery[d].status = EventOf(d).status
        /\ delivery[d].pc = "record" /\ IsChange(d[1]) /\ StrictlyNewest(d[1]) =>
             Shown(d[1])
        /\ \A e \in DOMAIN processed :
             StrictlyNewest(e) /\ events[e].sub = EventOf(d).sub =>
                 delivery[d].pc \in {"stale", "record"}

\* The records are those of their events.
OnRecord ==
    \A e \in DOMAIN processed :
        processed[e].object = events[e].sub /\ processed[e].created = events[e].created

PricesKnown == \A s \in DOMAIN subscriptions : PriceOf[s] \in DOMAIN plans

NewestShown ==
    \A e \in DOMAIN processed : IsChange(e) /\ StrictlyNewest(e) => Shown(e)

Orderly ==
    /\ OnRecord /\ PricesKnown /\ NewestShown
    /\ \A d \in Deliveries : InTurn(d)

\* What stays so when Stripe adds to its log and plans come or change.
LEMMA OrderlyKept ==
    ASSUME IInv, Orderly, Grows, PricesStay, UNCHANGED <<subscriptions, processed>>,
           NEW d \in Deliveries, d[1] \in DOMAIN events, UNCHANGED delivery[d]
    PROVE  InTurn(d)'
<1>1. \A e \in DOMAIN events : e \in DOMAIN events' /\ events'[e] = events[e]
  BY DEF Grows
<1>2. ASSUME NEW e \in DOMAIN events, StrictlyNewest(e)'
      PROVE  StrictlyNewest(e)
  BY <1>1, <1>2 DEF StrictlyNewest
<1>3. DOMAIN processed \subseteq DOMAIN events
  BY DEF IInv, TypeOK, WebhookTypeOK
<1>4. EventOf(d)' = EventOf(d) /\ (IsChange(d[1])' <=> IsChange(d[1]))
  BY <1>1 DEF EventOf, IsChange
<1>5. Shown(d[1])' <=> Shown(d[1])
  BY <1>1 DEF Shown
<1>6. InTurn(d)
  BY DEF Orderly
<1> QED BY <1>1, <1>2, <1>3, <1>4, <1>5, <1>6 DEF InTurn, Busy, PricesStay

LEMMA TablesKept ==
    ASSUME IInv, Orderly, Grows, PricesStay, UNCHANGED <<subscriptions, processed>>
    PROVE  OnRecord' /\ PricesKnown' /\ NewestShown'
<1>1. \A e \in DOMAIN events : e \in DOMAIN events' /\ events'[e] = events[e]
  BY DEF Grows
<1>2. DOMAIN processed \subseteq DOMAIN events
  BY DEF IInv, TypeOK, WebhookTypeOK
<1>3. OnRecord' /\ PricesKnown'
  BY <1>1, <1>2 DEF Orderly, OnRecord, PricesKnown, PricesStay
<1>4. ASSUME NEW e \in DOMAIN processed', IsChange(e)', StrictlyNewest(e)'
      PROVE  Shown(e)'
  <2>1. e \in DOMAIN processed /\ e \in DOMAIN events /\ events'[e] = events[e]
    BY <1>1, <1>2
  <2>2. IsChange(e) /\ StrictlyNewest(e)
    BY <1>1, <1>4, <2>1 DEF IsChange, StrictlyNewest
  <2>3. Shown(e)
    BY <2>1, <2>2 DEF Orderly, NewestShown
  <2> QED BY <2>1, <2>3 DEF Shown
<1> QED BY <1>3, <1>4 DEF NewestShown

\* Calm steps leave the log alone, so they let it grow.
LEMMA CalmGrows == Calm => Grows /\ PricesStay /\ UNCHANGED <<events, stripe, plans>>
  BY DEF Calm, Grows, PricesStay, stripeVars

\* A delivery that a step does not move.
LEMMA OthersInTurn ==
    ASSUME IInv, Orderly, Grows, PricesStay, UNCHANGED <<subscriptions, processed>>,
           NEW c \in Deliveries, UNCHANGED delivery[c]
    PROVE  InTurn(c)'
<1>1. CASE delivery[c].pc = "idle"
  BY <1>1 DEF InTurn, Busy
<1>2. CASE delivery[c].pc # "idle"
  <2>1. c[1] \in DOMAIN events
    BY <1>2 DEF IInv, DeliveriesCarry, Carries
  <2> QED BY <2>1, OrderlyKept
<1> QED BY <1>1, <1>2

\* A stale event is not the newest, and one that is not stale has no newest one
\* before it on record.
LEMMA StaleIsOlder ==
    ASSUME IInv, Orderly, NEW d \in Deliveries, d[1] \in DOMAIN events,
           d[1] \notin DOMAIN processed
    PROVE  /\ IsStale(EventOf(d)) => ~StrictlyNewest(d[1])
           /\ ~IsStale(EventOf(d)) =>
                \A e \in DOMAIN processed :
                    ~(StrictlyNewest(e) /\ events[e].sub = EventOf(d).sub)
<1>1. /\ DOMAIN processed \subseteq DOMAIN events
      /\ \A e \in DOMAIN events : events[e].created \in Nat
  <2>1. DOMAIN processed \subseteq DOMAIN events /\ events \in Seq(EventRows)
    BY DEF IInv, TypeOK, WebhookTypeOK, StripeTypeOK
  <2>2. \A e \in DOMAIN events : events[e] \in EventRows
    BY <2>1
  <2> QED BY <2>1, <2>2 DEF EventRows
<1>2. \A e \in DOMAIN processed :
        processed[e].object = events[e].sub /\ processed[e].created = events[e].created
  BY DEF Orderly, OnRecord
<1>3. ASSUME NEW e \in DOMAIN processed, processed[e].object = EventOf(d).sub,
             processed[e].created >= EventOf(d).created
      PROVE  ~StrictlyNewest(d[1])
  <2>1. e \in DOMAIN events \ {d[1]} /\ events[e].sub = events[d[1]].sub
    BY <1>1, <1>2, <1>3 DEF EventOf
  <2>2. ~(events[e].created < events[d[1]].created)
    BY <1>1, <1>2, <1>3 DEF EventOf
  <2> QED BY <2>1, <2>2 DEF StrictlyNewest
<1>4. ASSUME NEW e \in DOMAIN processed, StrictlyNewest(e),
             events[e].sub = EventOf(d).sub
      PROVE  IsStale(EventOf(d))
  <2>1. events[d[1]].created < events[e].created
    BY <1>4 DEF StrictlyNewest, EventOf
  <2>2. processed[e].created >= EventOf(d).created
    BY <1>1, <1>2, <2>1 DEF EventOf
  <2> QED BY <1>2, <1>4, <2>2 DEF IsStale, ObjectId
<1> QED BY <1>3, <1>4 DEF IsStale, ObjectId

\* Where the switch sends a delivery about a subscription.
LEMMA Switched ==
    ASSUME IInv, NEW d \in Deliveries, d[1] \in DOMAIN events, EventOf(d).sub # None,
           Dispatch(d)
    PROVE  \/ delivery'[d] = [pc |-> "record"] /\ (IsChange(d[1]) => Shown(d[1]))
           \/ delivery'[d] = [pc |-> "local"]
           \/ delivery'[d] = [pc |-> "cancel"]
           \/ delivery'[d] = [pc |-> "retrieve"] /\ ~IsChange(d[1])
           \/ delivery'[d] = [pc |-> "plan", status |-> EventOf(d).status]
<1>1. delivery \in [Deliveries -> DeliveryStates] /\ None \notin Users
  BY StripeAssumption DEF IInv, TypeOK, WebhookTypeOK
<1>2. IsChange(d[1]) /\ EventOf(d).owner = None => Shown(d[1])
  <2>1. SUFFICES ASSUME IsChange(d[1]), EventOf(d).owner = None,
                        EventOf(d).sub \in DOMAIN subscriptions
                 PROVE  FALSE
    BY DEF Shown, EventOf
  <2> DEFINE s == EventOf(d).sub
  <2>2. stripe[s].owner = None
    BY <2>1 DEF IInv, EventFacts, IsChange, ChangeTypes, EventOf
  <2>3. subscriptions[s].user = stripe[s].owner /\ subscriptions[s].user \in Users
    BY <2>1 DEF IInv, RowsShowStripeStates, TypeOK, CheckoutTypeOK, SubscriptionRows
  <2> QED BY <1>1, <2>2, <2>3
<1>3. EventOf(d) = events[d[1]]
  BY DEF EventOf
<1> QED BY <1>1, <1>2, <1>3 DEF Dispatch, Goto, Become, WithStatus, IsChange

\* A delivery that has moved without writing a subscription or a record is in
\* turn when this holds of where it has come to.
LEMMA MovedInTurn ==
    ASSUME IInv, Orderly, Calm, UNCHANGED <<subscriptions, processed>>,
           NEW d \in Deliveries, d[1] \notin DOMAIN processed,
           delivery'[d].pc = "retrieve" => ~IsChange(d[1]),
           delivery'[d].pc = "upsert" => PriceOf[EventOf(d).sub] \in DOMAIN plans,
           delivery'[d].pc \in {"plan", "upsert"} /\ IsChange(d[1]) =>
               delivery'[d].status = EventOf(d).status,
           delivery'[d].pc = "record" /\ IsChange(d[1]) /\ StrictlyNewest(d[1]) =>
               Shown(d[1]),
           \A e \in DOMAIN processed :
               StrictlyNewest(e) /\ events[e].sub = EventOf(d).sub =>
                   delivery'[d].pc \in {"stale", "record"}
    PROVE  InTurn(d)'
<1>1. /\ events' = events /\ plans' = plans
      /\ processed' = processed /\ subscriptions' = subscriptions
  BY CalmGrows
<1>2. /\ EventOf(d)' = EventOf(d) /\ (IsChange(d[1])' <=> IsChange(d[1]))
      /\ \A e : StrictlyNewest(e)' <=> StrictlyNewest(e)
      /\ Shown(d[1])' <=> Shown(d[1])
  BY <1>1 DEF EventOf, IsChange, StrictlyNewest, Shown
<1> QED BY <1>1, <1>2 DEF InTurn

LEMMA ReaderInTurn ==
    ASSUME IInv, Orderly, Calm, UNCHANGED <<subscriptions, processed>>,
           NEW d \in Deliveries,
           \/ CheckProcessed(d) \/ CheckStale(d) \/ Retrieve(d) \/ FindPlan(d)
           \/ FindLocal(d) \/ UpsertInvoice(d) \/ DeliveryFails(d)
    PROVE  InTurn(d)'
<1>1. /\ events' = events /\ EventOf(d)' = EventOf(d)
      /\ delivery \in [Deliveries -> DeliveryStates] /\ InTurn(d)
  BY CalmGrows DEF EventOf, IInv, TypeOK, WebhookTypeOK, Orderly
<1>2. CASE delivery'[d].pc = "idle" \/ EventOf(d).sub = None
  BY <1>1, <1>2 DEF InTurn, Busy
<1>3. CASE EventOf(d).sub # None /\ delivery'[d].pc # "idle"
  <2>1. delivery[d].pc # "idle" =>
          /\ d[1] \in DOMAIN events /\ d[1] \notin DOMAIN processed /\ Carries(d)
          /\ \A e \in DOMAIN processed :
               StrictlyNewest(e) /\ events[e].sub = EventOf(d).sub =>
                   delivery[d].pc \in {"stale", "record"}
    BY <1>1, <1>3 DEF InTurn, Busy, IInv, DeliveriesCarry, Carries
  <2>2. CASE CheckProcessed(d)
    <3>1. CASE d[1] \in DOMAIN processed
      <4>1. UNCHANGED delivery[d]
        BY <2>2, <3>1 DEF CheckProcessed
      <4> QED BY <4>1, CalmGrows, OthersInTurn
    <3>2. CASE d[1] \notin DOMAIN processed
      <4>1. delivery'[d] = [pc |-> "stale"]
        BY <1>1, <1>3, <2>2, <3>2 DEF CheckProcessed, ObjectId, Goto, Become
      <4> QED BY <3>2, <4>1, MovedInTurn
    <3> QED BY <3>1, <3>2
  <2>3. CASE CheckStale(d)
    <3>1. d[1] \in DOMAIN events /\ d[1] \notin DOMAIN processed
      BY <2>1, <2>3 DEF CheckStale
    <3>2. CASE IsStale(EventOf(d))
      <4>1. delivery'[d] = [pc |-> "record"] /\ ~StrictlyNewest(d[1])
        BY <1>1, <2>3, <3>1, <3>2, StaleIsOlder DEF CheckStale, Goto, Become
      <4> QED BY <3>1, <4>1, MovedInTurn
    <3>3. CASE ~IsStale(EventOf(d))
      <4>1. \A e \in DOMAIN processed :
              ~(StrictlyNewest(e) /\ events[e].sub = EventOf(d).sub)
        BY <3>1, <3>3, StaleIsOlder
      <4>2. \/ delivery'[d] = [pc |-> "record"] /\ (IsChange(d[1]) => Shown(d[1]))
            \/ delivery'[d] = [pc |-> "local"]
            \/ delivery'[d] = [pc |-> "cancel"]
            \/ delivery'[d] = [pc |-> "retrieve"] /\ ~IsChange(d[1])
            \/ delivery'[d] = [pc |-> "plan", status |-> EventOf(d).status]
        BY <1>3, <2>3, <3>1, <3>3, Switched DEF CheckStale
      <4> QED BY <3>1, <4>1, <4>2, MovedInTurn
    <3> QED BY <3>2, <3>3
  <2>4. CASE Retrieve(d)
    <3>1. /\ d[1] \notin DOMAIN processed /\ ~IsChange(d[1])
          /\ \A e \in DOMAIN processed :
               ~(StrictlyNewest(e) /\ events[e].sub = EventOf(d).sub)
      BY <1>1, <1>3, <2>1, <2>4 DEF Retrieve, InTurn, Busy
    <3>2. delivery'[d].pc = "plan"
      BY <1>1, <2>4 DEF Retrieve, Become, WithStatus
    <3> QED BY <3>1, <3>2, MovedInTurn
  <2>5. CASE FindPlan(d)
    <3>1. /\ d[1] \notin DOMAIN processed
          /\ IsChange(d[1]) => delivery[d].status = EventOf(d).status
          /\ \A e \in DOMAIN processed :
               ~(StrictlyNewest(e) /\ events[e].sub = EventOf(d).sub)
      BY <1>1, <1>3, <2>1, <2>5 DEF FindPlan, InTurn, Busy
    <3>2. CASE PriceOf[EventOf(d).sub] \in DOMAIN plans
      <4>1. delivery'[d] = [pc |-> "upsert", status |-> delivery[d].status]
        BY <1>1, <2>5, <3>2 DEF FindPlan, Become, WithStatus
      <4> QED BY <3>1, <3>2, <4>1, MovedInTurn
    <3>3. CASE PriceOf[EventOf(d).sub] \notin DOMAIN plans
      <4>1. delivery'[d] = [pc |-> "record"]
        BY <1>1, <2>5, <3>3 DEF FindPlan, Goto, Become
      <4>2. Shown(d[1])
        BY <3>3 DEF Shown, EventOf, Orderly, PricesKnown
      <4> QED BY <3>1, <4>1, <4>2, MovedInTurn
    <3> QED BY <3>2, <3>3
  <2>6. CASE FindLocal(d) \/ UpsertInvoice(d)
    <3>1. /\ d[1] \notin DOMAIN processed /\ EventOf(d).type \in InvoiceTypes
          /\ \A e \in DOMAIN processed :
               ~(StrictlyNewest(e) /\ events[e].sub = EventOf(d).sub)
      BY <2>1, <2>6 DEF FindLocal, UpsertInvoice, Carries
    <3>2. ~IsChange(d[1])
      BY <3>1 DEF IsChange, EventOf, InvoiceTypes
    <3>3. delivery'[d].pc \in {"invoice", "record"}
      BY <1>1, <2>6 DEF FindLocal, UpsertInvoice, Goto, Become
    <3> QED BY <3>1, <3>2, <3>3, MovedInTurn
  <2>7. CASE DeliveryFails(d)
    BY <1>1, <1>3, <2>7 DEF DeliveryFails, Goto, Become
  <2> QED BY <2>2, <2>3, <2>4, <2>5, <2>6, <2>7
<1> QED BY <1>2, <1>3

\* A write of the row of one subscription, of which no other delivery is served.
LEMMA WriterOrderly ==
    ASSUME IInv, Orderly, Calm, OneAtATime, UNCHANGED processed,
           NEW d \in Deliveries, Goto(d, "record"), EventOf(d).sub # None,
           delivery[d].pc \notin {"idle", "stale", "record"},
           \A t \in DOMAIN subscriptions' \ {EventOf(d).sub} :
               t \in DOMAIN subscriptions /\ subscriptions'[t] = subscriptions[t],
           EventOf(d).sub \in DOMAIN subscriptions' =>
               PriceOf[EventOf(d).sub] \in DOMAIN plans,
           IsChange(d[1]) => Shown(d[1])'
    PROVE  Orderly'
<1> DEFINE s == EventOf(d).sub
<1>1. /\ events' = events /\ plans' = plans /\ processed' = processed
      /\ delivery \in [Deliveries -> DeliveryStates]
  BY CalmGrows DEF IInv, TypeOK, WebhookTypeOK
<1>2. /\ \A c \in Deliveries : EventOf(c)' = EventOf(c)
      /\ \A e : StrictlyNewest(e)' <=> StrictlyNewest(e)
      /\ \A e : IsChange(e)' <=> IsChange(e)
  BY <1>1 DEF EventOf, IsChange, StrictlyNewest
<1>3. /\ delivery'[d].pc = "record"
      /\ \A c \in Deliveries \ {d} : delivery'[c] = delivery[c]
  BY <1>1 DEF Goto, Become
<1>4. ASSUME NEW e, events[e].sub # s, Shown(e)
      PROVE  Shown(e)'
  BY <1>1, <1>4 DEF Shown
<1>5. /\ d[1] \notin DOMAIN processed
      /\ \A e \in DOMAIN processed : StrictlyNewest(e) => events[e].sub # s
  BY DEF Orderly, InTurn, Busy
<1>6. OnRecord' /\ PricesKnown'
  BY <1>1 DEF Orderly, OnRecord, PricesKnown
<1>7. NewestShown'
  BY <1>1, <1>2, <1>4, <1>5 DEF Orderly, NewestShown
<1>8. ASSUME NEW c \in Deliveries
      PROVE  InTurn(c)'
  <2>1. CASE c = d
    BY <1>1, <1>2, <1>3, <1>5, <2>1 DEF InTurn
  <2>2. CASE c # d
    <3>1. SUFFICES ASSUME Busy(c) PROVE InTurn(c)'
      BY <1>2, <1>3, <2>2 DEF InTurn, Busy
    <3>2. events[c[1]].sub # s
      BY <2>2, <3>1 DEF OneAtATime, Busy, EventOf
    <3>3. Shown(c[1]) => Shown(c[1])'
      BY <1>4, <3>2
    <3>4. InTurn(c)
      BY DEF Orderly
    <3> QED BY <1>1, <1>2, <1>3, <2>2, <3>1, <3>3, <3>4 DEF InTurn
  <2> QED BY <2>1, <2>2
<1> QED BY <1>6, <1>7, <1>8 DEF Orderly

\* The two writes of a row show what the event says.
LEMMA RowsOrderly ==
    ASSUME IInv, Orderly, Calm, OneAtATime, NEW d \in Deliveries,
           UpsertSubscription(d) \/ CancelSubscription(d)
    PROVE  Orderly'
<1> DEFINE s == EventOf(d).sub
<1>1. /\ delivery[d].pc \in {"upsert", "cancel"} /\ Goto(d, "record")
      /\ processed' = processed /\ events' = events
  BY CalmGrows DEF UpsertSubscription, CancelSubscription
<1>2. /\ s \in Subs /\ s # None /\ EventOf(d).owner \in Users
      /\ EventOf(d) = events[d[1]] /\ d[1] \in DOMAIN events
      /\ EventOf(d).type \in ChangeTypes
      /\ delivery[d].pc = "cancel" => EventOf(d).type = "deleted"
  BY <1>1, StripeAssumption DEF IInv, DeliveriesCarry, Carries, EventOf
<1>3. InTurn(d) /\ Busy(d)
  BY <1>1, <1>2 DEF Orderly, Busy
<1>4. CASE UpsertSubscription(d)
  <2>1. delivery[d].pc = "upsert"
    BY <1>4 DEF UpsertSubscription
  <2>2. /\ DOMAIN subscriptions' = DOMAIN subscriptions \cup {s}
        /\ \A t \in DOMAIN subscriptions \ {s} : subscriptions'[t] = subscriptions[t]
        /\ subscriptions'[s].status = MapStatus(delivery[d].status)
    BY <1>4 DEF UpsertSubscription, Insert
  <2>3. PriceOf[s] \in DOMAIN plans
    BY <1>3, <2>1 DEF InTurn
  <2>4. IsChange(d[1]) => Shown(d[1])'
    BY <1>1, <1>2, <1>3, <2>1, <2>2 DEF InTurn, Shown
  <2> QED BY <1>1, <1>2, <2>1, <2>2, <2>3, <2>4, WriterOrderly
<1>5. CASE CancelSubscription(d)
  <2>1. delivery[d].pc = "cancel"
    BY <1>5 DEF CancelSubscription
  <2>2. /\ DOMAIN subscriptions' = DOMAIN subscriptions
        /\ \A t \in DOMAIN subscriptions \ {s} : subscriptions'[t] = subscriptions[t]
        /\ s \in DOMAIN subscriptions /\ subscriptions[s].user = EventOf(d).owner =>
             subscriptions'[s] = [subscriptions[s] EXCEPT !.status = "CANCELED"]
    BY <1>5 DEF CancelSubscription
  <2>3. s \in DOMAIN subscriptions =>
          /\ subscriptions[s].user = EventOf(d).owner
          /\ subscriptions[s] \in SubscriptionRows
    BY <1>2 DEF IInv, RowsShowStripeStates, EventFacts, TypeOK, CheckoutTypeOK
  <2>4. s \in DOMAIN subscriptions => subscriptions'[s].status = "CANCELED"
    BY <2>2, <2>3 DEF SubscriptionRows
  <2>5. MapStatus(EventOf(d).status) = "CANCELED"
    <3>1. EventOf(d).status = "canceled"
      BY <1>2, <2>1 DEF IInv, EventFacts
    <3> QED BY <3>1 DEF MapStatus
  <2>6. Shown(d[1])'
    BY <1>1, <1>2, <2>2, <2>4, <2>5 DEF Shown
  <2>7. s \in DOMAIN subscriptions' => PriceOf[s] \in DOMAIN plans
    BY <2>2 DEF Orderly, PricesKnown
  <2> QED BY <1>1, <1>2, <2>1, <2>2, <2>6, <2>7, WriterOrderly
<1> QED BY <1>4, <1>5 DEF UpsertSubscription, CancelSubscription

LEMMA RecordOrderly ==
    ASSUME IInv, Orderly, Calm, OneAtATime, NEW d \in Deliveries, RecordEvent(d)
    PROVE  Orderly'
<1>1. /\ events' = events /\ plans' = plans /\ subscriptions' = subscriptions
      /\ delivery \in [Deliveries -> DeliveryStates]
      /\ delivery[d].pc = "record" /\ d[1] \in DOMAIN events
  BY CalmGrows DEF RecordEvent, IInv, TypeOK, WebhookTypeOK, DeliveriesCarry, Carries
<1>2. /\ \A c \in Deliveries : EventOf(c)' = EventOf(c)
      /\ \A e : StrictlyNewest(e)' <=> StrictlyNewest(e)
      /\ \A e : IsChange(e)' <=> IsChange(e)
      /\ \A e : Shown(e)' <=> Shown(e)
  BY <1>1 DEF EventOf, IsChange, StrictlyNewest, Shown
<1>3. /\ delivery'[d].pc = "idle"
      /\ \A c \in Deliveries \ {d} : delivery'[c] = delivery[c]
  BY <1>1 DEF RecordEvent, Goto, Become
<1>4. /\ DOMAIN processed' = DOMAIN processed \cup {d[1]}
      /\ \A e \in DOMAIN processed : processed'[e] = processed[e]
      /\ d[1] \notin DOMAIN processed =>
           processed'[d[1]] = [object |-> events[d[1]].sub,
                               created |-> events[d[1]].created]
  BY DEF RecordEvent, Insert, ObjectId, EventOf
<1>5. OnRecord'
  BY <1>1, <1>4 DEF Orderly, OnRecord
<1>6. PricesKnown'
  BY <1>1 DEF Orderly, PricesKnown
<1>7. NewestShown'
  <2>1. ASSUME IsChange(d[1]), StrictlyNewest(d[1]), d[1] \notin DOMAIN processed
        PROVE  Shown(d[1])
    <3>1. events[d[1]].sub # None
      BY <1>1, <2>1, StripeAssumption
      DEF IInv, EventFacts, IsChange, ChangeTypes, TypeOK, StripeTypeOK
    <3>2. InTurn(d) /\ Busy(d)
      BY <1>1, <3>1 DEF Orderly, Busy, EventOf
    <3> QED BY <1>1, <2>1, <3>2 DEF InTurn
  <2> QED BY <1>2, <1>4, <2>1 DEF Orderly, NewestShown
<1>8. ASSUME NEW c \in Deliveries
      PROVE  InTurn(c)'
  <2>1. CASE c = d
    BY <1>3, <2>1 DEF InTurn, Busy
  <2>2. CASE c # d
    <3>1. SUFFICES ASSUME Busy(c) PROVE InTurn(c)'
      BY <1>2, <1>3, <2>2 DEF InTurn, Busy
    <3>2. c[1] # d[1] /\ events[d[1]].sub # EventOf(c).sub
      BY <1>1, <2>2, <3>1 DEF OneAtATime, Busy, EventOf
    <3>3. InTurn(c)
      BY DEF Orderly
    <3> QED BY <1>1, <1>2, <1>3, <1>4, <2>2, <3>1, <3>2, <3>3 DEF InTurn
  <2> QED BY <2>1, <2>2
<1> QED BY <1>5, <1>6, <1>7, <1>8 DEF Orderly

LEMMA OrderlyNext ==
    ASSUME IInv, Orderly, OneAtATime, [Next]_vars, [PricesStay]_plans
    PROVE  Orderly'
<1>1. PricesStay
  BY DEF PricesStay
<1>2. ASSUME Grows, UNCHANGED <<subscriptions, processed>>,
             \A c \in Deliveries : UNCHANGED delivery[c] \/ InTurn(c)'
      PROVE  Orderly'
  BY <1>1, <1>2, OthersInTurn, TablesKept DEF Orderly
<1>3. CASE StripeNext /\ UNCHANGED <<checkoutVars, webhookVars>>
  <2>1. Grows
    BY <1>3, StripeFacts DEF IInv, TypeOK
  <2> QED BY <1>2, <1>3, <2>1 DEF checkoutVars, webhookVars
<1>4. CASE CheckoutNext /\ UNCHANGED webhookVars
  <2>1. UNCHANGED <<subscriptions, stripe, events>>
    BY <1>4 DEF CheckoutNext, CreatePlan, UpdatePlan, FindCheckoutPlan, CheckCurrent,
                CreateSession, CheckoutFails, stripeVars
  <2> QED BY <1>2, <1>4, <2>1 DEF Grows, webhookVars
<1>5. CASE WebhookNext /\ UNCHANGED <<stripeVars, plans, checkout>>
  <2>1. Calm /\ Grows
    BY <1>5, CalmGrows DEF Calm
  <2>2. ASSUME NEW d \in Deliveries,
               \/ CheckProcessed(d) \/ CheckStale(d) \/ Retrieve(d) \/ FindPlan(d)
               \/ FindLocal(d) \/ UpsertInvoice(d) \/ DeliveryFails(d)
        PROVE  Orderly'
    <3>1. UNCHANGED <<subscriptions, processed>>
      BY <2>2 DEF CheckProcessed, CheckStale, Retrieve, FindPlan, FindLocal,
                  UpsertInvoice, DeliveryFails
    <3>2. \A c \in Deliveries \ {d} : UNCHANGED delivery[c]
      <4>1. delivery \in [Deliveries -> DeliveryStates]
        BY DEF IInv, TypeOK, WebhookTypeOK
      <4>2. delivery' = delivery \/ \E state : delivery' = [delivery EXCEPT ![d] = state]
        BY <2>2 DEF CheckProcessed, CheckStale, Retrieve, FindPlan, FindLocal,
                    UpsertInvoice, DeliveryFails, Dispatch, Goto, Become
      <4> QED BY <4>1, <4>2
    <3>3. InTurn(d)'
      BY <2>1, <2>2, <3>1, ReaderInTurn
    <3> QED BY <1>2, <2>1, <3>1, <3>2, <3>3
  <2> QED BY <1>5, <2>1, <2>2, RowsOrderly, RecordOrderly
          DEF WebhookNext, ServeDelivery
<1>6. CASE Crash
  <2>1. Grows /\ UNCHANGED <<subscriptions, processed>>
    BY <1>6 DEF Crash, Grows, stripeVars
  <2>2. \A c \in Deliveries : InTurn(c)'
    BY <1>6 DEF Crash, WebhookCrash, InTurn, Busy
  <2> QED BY <1>2, <2>1, <2>2
<1>7. CASE UNCHANGED vars
  BY <1>2, <1>7 DEF vars, stripeVars, checkoutVars, webhookVars, Grows
<1> QED BY <1>3, <1>4, <1>5, <1>6, <1>7 DEF Next

\* What the comment on WebhookEvent in the schema promises is kept by isStale,
\* the lookup and the write as long as deliveries of one subscription do not
\* overlap and a plan that has a price keeps it: then failed calls, restarts,
\* repeated and reordered deliveries do no harm.
THEOREM NewestWinsInTurn ==
    Spec /\ []OneAtATime /\ [][PricesStay]_plans => []NewestEventWins
<1>1. Init => Orderly
  BY DEF Init, WebhookInit, CheckoutInit, Empty, Orderly, OnRecord, PricesKnown,
         NewestShown, InTurn, Busy
<1>2. IInv /\ Orderly /\ OneAtATime /\ [Next]_vars /\ [PricesStay]_plans => Orderly'
  BY OrderlyNext
<1>3. IInv /\ Orderly => NewestEventWins
  BY DEF IInv, AcknowledgedIsRecorded, Orderly, NewestShown, NewestEventWins, Shown,
         IsChange, StrictlyNewest
<1> QED BY <1>1, <1>2, <1>3, BillingInvariant, PTL DEF Spec
===============================================================================
