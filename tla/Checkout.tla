------------------------------- MODULE Checkout -------------------------------
(***************************************************************************)
(* BillingService: plans, and checkout sessions opened at Stripe, one      *)
(* action per awaited call.  The billing portal only reads here; what a    *)
(* user does in it are changes of Stripe's subscriptions.  Redirect URLs   *)
(* and a Stripe client that is not configured refuse a request before it   *)
(* begins.                                                                 *)
(*                                                                         *)
(* createPlan and updatePlan are refused by the pipe before they get here  *)
(* (Accounts): CreatePlan and UpdatePlan are what the service does, or a   *)
(* seed or an operator by hand, to the plans that are there.               *)
(*                                                                         *)
(* A request is named by the session it is to open.  A plan is named by    *)
(* its Stripe price, which is unique; plans without one, names and         *)
(* features are left out.                                                  *)
(***************************************************************************)
EXTENDS Stripe, FiniteSets

CONSTANTS
    Prices,
    PriceOf,    \* the price each subscription of Stripe's is for
    MaxPlans    \* bound: the plans that are made

ASSUME CheckoutAssumption == PriceOf \in [Subs -> Prices]

VARIABLES
    plans,          \* the Plan table: isActive, by price
    subscriptions,  \* the Subscription table, by stripeSubscriptionId
    checkout        \* where each request is

checkoutVars == <<plans, subscriptions, checkout>>

LocalStatuses == {"ACTIVE", "PAST_DUE", "CANCELED", "INCOMPLETE",
                  "INCOMPLETE_EXPIRED", "TRIALING"}

\* "order" is the row's place by createdAt.
SubscriptionRows == [user : Users, status : LocalStatuses, order : Nat]

CheckoutStates ==
    [pc : {"new", "refused", "failed"}]
      \cup [pc : {"current", "create", "opened"}, user : Users]

CheckoutTypeOK ==
    /\ DOMAIN plans \subseteq Prices /\ plans \in [DOMAIN plans -> BOOLEAN]
    /\ DOMAIN subscriptions \subseteq Subs
    /\ subscriptions \in [DOMAIN subscriptions -> SubscriptionRows]
    /\ checkout \in [Subs -> CheckoutStates]

CheckoutInit ==
    plans = Empty /\ subscriptions = Empty /\ checkout = [s \in Subs |-> [pc |-> "new"]]

CreatePlan(p) ==
    /\ p \notin DOMAIN plans /\ Cardinality(DOMAIN plans) < MaxPlans
    /\ plans' = Insert(plans, p, TRUE)
    /\ UNCHANGED <<subscriptions, checkout, stripeVars>>

\* The price may change; that of another plan is a conflict.
UpdatePlan(p, q, active) ==
    /\ p \in DOMAIN plans /\ (q = p \/ q \notin DOMAIN plans)
    /\ plans' = Insert([x \in DOMAIN plans \ {p} |-> plans[x]], q, active)
    /\ UNCHANGED <<subscriptions, checkout, stripeVars>>

-----------------------------------------------------------------------------
RowsOf(u) == {s \in DOMAIN subscriptions : subscriptions[s].user = u}
IsCurrent(s) ==
    \A t \in RowsOf(subscriptions[s].user) :
        subscriptions[t].order <= subscriptions[s].order

\* HAS_SUBSCRIPTION_STATUSES.
Live == {"ACTIVE", "TRIALING", "PAST_DUE"}

FindCheckoutPlan(s, u) ==
    /\ checkout[s].pc = "new"
    /\ checkout' = [checkout EXCEPT ![s] =
         IF PriceOf[s] \in DOMAIN plans /\ plans[PriceOf[s]]
         THEN [pc |-> "current", user |-> u] ELSE [pc |-> "refused"]]
    /\ UNCHANGED <<plans, subscriptions, stripeVars>>

\* The user's newest row decides, and no other.
CheckCurrent(s) ==
    /\ checkout[s].pc = "current"
    /\ checkout' = [checkout EXCEPT ![s] =
         IF \E t \in RowsOf(@.user) : IsCurrent(t) /\ subscriptions[t].status \in Live
         THEN [pc |-> "refused"] ELSE [pc |-> "create", user |-> @.user]]
    /\ UNCHANGED <<plans, subscriptions, stripeVars>>

CreateSession(s) ==
    /\ checkout[s].pc = "create" /\ s \notin DOMAIN stripe
    /\ sessions' = Insert(sessions, s, checkout[s].user)
    /\ checkout' = [checkout EXCEPT ![s].pc = "opened"]
    /\ UNCHANGED <<plans, subscriptions, second, stripe, events>>

CheckoutFails(s) ==
    /\ checkout[s].pc \in {"current", "create"}
    /\ checkout' = [checkout EXCEPT ![s] = [pc |-> "failed"]]
    /\ UNCHANGED <<plans, subscriptions, stripeVars>>

CheckoutNext ==
    \/ \E p \in Prices : CreatePlan(p)
    \/ \E p \in Prices, q \in Prices, active \in BOOLEAN : UpdatePlan(p, q, active)
    \/ \E s \in Subs :
         \/ \E u \in Users : FindCheckoutPlan(s, u)
         \/ CheckCurrent(s)
         \/ CreateSession(s)
         \/ CheckoutFails(s)

\* A restart: requests in flight are lost.
CheckoutCrash ==
    checkout' = [s \in Subs |->
      IF checkout[s].pc \in {"current", "create"} THEN [pc |-> "failed"] ELSE checkout[s]]
===============================================================================
