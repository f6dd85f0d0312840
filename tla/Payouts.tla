------------------------------- MODULE Payouts -------------------------------
(***************************************************************************)
(* Payments to affiliates: AffiliatePaymentsService and the resolver that  *)
(* decides whose payments a caller is shown.  An affiliate profile is      *)
(* named by the user it belongs to, for good; a payment by the request     *)
(* that creates it.  Amounts, methods and transaction ids are abstracted.  *)
(***************************************************************************)
EXTENDS Accounts

CONSTANT Affiliates     \* the users with an affiliate profile

ASSUME PayoutAssumption == Affiliates \subseteq Users

VARIABLE payments

PaymentQueries == {"payments", "paymentTerms"}
PayoutOps == {"createAffiliatePayment", "updatePaymentStatus"} \cup PaymentQueries

PaymentStatuses == {"PENDING", "PROCESSING", "PAID", "FAILED"}
PaymentRows == [affiliate : Affiliates, status : PaymentStatuses, paid : BOOLEAN]

PayoutsTypeOK ==
    /\ DOMAIN payments \subseteq Reqs
    /\ payments \in [DOMAIN payments -> PaymentRows]

PayoutsInit == payments = Empty

-----------------------------------------------------------------------------
CreatePayment(r, a) ==
    /\ Called(r, "createAffiliatePayment")
    /\ payments' = Insert(payments, r,
         [affiliate |-> a, status |-> "PENDING", paid |-> FALSE])
    /\ Reply(r)

\* Any status may follow any other; paidAt stays when a payment is unpaid.
UpdateStatus(r, p, status) ==
    /\ Called(r, "updatePaymentStatus")
    /\ IF p \in DOMAIN payments
       THEN /\ payments' = [payments EXCEPT ![p].status = status,
                                            ![p].paid = @ \/ status = "PAID"]
            /\ Reply(r)
       ELSE UNCHANGED payments /\ Refuse(r, "notFound")

PaymentQuery(r) == req[r].by.op \in PaymentQueries

\* Faulty variant: an affiliate that is asked for is taken as asked.
ResolveAsAsked(r, asked) ==
    /\ req[r].pc = "call" /\ PaymentQuery(r)
    /\ LET by == req[r].by IN
       \/ asked # Nobody /\ Go(r, "found", asked)
       \/ /\ asked = Nobody /\ by.user \in Affiliates
          /\ Go(r, "found", by.user)
       \/ /\ asked = Nobody /\ by.user \notin Affiliates
          /\ Refuse(r, "forbidden")
    /\ UNCHANGED payments

\* resolveAffiliateId: staff must name an affiliate, anyone else gets the one
\* of the own profile and may name no other.
ResolveAffiliateId(r, asked) ==
    /\ req[r].pc = "call" /\ PaymentQuery(r)
    /\ LET by == req[r].by IN
       \/ /\ by.role \in StaffRoles /\ asked # Nobody
          /\ Go(r, "found", asked)
       \/ /\ by.role \in StaffRoles /\ asked = Nobody
          /\ Refuse(r, "notFound")
       \/ /\ by.role \notin StaffRoles
          /\ by.user \in Affiliates /\ asked \in {Nobody, by.user}
          /\ Go(r, "found", by.user)
       \/ /\ by.role \notin StaffRoles
          /\ by.user \notin Affiliates \/ asked \notin {Nobody, by.user}
          /\ Refuse(r, "forbidden")
    /\ UNCHANGED payments

\* findPayments and findPaymentTerms, of the affiliate resolved: what is kept
\* is whose rows the answer shows.
FindPayments(r) ==
    /\ req[r].pc = "found" /\ PaymentQuery(r)
    /\ Go(r, "reply", kept[r])
    /\ UNCHANGED payments

ServePayouts(r) ==
    \/ \E a \in Affiliates : CreatePayment(r, a)
    \/ \E p \in Reqs, status \in PaymentStatuses : UpdateStatus(r, p, status)
    \/ \E asked \in Affiliates \cup {Nobody} : ResolveAffiliateId(r, asked)
    \/ FindPayments(r)
===============================================================================
