------------------------------ MODULE BackOffice ------------------------------
(***************************************************************************)
(* The back office: the operations of accounts, notifications, tickets,    *)
(* payouts, advertisers and the plain tables, called by anyone through the *)
(* guards, in any interleaving of their database calls, with calls that    *)
(* fail and restarts of the server in between.                             *)
(***************************************************************************)
EXTENDS Notifications, Tickets, Payouts, Advertisers, Registry

vars == <<accountVars, requestVars, noticeVars, tickets, payments,
          advertiserVars, registry>>

Init ==
    /\ AccountsInit
    /\ NoticesInit
    /\ TicketsInit
    /\ PayoutsInit
    /\ AdvertisersInit
    /\ RegistryInit

TypeOK ==
    /\ AccountsTypeOK
    /\ NoticesTypeOK
    /\ TicketsTypeOK
    /\ PayoutsTypeOK
    /\ AdvertisersTypeOK
    /\ RegistryTypeOK

\* The operations that change a table of the back office, or that a property
\* looks at; what else is called is only answered here.
OwnOps == AccountOps \cup NoticeOps \cup TicketOps \cup PayoutOps
            \cup AdvertiserOps \cup RegistryOps

Elsewhere == Operations \ OwnOps

\* The step of one service leaves the tables of the others alone.
NotAccounts == UNCHANGED <<noticeVars, tickets, payments, advertiserVars, registry>>
NotNotices == UNCHANGED <<accountVars, tickets, payments, advertiserVars, registry>>
NotTickets == UNCHANGED <<accountVars, noticeVars, payments, advertiserVars, registry>>
NotPayouts == UNCHANGED <<accountVars, noticeVars, tickets, advertiserVars, registry>>
NotAdvertisers == UNCHANGED <<accountVars, noticeVars, tickets, payments, registry>>
NotRegistry == UNCHANGED <<accountVars, noticeVars, tickets, payments, advertiserVars>>

Arrive(r) ==
    \/ Throttle(r)
    \/ \E op \in Operations : AdmitPublic(r, op) \/ \E u \in Users : Admit(r, op, u)

Asks(r, ops) == InFlight(r) /\ req[r].by.op \in ops

\* What the server does for a request it has let in: each resolver serves its
\* own operations.
Serve(r) ==
    \/ (Reauthenticate(r) \/ SendReply(r)) /\ NotAccounts
    \/ Asks(r, AccountOps) /\ ServeAccounts(r) /\ NotAccounts
    \/ Asks(r, Elsewhere) /\ Answer(r) /\ NotAccounts
    \/ Asks(r, NoticeOps) /\ ServeNotices(r) /\ NotNotices
    \/ Asks(r, TicketOps) /\ ServeTickets(r) /\ NotTickets
    \/ Asks(r, PayoutOps) /\ ServePayouts(r) /\ NotPayouts
    \/ Asks(r, AdvertiserOps) /\ ServeAdvertisers(r) /\ NotAdvertisers
    \/ Asks(r, RegistryOps) /\ ServeRegistry(r) /\ NotRegistry

Next ==
    \/ \E r \in Reqs : Serve(r)
    \/ \E r \in Reqs : (Arrive(r) \/ CallFails(r)) /\ NotAccounts
    \/ Crash /\ NotAccounts

Spec == Init /\ [][Next]_vars

\* Awaited calls settle; nothing makes a request arrive.
Fairness == \A r \in Reqs : WF_vars(Serve(r))

FairSpec == Spec /\ Fairness

-----------------------------------------------------------------------------
\* The state of the back office as Authority sees it: what a request has
\* learnt of its caller, of the user it assigns and of the advertiser it found.
CallerFacts(r) ==
    IF InFlight(r) /\ req[r].by.user # Nobody
    THEN {[fact |-> "role", user |-> req[r].by.user, of |-> role] :
             role \in {req[r].by.passed, req[r].by.role}}
    ELSE {}

AssigneeFacts(r) ==
    IF At(r, "found", "updateSupportTicket")
    THEN {[fact |-> "staff", user |-> kept[r].to, of |-> "any"]} ELSE {}

ManagerFacts(r) ==
    IF At(r, "found", "updateAdvertiser") /\ req[r].by.role = "MANAGER"
    THEN {[fact |-> "manager", user |-> req[r].by.user, of |-> kept[r]]} ELSE {}

Held == [r \in Reqs |-> CallerFacts(r) \cup AssigneeFacts(r) \cup ManagerFacts(r)]

PublishedRows ==
    {k \in DOMAIN registry : k[1] \in {"faq", "question", "setting"}}

Assigned ==
    {<<t, tickets[t].assignee>> :
        t \in {t \in DOMAIN tickets : tickets[t].assignee # Nobody}}

\* Tickets as staff have left them; one that no staff touched has none of this.
Progress ==
    {<<t, tickets[t].status, tickets[t].resolved>> :
        t \in {t \in DOMAIN tickets :
                 tickets[t].status # "OPEN" \/ tickets[t].resolved}}

Desk == <<notices, payments, Progress, registry>>

ManagerOf == {<<a, advertisers[a].manager>> : a \in DOMAIN advertisers}

Removed == {a \in DOMAIN advertisers : advertisers[a].deleted}

OwnRows ==
    [u \in Users |->
       [reads |-> {n \in NoticeIds : HasRead(u, n)},
        tickets |-> {t \in DOMAIN tickets : tickets[t].owner = u}]]

Policy == INSTANCE Authority WITH
    Requests <- Reqs,
    Staff <- StaffRoles,
    Admins <- {"ADMIN", "SUPER_ADMIN"},
    roster <- users,
    held <- Held,
    powers <- rolePermissions,
    desk <- Desk,
    published <- PublishedRows,
    assigned <- Assigned,
    managed <- ManagerOf,
    removed <- Removed,
    own <- OwnRows

\* The guards, the checks in the handlers and what the handlers then write
\* implement Authority: whatever happens to roles, managers and accounts
\* between the guard and the write, every write is made by a request whose
\* caller held the role it needs when the request was judged.
ImplementsAuthority == Policy!Spec

\* Roles and permissions come from a super admin only.  When the last one has
\* given up the role and the requests judged before are over, no sequence of
\* calls makes another, changes a role or a permission, or removes a published
\* row; a restart does not either (ensureUser keeps the row that it finds).
PowerComesFromSuperAdmins == Policy!LeaderlessForGood

\* A marking that is answered has left every notice it looked at read, also
\* the ones that another request of the same user was marking meanwhile; the
\* rows of one transaction are there together or not at all.
AnsweredMarksAreStored ==
    \A r \in Reqs :
        /\ req[r].pc \in {"reply", "ok"}
        /\ req[r].by.op \in {"markNotificationRead", "markAllNotificationsRead"}
        => kept[r].seen \X {req[r].by.user} \subseteq reads

\* What a caller is shown of others takes a role of staff that the caller had
\* when the request was judged: payments and terms (GAP-001), tickets, notices
\* and campaigns.
AnswersArePrivate ==
    \A r \in Reqs : req[r].pc \in {"reply", "ok"} =>
        LET by == req[r].by
            shown == kept[r]
        IN  /\ PaymentQuery(r) => by.role \in StaffRoles \/ shown = by.user
            /\ by.op = "notifications" =>
                 \A n \in shown : notices[n] \in {by.user, Everyone}
            /\ by.op \in {"mySupportTickets", "supportTickets"} =>
                 \A t \in shown : \/ by.passed \in StaffRoles
                                  \/ tickets[t].owner = by.user
            /\ CampaignCall(r) =>
                 by.role \in StaffRoles \/ CampaignOwner[shown] = by.user
            /\ by.op \in CampaignLists =>
                 \/ by.role \in StaffRoles
                 \/ \A c \in shown : CampaignOwner[c] = by.user

\* Work that is settled has its date, however often it was reopened or undone
\* before: a ticket resolved or closed, a payment paid.
SettledIsDated ==
    /\ \A t \in DOMAIN tickets :
         tickets[t].status \in {"RESOLVED", "CLOSED"} => tickets[t].resolved
    /\ \A p \in DOMAIN payments :
         payments[p].status = "PAID" => payments[p].paid

\* A walk through the pages of the advertisers shows every one that was there
\* when it began, whatever is created, updated or deleted between two pages.
WalkMissesNothing ==
    \A r \in Reqs :
        req[r].pc \in {"reply", "ok"} /\ req[r].by.op = "advertisers" =>
            kept[r].due \subseteq kept[r].seen

\* Every request that is let in ends, also one that loses a race for a row.
RequestsEnd ==
    \A r \in Reqs :
        InFlight(r) ~> req[r].pc \in {"ok", "refused", "failed"}

\* What docs/CURRENT-SCOPE.md says of the pipe: a field without a validator
\* accepts anything.
UndecoratedFieldsAreAccepted ==
    \A r \in Reqs : ~(req[r].pc = "refused" /\ req[r].why = "undecorated")
===============================================================================
