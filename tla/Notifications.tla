---------------------------- MODULE Notifications ----------------------------
(***************************************************************************)
(* NotificationsService: notices for one user or for everyone, and the     *)
(* read rows of each user, which are looked for in one call and created in *)
(* another.  No notice and no read row is ever deleted, and none is stored *)
(* unread.  A notice is named by the request that creates it.              *)
(***************************************************************************)
EXTENDS Accounts, FiniteSets

CONSTANTS
    Everyone,   \* whom a broadcast is for
    Posted      \* the notices at first, and whom each is for

NoticeIds == DOMAIN Posted \cup Reqs

ASSUME NoticeAssumption ==
    /\ Posted \in [DOMAIN Posted -> Users \cup {Everyone}]
    /\ DOMAIN Posted \cap Reqs = {}

VARIABLES
    notices,    \* for each notice stored, whom it is for
    reads       \* the NotificationRead rows: pairs <<notice, user>>

noticeVars == <<notices, reads>>

NoticeOps == {"createNotification", "notifications", "notificationCount",
              "markNotificationRead", "markAllNotificationsRead"}

\* What a marking request keeps: the notices to be read and those of them that
\* had no row.
Markings == [seen : SUBSET NoticeIds, missing : SUBSET NoticeIds]

NoticesTypeOK ==
    /\ DOMAIN notices \subseteq NoticeIds
    /\ notices \in [DOMAIN notices -> Users \cup {Everyone}]
    /\ reads \subseteq NoticeIds \X Users

NoticesInit == notices = Posted /\ reads = {}

-----------------------------------------------------------------------------
VisibleTo(u) == {n \in DOMAIN notices : notices[n] \in {u, Everyone}}
HasRead(u, n) == <<n, u>> \in reads

\* create: without a user it must be for everyone; an unknown user fails.
CreateNotice(r, to) ==
    /\ Called(r, "createNotification")
    /\ IF to = Nobody
       THEN Refuse(r, "invalid") /\ UNCHANGED notices
       ELSE notices' = Insert(notices, r, to) /\ Reply(r)
    /\ UNCHANGED reads

\* findAll, as the resolver calls it: for the caller.
FindNotices(r, unreadOnly) ==
    /\ Called(r, "notifications")
    /\ LET u == req[r].by.user IN
       Go(r, "reply", {n \in VisibleTo(u) : unreadOnly => ~HasRead(u, n)})
    /\ UNCHANGED noticeVars

\* findUnreadCount: two counts at once, on two connections. What is kept is
\* the count that came first.
CountFirst(r) ==
    /\ Called(r, "notificationCount")
    /\ LET u == req[r].by.user
           total == Cardinality(VisibleTo(u))
           readCount == Cardinality({n \in VisibleTo(u) : HasRead(u, n)})
       IN  \/ Go(r, "found", [count |-> "total", n |-> total])
           \/ Go(r, "found", [count |-> "read", n |-> readCount])
    /\ UNCHANGED noticeVars

CountSecond(r) ==
    /\ At(r, "found", "notificationCount")
    /\ LET u == req[r].by.user
           total == Cardinality(VisibleTo(u))
           readCount == Cardinality({n \in VisibleTo(u) : HasRead(u, n)})
           first == kept[r]
       IN  Go(r, "reply",
              IF first.count = "total"
              THEN [total |-> first.n, unread |-> first.n - readCount]
              ELSE [total |-> total, unread |-> total - first.n])
    /\ UNCHANGED noticeVars

Marks(r) ==
    At(r, "found", "markNotificationRead")
      \/ At(r, "found", "markAllNotificationsRead")

\* markRead, the lookup of the notice; it may be another user's.
FindNotice(r, n) ==
    /\ Called(r, "markNotificationRead")
    /\ IF n \in DOMAIN notices
       THEN Go(r, "found", [seen |-> {n}, missing |-> {}])
       ELSE Refuse(r, "notFound")
    /\ UNCHANGED noticeVars

\* markAllRead, the lookup of the notices of the caller.
FindVisible(r) ==
    /\ Called(r, "markAllNotificationsRead")
    /\ LET visible == VisibleTo(req[r].by.user) IN
       Go(r, IF visible = {} THEN "reply" ELSE "found",
          [seen |-> visible, missing |-> {}])
    /\ UNCHANGED noticeVars

\* Both, the lookup of the rows that are there. markAllRead goes on to its
\* transaction also when nothing is missing.
FindReads(r) ==
    /\ Marks(r)
    /\ LET seen == kept[r].seen
           missing == {n \in seen : ~HasRead(req[r].by.user, n)}
       IN  Go(r, IF missing = {} /\ req[r].by.op = "markNotificationRead"
                 THEN "reply" ELSE "checked",
              [seen |-> seen, missing |-> missing])
    /\ UNCHANGED noticeVars

\* Faulty variant: rows that are there by now are skipped, and with them the
\* rest of the batch.
CreateReadsStopping(r) ==
    /\ req[r].pc = "checked"
    /\ req[r].by.op \in {"markNotificationRead", "markAllNotificationsRead"}
    /\ LET rows == kept[r].missing \X {req[r].by.user} IN
       reads' = IF rows \cap reads # {} THEN reads ELSE reads \cup rows
    /\ Reply(r)
    /\ UNCHANGED notices

\* The missing rows are created, all of them or none: the unique index rejects
\* a row that another request has created since, which nothing catches.
CreateReads(r) ==
    /\ req[r].pc = "checked"
    /\ req[r].by.op \in {"markNotificationRead", "markAllNotificationsRead"}
    /\ LET rows == kept[r].missing \X {req[r].by.user} IN
       IF rows \cap reads = {}
       THEN reads' = reads \cup rows /\ Reply(r)
       ELSE UNCHANGED reads /\ Fail(r)
    /\ UNCHANGED notices

ServeNotices(r) ==
    \/ \E to \in Users \cup {Everyone, Nobody} : CreateNotice(r, to)
    \/ \E unreadOnly \in BOOLEAN : FindNotices(r, unreadOnly)
    \/ CountFirst(r)
    \/ CountSecond(r)
    \/ \E n \in NoticeIds : FindNotice(r, n)
    \/ FindVisible(r)
    \/ FindReads(r)
    \/ CreateReads(r)
===============================================================================
