------------------------------- MODULE Tickets -------------------------------
(***************************************************************************)
(* SupportTicketsService.  A ticket is named by the request that creates   *)
(* it; subject, description and priority are abstracted.                   *)
(***************************************************************************)
EXTENDS Accounts

CONSTANTS
    Keep,           \* a field left out of an update
    StatusInputs    \* bound: the statuses the update input offers here

VARIABLE tickets

TicketOps == {"createSupportTicket", "updateSupportTicket",
              "mySupportTickets", "supportTickets"}

TicketStatuses == {"OPEN", "IN_PROGRESS", "RESOLVED", "CLOSED"}
ASSUME TicketAssumption == StatusInputs \subseteq TicketStatuses

TicketRows == [owner : Users, status : TicketStatuses,
               assignee : Users \cup {Nobody}, resolved : BOOLEAN]

\* What an update keeps while the assignee is looked up.
Assignments == [ticket : Reqs, status : TicketStatuses \cup {Keep}, to : Users]

TicketsTypeOK ==
    /\ DOMAIN tickets \subseteq Reqs
    /\ tickets \in [DOMAIN tickets -> TicketRows]

TicketsInit == tickets = Empty

-----------------------------------------------------------------------------
\* Faulty variant: the status has no default.
CreateTicketAsSent(r) ==
    /\ Called(r, "createSupportTicket")
    /\ tickets' = Insert(tickets, r,
         [owner |-> req[r].by.user, status |-> Keep, assignee |-> Nobody,
          resolved |-> FALSE])
    /\ Reply(r)

CreateTicket(r) ==
    /\ Called(r, "createSupportTicket")
    /\ tickets' = Insert(tickets, r,
         [owner |-> req[r].by.user, status |-> "OPEN", assignee |-> Nobody,
          resolved |-> FALSE])
    /\ Reply(r)

\* Faulty variant: only the status RESOLVED dates the resolution.
UpdatedIfResolved(row, status, assignee) ==
    [row EXCEPT !.status = IF status = Keep THEN @ ELSE status,
                !.assignee = IF assignee = Keep THEN @ ELSE assignee,
                !.resolved = @ \/ status = "RESOLVED"]

\* A ticket that is closed or resolved is dated; nothing removes the date.
Updated(row, status, assignee) ==
    [row EXCEPT !.status = IF status = Keep THEN @ ELSE status,
                !.assignee = IF assignee = Keep THEN @ ELSE assignee,
                !.resolved = @ \/ status \in {"RESOLVED", "CLOSED"}]

WriteTicket(r, t, status, assignee) ==
    IF t \in DOMAIN tickets
    THEN /\ tickets' = [tickets EXCEPT ![t] = Updated(@, status, assignee)]
         /\ Reply(r)
    ELSE UNCHANGED tickets /\ Refuse(r, "notFound")

\* update, with the assignee left alone or removed.
UpdateTicket(r, t, status, assignee) ==
    /\ Called(r, "updateSupportTicket")
    /\ WriteTicket(r, t, status, assignee)

\* Faulty variant: whoever exists may be assigned.
AssertExists(r, t, status, u) ==
    /\ Called(r, "updateSupportTicket")
    /\ IF u \in Users
       THEN Go(r, "found", [ticket |-> t, status |-> status, to |-> u])
       ELSE Refuse(r, "invalid")
    /\ UNCHANGED tickets

\* update, with an assignee: assertAssignable reads the role of that user
\* first, and the ticket is written in a later call.
AssertAssignable(r, t, status, u) ==
    /\ Called(r, "updateSupportTicket")
    /\ IF u \in Users /\ users[u].role \in StaffRoles
       THEN Go(r, "found", [ticket |-> t, status |-> status, to |-> u])
       ELSE Refuse(r, "invalid")
    /\ UNCHANGED tickets

AssignTicket(r) ==
    /\ At(r, "found", "updateSupportTicket")
    /\ WriteTicket(r, kept[r].ticket, kept[r].status, kept[r].to)

\* findMyTickets and findAll.
FindTickets(r) ==
    /\ \/ /\ Called(r, "mySupportTickets")
          /\ Go(r, "reply",
                {t \in DOMAIN tickets : tickets[t].owner = req[r].by.user})
       \/ /\ Called(r, "supportTickets")
          /\ Go(r, "reply", DOMAIN tickets)
    /\ UNCHANGED tickets

ServeTickets(r) ==
    \/ CreateTicket(r)
    \/ \E t \in Reqs, status \in StatusInputs \cup {Keep} :
         \/ \E assignee \in {Keep, Nobody} : UpdateTicket(r, t, status, assignee)
         \/ \E u \in Users \cup {Nobody} : AssertAssignable(r, t, status, u)
    \/ AssignTicket(r)
    \/ FindTickets(r)
===============================================================================
