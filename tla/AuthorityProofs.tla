---------------------------- MODULE AuthorityProofs ----------------------------
(***************************************************************************)
(* BackOffice implements Authority: every step of a request is one that    *)
(* its caller may take, or learns what is true at that moment.             *)
(***************************************************************************)
EXTENDS BackOfficeProofs

\* What a request holds depends on nothing but the request.
LEMMA HeldKept ==
    ASSUME NEW q \in Reqs, req'[q] = req[q], kept'[q] = kept[q]
    PROVE  Held'[q] = Held[q]
  BY DEF Held, CallerFacts, AssigneeFacts, ManagerFacts, InFlight, At

LEMMA HeldParts ==
    ASSUME NEW q \in Reqs
    PROVE  /\ Held[q] = CallerFacts(q) \cup AssigneeFacts(q) \cup ManagerFacts(q)
           /\ Held'[q] = CallerFacts(q)' \cup AssigneeFacts(q)' \cup ManagerFacts(q)'
  BY DEF Held

\* A request that is over holds nothing.
LEMMA HeldEnds ==
    ASSUME NEW q \in Reqs, req'[q].pc \notin Stages \ {"ok"}
    PROVE  Held'[q] = {}
<1>1. CallerFacts(q)' = {}
  BY DEF CallerFacts, InFlight
<1>2. AssigneeFacts(q)' = {} /\ ManagerFacts(q)' = {}
  BY DEF AssigneeFacts, ManagerFacts, At, Stages
<1> QED BY <1>1, <1>2, HeldParts

\* One that goes on for the same caller learns nothing of the caller.
LEMMA CallerKept ==
    ASSUME NEW q \in Reqs, InFlight(q), req'[q].by = req[q].by
    PROVE  CallerFacts(q)' \subseteq CallerFacts(q)
  BY DEF CallerFacts

\* A request learns nothing new from any outcome but of what it looks up.
LEMMA OutcomeLearnsNothing ==
    ASSUME NEW r \in Reqs, req[r].pc \in Begun, Outcome(r),
           req[r].by.op \notin Looking \/ req'[r].pc # "found"
    PROVE  \A q \in Reqs : Held'[q] \subseteq Held[q]
<1>1. \A q \in Reqs \ {r} : req'[q] = req[q] /\ kept'[q] = kept[q]
  BY DEF Outcome, Stops, Goes, Moves
<1>2. CASE Stops(r)
  <2>1. req'[r].pc \in {"refused", "failed"}
    BY <1>2 DEF Stops, Moves
  <2>2. Held'[r] = {}
    BY <2>1, HeldEnds DEF Stages
  <2> QED BY <1>1, <2>2, HeldKept
<1>3. CASE \E what : \E pc \in {"found", "checked", "reply"} : Goes(r, pc, what)
  <2>1. req'[r].by = req[r].by
    BY <1>3 DEF Goes, Moves
  <2>2. CallerFacts(r)' \subseteq CallerFacts(r)
    BY <2>1, CallerKept DEF InFlight, Begun, Stages
  <2>3. AssigneeFacts(r)' = {} /\ ManagerFacts(r)' = {}
    BY <2>1 DEF AssigneeFacts, ManagerFacts, At, Looking
  <2>4. Held'[r] \subseteq Held[r]
    BY <2>2, <2>3, HeldParts
  <2> QED BY <1>1, <2>4, HeldKept
<1> QED BY <1>2, <1>3 DEF Outcome

\* No table changes, as Authority sees them.
TablesStay ==
    UNCHANGED <<accountVars, noticeVars, tickets, payments, advertiserVars, registry>>

LEMMA LearnStep ==
    ASSUME TablesStay, \A q \in Reqs : Held'[q] \subseteq Held[q] \cup Policy!Facts
    PROVE  Policy!Next
<1>1. UNCHANGED <<users, rolePermissions, notices, reads, tickets, payments,
                  advertisers, registry>>
  BY DEF TablesStay, accountVars, noticeVars, advertiserVars
<1>2. UNCHANGED Desk
  BY <1>1 DEF Desk, Progress
<1>3. UNCHANGED PublishedRows
  BY <1>1 DEF PublishedRows
<1>4. UNCHANGED Assigned
  BY <1>1 DEF Assigned
<1>5. UNCHANGED ManagerOf /\ UNCHANGED Removed
  BY <1>1 DEF ManagerOf, Removed
<1>6. UNCHANGED OwnRows
  BY <1>1 DEF OwnRows, HasRead
<1>7. Policy!Learn
  BY <1>1, <1>2, <1>3, <1>4, <1>5, <1>6 DEF Policy!Learn
<1> QED BY <1>7 DEF Policy!Next

LEMMA ForgetStep ==
    ASSUME TablesStay, \A q \in Reqs : Held'[q] \subseteq Held[q]
    PROVE  Policy!Next
  BY LearnStep

\* A request that is served acts as its caller.
LEMMA Acting ==
    ASSUME Sound, NEW r \in Reqs, req[r].pc \in Begun,
           req[r].by.op \in NeedsSuper \cup NeedsAdmin \cup NeedsManager
                              \cup NeedsStaff \cup NeedsUser
    PROVE  /\ req[r].by.user \in Users
           /\ Policy!HasRole(req[r].by.user, req[r].by.passed) \in Held[r]
           /\ Policy!HasRole(req[r].by.user, req[r].by.role) \in Held[r]
<1>1. req[r].by.user \in Users /\ InFlight(r)
  BY CallerIsUser DEF Begun, Stages, InFlight
<1>2. req[r].by.user # Nobody
  BY <1>1, AccountAssumption
<1>3. /\ Policy!HasRole(req[r].by.user, req[r].by.passed) \in CallerFacts(r)
      /\ Policy!HasRole(req[r].by.user, req[r].by.role) \in CallerFacts(r)
  BY <1>1, <1>2 DEF CallerFacts, Policy!HasRole
<1> QED BY <1>1, <1>3, HeldParts

LEMMA ActingAs ==
    ASSUME Sound, NEW r \in Reqs, req[r].pc \in Begun
    PROVE  /\ req[r].by.op \in NeedsSuper => Policy!ActsAs(r, {"SUPER_ADMIN"})
           /\ req[r].by.op \in NeedsAdmin => Policy!ActsAs(r, {"ADMIN", "SUPER_ADMIN"})
           /\ req[r].by.op \in NeedsStaff => Policy!ActsAs(r, StaffRoles)
  BY Acting, CallerIsUser DEF Policy!ActsAs, Admins, Begun, Stages

LEMMA PolicyAct ==
    ASSUME NEW r \in Reqs, \A q \in Reqs : Held'[q] \subseteq Held[q],
           \/ Policy!SetActive(r) \/ Policy!ChangeRole(r) \/ Policy!ChangePowers(r)
           \/ Policy!Work(r) \/ Policy!Withdraw(r) \/ Policy!Manage(r)
           \/ Policy!Remove(r) \/ Policy!WriteOwn(r)
    PROVE  Policy!Next
<1>1. Policy!Act(r)
  BY DEF Policy!Act
<1> QED BY <1>1 DEF Policy!Next

-----------------------------------------------------------------------------
LEMMA AccountsStep ==
    ASSUME Sound, NEW r \in Reqs, Asks(r, AccountOps), ServeAccounts(r), NotAccounts
    PROVE  Policy!Next
<1>1. req[r].pc \in Begun /\ Outcome(r)
  BY ServeAccountsOutcome
<1>2. \A q \in Reqs : Held'[q] \subseteq Held[q]
  <2>1. req[r].by.op \notin Looking
    BY DEF Asks, AccountOps, Looking
  <2> QED BY <1>1, <2>1, OutcomeLearnsNothing
<1>3. UNCHANGED <<notices, reads, tickets, payments, advertisers, registry>>
  BY DEF NotAccounts, noticeVars, advertiserVars
<1>4. UNCHANGED <<Desk, PublishedRows, Assigned, ManagerOf, Removed, OwnRows>>
  BY <1>3 DEF Desk, Progress, PublishedRows, Assigned, ManagerOf, Removed,
              OwnRows, HasRead
<1>5. users \in [Users -> UserRows]
  BY DEF Sound, TypeOK, AccountsTypeOK
<1>6. UNCHANGED accountVars => TablesStay
  BY DEF TablesStay, NotAccounts
<1>7. ASSUME NEW u \in Users \cup {Nobody}, NEW active \in BOOLEAN,
             SetActive(r, u, active)
      PROVE  Policy!Next
  <2>1. CASE u \in Users
    <3>1. req[r].by.op \in NeedsAdmin
      BY <1>7 DEF SetActive, Called, At, NeedsAdmin
    <3>2. Policy!ActsAs(r, {"ADMIN", "SUPER_ADMIN"})
      BY <1>1, <3>1, ActingAs
    <3>3. users' = [users EXCEPT ![u].active = active] /\ UNCHANGED rolePermissions
      BY <1>7, <2>1 DEF SetActive
    <3>4. Policy!SetActive(r)
      BY <1>4, <2>1, <3>2, <3>3 DEF Policy!SetActive
    <3> QED BY <1>2, <3>4, PolicyAct
  <2>2. CASE u \notin Users
    <3>1. UNCHANGED accountVars
      BY <1>7, <2>2 DEF SetActive, accountVars
    <3> QED BY <1>2, <1>6, <3>1, ForgetStep
  <2> QED BY <2>1, <2>2
<1>8. ASSUME NEW u \in Users \cup {Nobody}, NEW role \in Roles, ChangeRole(r, u, role)
      PROVE  Policy!Next
  <2>1. CASE u \in Users
    <3>1. req[r].by.op \in NeedsSuper
      BY <1>8 DEF ChangeRole, Called, At, NeedsSuper
    <3>2. Policy!ActsAs(r, {"SUPER_ADMIN"})
      BY <1>1, <3>1, ActingAs
    <3>3. users' = [users EXCEPT ![u].role = role] /\ UNCHANGED rolePermissions
      BY <1>8, <2>1 DEF ChangeRole
    <3>4. \A v \in Users : users'[v].active = users[v].active
      BY <1>5, <3>3 DEF UserRows
    <3>5. Policy!ChangeRole(r)
      BY <1>4, <3>2, <3>3, <3>4 DEF Policy!ChangeRole
    <3> QED BY <1>2, <3>5, PolicyAct
  <2>2. CASE u \notin Users
    <3>1. UNCHANGED accountVars
      BY <1>8, <2>2 DEF ChangeRole, accountVars
    <3> QED BY <1>2, <1>6, <3>1, ForgetStep
  <2> QED BY <2>1, <2>2
<1>9. ASSUME NEW role \in Roles, NEW p \in Permissions,
             GrantPermission(r, role, p) \/ RemovePermission(r, role, p)
      PROVE  Policy!Next
  <2>1. req[r].by.op \in NeedsSuper /\ UNCHANGED users
    BY <1>9 DEF GrantPermission, RemovePermission, Called, At, NeedsSuper
  <2>2. Policy!ActsAs(r, {"SUPER_ADMIN"})
    BY <1>1, <2>1, ActingAs
  <2>3. Policy!ChangePowers(r)
    BY <1>4, <2>1, <2>2 DEF Policy!ChangePowers
  <2> QED BY <1>2, <2>3, PolicyAct
<1> QED BY <1>7, <1>8, <1>9 DEF ServeAccounts

LEMMA AnswerStep ==
    ASSUME Sound, NEW r \in Reqs, Asks(r, Elsewhere), Answer(r), NotAccounts
    PROVE  Policy!Next
<1>1. req[r].pc \in Begun /\ Outcome(r)
  BY AnswerOutcome
<1>2. req[r].by.op \notin Looking
  BY DEF Asks, Elsewhere, OwnOps, TicketOps, AdvertiserOps, Looking
<1>3. \A q \in Reqs : Held'[q] \subseteq Held[q]
  BY <1>1, <1>2, OutcomeLearnsNothing
<1>4. TablesStay
  BY DEF Answer, NotAccounts, TablesStay
<1> QED BY <1>3, <1>4, ForgetStep

\* What staff write and nothing hangs on.
LEMMA DeskStep ==
    ASSUME Sound, NEW r \in Reqs, req[r].pc \in Begun, Outcome(r),
           req[r].by.op \in NeedsStaff \ Looking,
           UNCHANGED <<accountVars, reads, tickets, advertiserVars>>,
           PublishedRows \subseteq PublishedRows'
    PROVE  Policy!Next
<1>1. \A q \in Reqs : Held'[q] \subseteq Held[q]
  BY OutcomeLearnsNothing
<1>2. UNCHANGED <<Assigned, ManagerOf, Removed, OwnRows, users, rolePermissions>>
  BY DEF Assigned, ManagerOf, Removed, OwnRows, HasRead, accountVars, advertiserVars
<1>3. Policy!ActsAs(r, StaffRoles)
  BY ActingAs
<1>4. Policy!Work(r)
  BY <1>2, <1>3 DEF Policy!Work
<1> QED BY <1>1, <1>4, PolicyAct

LEMMA NoticesStep ==
    ASSUME Sound, NEW r \in Reqs, Asks(r, NoticeOps), ServeNotices(r), NotNotices
    PROVE  Policy!Next
<1>1. req[r].pc \in Begun /\ Outcome(r)
  BY ServeNoticesOutcome
<1>2. req[r].by.op \notin Looking
  BY DEF Asks, NoticeOps, Looking
<1>3. \A q \in Reqs : Held'[q] \subseteq Held[q]
  BY <1>1, <1>2, OutcomeLearnsNothing
<1>4. UNCHANGED noticeVars => TablesStay
  BY DEF NotNotices, TablesStay
<1>5. UNCHANGED noticeVars => Policy!Next
  BY <1>3, <1>4, ForgetStep
<1>6. ASSUME NEW to \in Users \cup {Everyone, Nobody}, CreateNotice(r, to)
      PROVE  Policy!Next
  <2>1. req[r].by.op \in NeedsStaff /\ UNCHANGED reads
    BY <1>6 DEF CreateNotice, Called, At, NeedsStaff
  <2>2. UNCHANGED PublishedRows
    BY DEF NotNotices, PublishedRows
  <2> QED BY <1>1, <1>2, <2>1, <2>2, DeskStep DEF NotNotices
<1>7. ASSUME CreateReads(r) PROVE Policy!Next
  <2> DEFINE u == req[r].by.user
             rows == kept[r].missing \X {u}
  <2>1. /\ req[r].by.op \in NeedsUser /\ UNCHANGED notices
        /\ reads' = reads \cup rows \/ UNCHANGED reads
    BY <1>7 DEF CreateReads, NeedsUser
  <2>2. u \in Users /\ Policy!HasRole(u, req[r].by.role) \in Held[r]
    BY <1>1, <2>1, Acting
  <2>3. UNCHANGED <<users, rolePermissions, notices, tickets, payments, advertisers,
                    registry>>
    BY <2>1 DEF NotNotices, accountVars, advertiserVars
  <2>4. UNCHANGED <<Desk, PublishedRows, Assigned, ManagerOf, Removed>>
    BY <2>3 DEF Desk, Progress, PublishedRows, Assigned, ManagerOf, Removed
  <2>5. ASSUME NEW v \in Users \ {u} PROVE OwnRows'[v] = OwnRows[v]
    <3>1. \A n : <<n, v>> \in reads' <=> <<n, v>> \in reads
      BY <2>1, <2>5
    <3>2. {n \in NoticeIds : HasRead(v, n)}' = {n \in NoticeIds : HasRead(v, n)}
      BY <3>1 DEF HasRead
    <3>3. {t \in DOMAIN tickets : tickets[t].owner = v}'
            = {t \in DOMAIN tickets : tickets[t].owner = v}
      BY <2>3
    <3> QED BY <3>2, <3>3 DEF OwnRows
  <2>6. \E f \in Held[r] : f.fact = "role" /\ f.user = u
    BY <2>2 DEF Policy!HasRole
  <2> HIDE DEF u, rows
  <2>7. Policy!WriteOwn(r)
    BY <2>2, <2>3, <2>4, <2>5, <2>6 DEF Policy!WriteOwn
  <2> QED BY <1>3, <2>7, PolicyAct
<1> QED
  BY <1>5, <1>6, <1>7
  DEF ServeNotices, FindNotices, CountFirst, CountSecond, FindNotice, FindVisible,
      FindReads

LEMMA PayoutsStep ==
    ASSUME Sound, NEW r \in Reqs, Asks(r, PayoutOps), ServePayouts(r), NotPayouts
    PROVE  Policy!Next
<1>1. req[r].pc \in Begun /\ Outcome(r)
  BY ServePayoutsOutcome
<1>2. req[r].by.op \notin Looking
  BY DEF Asks, PayoutOps, PaymentQueries, Looking
<1>3. \A q \in Reqs : Held'[q] \subseteq Held[q]
  BY <1>1, <1>2, OutcomeLearnsNothing
<1>4. UNCHANGED payments => Policy!Next
  <2>1. UNCHANGED payments => TablesStay
    BY DEF NotPayouts, TablesStay
  <2> QED BY <1>3, <2>1, ForgetStep
<1>5. req[r].by.op \in NeedsStaff => Policy!Next
  <2>1. UNCHANGED PublishedRows /\ UNCHANGED reads
    BY DEF NotPayouts, PublishedRows, noticeVars
  <2> QED BY <1>1, <1>2, <2>1, DeskStep DEF NotPayouts
<1> QED
  BY <1>4, <1>5
  DEF ServePayouts, CreatePayment, UpdateStatus, ResolveAffiliateId, FindPayments,
      Called, At, NeedsStaff

LEMMA RegistryStep ==
    ASSUME Sound, NEW r \in Reqs, Asks(r, RegistryOps), ServeRegistry(r), NotRegistry
    PROVE  Policy!Next
<1>1. req[r].pc \in Begun /\ Outcome(r)
  BY ServeRegistryOutcome
<1>2. req[r].by.op \notin Looking
  BY DEF Asks, RegistryOps, RegistryTables, Table, Faqs, SignupQuestions,
         Experiments, Groups, Members, PaymentTerms, Referrals, Settings,
         AffiliateStatuses, Looking
<1>3. \A q \in Reqs : Held'[q] \subseteq Held[q]
  BY <1>1, <1>2, OutcomeLearnsNothing
<1>4. UNCHANGED <<accountVars, reads, tickets, advertiserVars, notices, payments,
                  users, rolePermissions, advertisers>>
  BY DEF NotRegistry, noticeVars, accountVars, advertiserVars
<1>5. ASSUME req[r].by.op \in NeedsStaff, PublishedRows \subseteq PublishedRows'
      PROVE  Policy!Next
  BY <1>1, <1>2, <1>4, <1>5, DeskStep
<1>6. ASSUME req[r].by.op \in NeedsSuper, PublishedRows' \subseteq PublishedRows
      PROVE  Policy!Next
  <2>1. UNCHANGED <<Assigned, ManagerOf, Removed, OwnRows>>
    BY <1>4 DEF Assigned, ManagerOf, Removed, OwnRows, HasRead
  <2>2. Policy!ActsAs(r, {"SUPER_ADMIN"})
    BY <1>1, <1>6, ActingAs
  <2>3. Policy!Withdraw(r)
    BY <1>4, <1>6, <2>1, <2>2 DEF Policy!Withdraw
  <2> QED BY <1>3, <2>3, PolicyAct
<1>7. UNCHANGED registry => Policy!Next
  <2>1. UNCHANGED registry => TablesStay
    BY DEF NotRegistry, TablesStay
  <2> QED BY <1>3, <2>1, ForgetStep
<1>8. PICK t \in RegistryTables :
         \/ \E code \in Codes, content \in Contents : CreateRow(r, t, code, content)
         \/ \E key \in Reqs \cup Codes :
              DeleteRow(r, t, key) \/ \E content \in Contents : UpdateRow(r, t, key, content)
  BY DEF ServeRegistry
<1>9. /\ t.creates \cup t.updates \subseteq NeedsStaff
      /\ t.deletes \subseteq NeedsStaff \cup NeedsSuper
      /\ t.kind \in {"faq", "question", "setting"} => t.deletes \subseteq NeedsSuper
  BY DEF RegistryTables, Table, Faqs, SignupQuestions, Experiments, Groups, Members,
         PaymentTerms, Referrals, Settings, AffiliateStatuses, NeedsStaff, NeedsSuper
<1>10. ASSUME NEW code \in Codes, NEW content \in Contents,
              CreateRow(r, t, code, content)
       PROVE  Policy!Next
  <2> DEFINE row == <<t.kind, IF t.unique THEN code ELSE r>>
  <2>1. req[r].by.op \in NeedsStaff
    BY <1>9, <1>10 DEF CreateRow
  <2>2. UNCHANGED registry \/ registry' = Insert(registry, row, content)
    BY <1>10 DEF CreateRow
  <2> HIDE DEF row
  <2>3. DOMAIN registry \subseteq DOMAIN registry'
    BY <2>2 DEF Insert
  <2>4. PublishedRows \subseteq PublishedRows'
    BY <2>3 DEF PublishedRows
  <2> QED BY <1>5, <2>1, <2>4
<1>11. ASSUME NEW key \in Reqs \cup Codes, NEW content \in Contents,
              UpdateRow(r, t, key, content)
       PROVE  Policy!Next
  <2>1. req[r].by.op \in NeedsStaff
    BY <1>9, <1>11 DEF UpdateRow
  <2>2. DOMAIN registry' = DOMAIN registry
    BY <1>11 DEF UpdateRow
  <2>3. PublishedRows \subseteq PublishedRows'
    BY <2>2 DEF PublishedRows
  <2> QED BY <1>5, <2>1, <2>3
<1>12. ASSUME NEW key \in Reqs \cup Codes, DeleteRow(r, t, key)
       PROVE  Policy!Next
  <2>1. req[r].by.op \in t.deletes
    BY <1>12 DEF DeleteRow
  <2>2. /\ DOMAIN registry' \subseteq DOMAIN registry
        /\ DOMAIN registry \ DOMAIN registry' \subseteq {<<t.kind, key>>}
    BY <1>12 DEF DeleteRow
  <2>3. CASE req[r].by.op \in NeedsSuper
    <3>1. PublishedRows' \subseteq PublishedRows
      BY <2>2 DEF PublishedRows
    <3> QED BY <1>6, <2>3, <3>1
  <2>4. CASE req[r].by.op \notin NeedsSuper
    <3>1. t.kind \notin {"faq", "question", "setting"} /\ req[r].by.op \in NeedsStaff
      BY <1>9, <2>1, <2>4
    <3>2. \A k \in DOMAIN registry \ DOMAIN registry' : k[1] = t.kind
      BY <2>2
    <3>3. PublishedRows \subseteq PublishedRows'
      BY <3>1, <3>2 DEF PublishedRows
    <3> QED BY <1>5, <3>1, <3>3
  <2> QED BY <2>3, <2>4
<1> QED BY <1>8, <1>10, <1>11, <1>12

LEMMA UpdatedAssignee ==
    ASSUME NEW row \in TicketRows, NEW status, NEW assignee
    PROVE  /\ Updated(row, status, assignee).assignee \in {row.assignee, assignee}
           /\ assignee = Keep => Updated(row, status, assignee).assignee = row.assignee
  BY DEF Updated, TicketRows

\* A ticket is written at the desk, and assigned to no one but who was there
\* before or the user found to be staff.
LEMMA WriteTicketStep ==
    ASSUME Sound, NEW r \in Reqs, req[r].pc \in Begun, Outcome(r), NotTickets,
           req[r].by.op = "updateSupportTicket",
           NEW t, NEW status \in TicketStatuses \cup {Keep},
           NEW assignee \in Users \cup {Nobody, Keep},
           WriteTicket(r, t, status, assignee),
           assignee \in {Keep, Nobody} \/ Policy!IsStaff(assignee) \in Held[r]
    PROVE  Policy!Next
<1>1. \A q \in Reqs : Held'[q] \subseteq Held[q]
  <2>1. req'[r].pc # "found"
    <3>1. TypeOK
      BY DEF Sound
    <3>2. CASE Reply(r)
      BY <3>1, <3>2, GoKeeps DEF Reply
    <3>3. CASE Refuse(r, "notFound")
      BY <3>1, <3>3, RefuseStops DEF TypeOK, Refusals, Stops, Moves
    <3> QED BY <3>2, <3>3 DEF WriteTicket
  <2> QED BY <2>1, OutcomeLearnsNothing
<1>2. /\ tickets \in [DOMAIN tickets -> TicketRows]
      /\ UNCHANGED <<users, rolePermissions, notices, reads, payments, advertisers,
                     registry>>
  BY DEF Sound, TypeOK, TicketsTypeOK, NotTickets, accountVars, noticeVars,
         advertiserVars
<1>3. CASE t \notin DOMAIN tickets
  <2>1. TablesStay
    BY <1>3 DEF WriteTicket, NotTickets, TablesStay
  <2> QED BY <1>1, <2>1, ForgetStep
<1>4. CASE t \in DOMAIN tickets
  <2> DEFINE row == Updated(tickets[t], status, assignee)
  <2>1. tickets' = [tickets EXCEPT ![t] = row]
    BY <1>4 DEF WriteTicket
  <2>2. /\ row \in TicketRows /\ row.owner = tickets[t].owner
        /\ row.assignee \in {tickets[t].assignee, assignee}
        /\ assignee = Keep => row.assignee = tickets[t].assignee
    <3>1. tickets[t] \in TicketRows
      BY <1>2, <1>4
    <3> QED BY <3>1, UpdatedType, UpdatedAssignee
  <2> HIDE DEF row
  <2>3. DOMAIN tickets' = DOMAIN tickets
    BY <2>1
  <2>4. \A x \in DOMAIN tickets : tickets'[x].owner = tickets[x].owner
    BY <1>4, <2>1, <2>2
  <2>5. OwnRows' = OwnRows
    <3>1. ASSUME NEW u \in Users
          PROVE  {x \in DOMAIN tickets : tickets[x].owner = u}'
                   = {x \in DOMAIN tickets : tickets[x].owner = u}
      BY <2>3, <2>4
    <3>2. ASSUME NEW u \in Users
          PROVE  {n \in NoticeIds : HasRead(u, n)}' = {n \in NoticeIds : HasRead(u, n)}
      BY <1>2 DEF HasRead
    <3> QED BY <3>1, <3>2 DEF OwnRows
  <2>6. ASSUME NEW w \in Assigned' \ Assigned PROVE Policy!IsStaff(w[2]) \in Held[r]
    <3>1. PICK x \in DOMAIN tickets' : w = <<x, tickets'[x].assignee>>
                                         /\ tickets'[x].assignee # Nobody
      BY DEF Assigned
    <3>2. ASSUME tickets'[x].assignee = tickets[x].assignee PROVE FALSE
      BY <2>3, <2>6, <3>1, <3>2 DEF Assigned
    <3>3. x = t
      BY <2>1, <2>3, <3>1, <3>2
    <3>4. tickets'[t].assignee = row.assignee
      BY <1>4, <2>1
    <3>5. row.assignee = assignee /\ assignee \notin {Keep, Nobody}
      BY <2>2, <3>1, <3>2, <3>3, <3>4
    <3> QED BY <3>1, <3>3, <3>4, <3>5
  <2>7. UNCHANGED <<PublishedRows, ManagerOf, Removed>>
    BY <1>2 DEF PublishedRows, ManagerOf, Removed
  <2>8. Policy!ActsAs(r, StaffRoles)
    BY ActingAs DEF NeedsStaff
  <2>9. Policy!Work(r)
    BY <1>2, <2>5, <2>6, <2>7, <2>8 DEF Policy!Work
  <2> QED BY <1>1, <2>9, PolicyAct
<1> QED BY <1>3, <1>4

LEMMA TicketsStep ==
    ASSUME Sound, NEW r \in Reqs, Asks(r, TicketOps), ServeTickets(r), NotTickets
    PROVE  Policy!Next
<1>1. req[r].pc \in Begun /\ Outcome(r) /\ TypeOK
  BY ServeTicketsOutcome DEF Sound
<1>2. UNCHANGED tickets => TablesStay
  BY DEF NotTickets, TablesStay
<1>3. UNCHANGED <<users, rolePermissions, notices, reads, payments, advertisers,
                  registry>>
  BY DEF NotTickets, accountVars, noticeVars, advertiserVars
<1>4. ASSUME CreateTicket(r) PROVE Policy!Next
  <2> DEFINE u == req[r].by.user
             row == [owner |-> u, status |-> "OPEN", assignee |-> Nobody,
                     resolved |-> FALSE]
  <2>1. /\ req[r].by.op = "createSupportTicket"
        /\ tickets' = Insert(tickets, r, row)
    BY <1>4 DEF CreateTicket, Called, At
  <2>2. u \in Users /\ Policy!HasRole(u, req[r].by.role) \in Held[r]
    BY <1>1, <2>1, Acting DEF NeedsUser
  <2>3. \A q \in Reqs : Held'[q] \subseteq Held[q]
    BY <1>1, <2>1, OutcomeLearnsNothing DEF Looking
  <2>4. r \notin DOMAIN tickets
    BY <1>1, Unnamed DEF Names
  <2>5. /\ row.owner = u /\ row.status = "OPEN" /\ row.assignee = Nobody
        /\ row.resolved = FALSE
    OBVIOUS
  <2> HIDE DEF row
  <2>6. /\ DOMAIN tickets' = DOMAIN tickets \cup {r} /\ tickets'[r] = row
        /\ \A t \in DOMAIN tickets : tickets'[t] = tickets[t]
    BY <2>1, <2>4 DEF Insert
  <2>7. Progress' = Progress
    <3>1. \A t : /\ t \in DOMAIN tickets'
                 /\ tickets'[t].status # "OPEN" \/ tickets'[t].resolved
                 <=> /\ t \in DOMAIN tickets
                     /\ tickets[t].status # "OPEN" \/ tickets[t].resolved
      BY <2>4, <2>5, <2>6
    <3> QED BY <2>6, <3>1 DEF Progress
  <2>8. Assigned' = Assigned
    <3>1. \A t : t \in DOMAIN tickets' /\ tickets'[t].assignee # Nobody
                 <=> t \in DOMAIN tickets /\ tickets[t].assignee # Nobody
      BY <2>4, <2>5, <2>6
    <3> QED BY <2>6, <3>1 DEF Assigned
  <2>9. UNCHANGED <<Desk, PublishedRows, ManagerOf, Removed>>
    BY <1>3, <2>7 DEF Desk, PublishedRows, ManagerOf, Removed
  <2>10. ASSUME NEW v \in Users \ {u} PROVE OwnRows'[v] = OwnRows[v]
    <3>1. {n \in NoticeIds : HasRead(v, n)}' = {n \in NoticeIds : HasRead(v, n)}
      BY <1>3 DEF HasRead
    <3>2. {t \in DOMAIN tickets : tickets[t].owner = v}'
            = {t \in DOMAIN tickets : tickets[t].owner = v}
      BY <2>4, <2>5, <2>6, <2>10
    <3> QED BY <3>1, <3>2 DEF OwnRows
  <2>11. \E f \in Held[r] : f.fact = "role" /\ f.user = u
    BY <2>2 DEF Policy!HasRole
  <2> HIDE DEF u
  <2>12. Policy!WriteOwn(r)
    BY <1>3, <2>2, <2>8, <2>9, <2>10, <2>11 DEF Policy!WriteOwn
  <2> QED BY <2>3, <2>12, PolicyAct
<1>5. ASSUME NEW t \in Reqs, NEW status \in StatusInputs \cup {Keep},
             NEW assignee \in {Keep, Nobody}, UpdateTicket(r, t, status, assignee)
      PROVE  Policy!Next
  <2>1. /\ req[r].by.op = "updateSupportTicket"
        /\ WriteTicket(r, t, status, assignee)
    BY <1>5 DEF UpdateTicket, Called, At
  <2>2. /\ status \in TicketStatuses \cup {Keep}
        /\ assignee \in Users \cup {Nobody, Keep}
    BY TicketAssumption
  <2> QED BY <1>1, <2>1, <2>2, WriteTicketStep
<1>6. ASSUME NEW t \in Reqs, NEW status \in StatusInputs \cup {Keep},
             NEW u \in Users \cup {Nobody}, AssertAssignable(r, t, status, u)
      PROVE  Policy!Next
  <2> DEFINE what == [ticket |-> t, status |-> status, to |-> u]
  <2>1. /\ req[r].by.op = "updateSupportTicket" /\ UNCHANGED tickets
        /\ \/ /\ u \in Users /\ users[u].role \in StaffRoles
              /\ Go(r, "found", what)
           \/ Refuse(r, "invalid")
    BY <1>6 DEF AssertAssignable, Called, At
  <2>2. what.to = u
    OBVIOUS
  <2> HIDE DEF what
  <2>3. CASE Refuse(r, "invalid")
    <3>1. req'[r].pc # "found"
      BY <1>1, <2>3, RefuseStops DEF TypeOK, Refusals, Stops, Moves
    <3> QED BY <1>1, <1>2, <2>1, <3>1, OutcomeLearnsNothing, ForgetStep
  <2>4. CASE /\ u \in Users /\ users[u].role \in StaffRoles
             /\ Go(r, "found", what)
    <3>1. req'[r].by = req[r].by /\ kept'[r] = what /\ req'[r].pc = "found"
      BY <1>1, <2>4, GoKeeps
    <3>2. \A q \in Reqs \ {r} : req'[q] = req[q] /\ kept'[q] = kept[q]
      BY <1>1 DEF Outcome, Stops, Goes, Moves
    <3>3. CallerFacts(r)' \subseteq CallerFacts(r)
      BY <1>1, <3>1, CallerKept DEF InFlight, Begun, Stages
    <3>4. ManagerFacts(r)' = {}
      BY <2>1, <3>1 DEF ManagerFacts, At
    <3>5. AssigneeFacts(r)' \subseteq {Policy!IsStaff(u)}
      BY <2>2, <3>1 DEF AssigneeFacts, Policy!IsStaff
    <3>6. Policy!IsStaff(u) \in Policy!Facts
      BY <2>4 DEF Policy!Facts
    <3>7. \A q \in Reqs : Held'[q] \subseteq Held[q] \cup Policy!Facts
      BY <3>2, <3>3, <3>4, <3>5, <3>6, HeldKept, HeldParts
    <3> QED BY <1>2, <2>1, <3>7, LearnStep
  <2> QED BY <2>1, <2>3, <2>4
<1>7. ASSUME AssignTicket(r) PROVE Policy!Next
  <2>1. /\ req[r].by.op = "updateSupportTicket"
        /\ At(r, "found", "updateSupportTicket")
        /\ WriteTicket(r, kept[r].ticket, kept[r].status, kept[r].to)
    BY <1>7 DEF AssignTicket, At
  <2>2. kept[r] \in Assignments
    BY <2>1 DEF Sound, Carries, Assigning
  <2>3. /\ kept[r].status \in TicketStatuses \cup {Keep}
        /\ kept[r].to \in Users \cup {Nobody, Keep}
    BY <2>2 DEF Assignments
  <2>4. Policy!IsStaff(kept[r].to) \in Held[r]
    BY <2>1, HeldParts DEF AssigneeFacts, Policy!IsStaff
  <2> QED BY <1>1, <2>1, <2>3, <2>4, WriteTicketStep
<1>8. ASSUME FindTickets(r) PROVE Policy!Next
  <2>1. UNCHANGED tickets /\ req[r].by.op \in TicketQueries
    BY <1>8 DEF FindTickets, Called, At, TicketQueries
  <2>2. req[r].by.op \notin Looking
    BY <2>1 DEF TicketQueries, Looking
  <2> QED BY <1>1, <1>2, <2>1, <2>2, OutcomeLearnsNothing, ForgetStep
<1> QED BY <1>4, <1>5, <1>6, <1>7, <1>8 DEF ServeTickets

LEMMA AdvertisersStep ==
    ASSUME Sound, NEW r \in Reqs, Asks(r, AdvertiserOps), ServeAdvertisers(r),
           NotAdvertisers
    PROVE  Policy!Next
<1>1. req[r].pc \in Begun /\ Outcome(r) /\ TypeOK
  BY ServeAdvertisersOutcome DEF Sound
<1>2. /\ advertisers \in [DOMAIN advertisers -> AdvertiserRows]
      /\ UNCHANGED <<users, rolePermissions, notices, reads, payments, tickets,
                     registry>>
  BY DEF Sound, TypeOK, AdvertisersTypeOK, NotAdvertisers, accountVars, noticeVars
<1>3. UNCHANGED advertiserVars => TablesStay
  BY DEF NotAdvertisers, TablesStay
<1>4. req'[r].pc # "found" \/ req[r].by.op # "updateAdvertiser"
        => \A q \in Reqs : Held'[q] \subseteq Held[q]
  <2>1. req[r].by.op # "updateSupportTicket"
    BY DEF Asks, AdvertiserOps, CampaignOps, CampaignLists
  <2> QED BY <1>1, <2>1, OutcomeLearnsNothing DEF Looking
<1>5. UNCHANGED <<Desk, PublishedRows, Assigned, OwnRows>>
  BY <1>2 DEF Desk, Progress, PublishedRows, Assigned, OwnRows, HasRead
<1>6. ASSUME NEW manager \in Users \cup {Nobody}, CreateAdvertiser(r, manager)
      PROVE  Policy!Next
  <2> DEFINE row == [manager |-> manager, deleted |-> FALSE]
  <2>1. req[r].by.op = "createAdvertiser"
    BY <1>6 DEF CreateAdvertiser, Called, At
  <2>2. CASE UNCHANGED advertiserVars
    BY <1>3, <1>4, <2>1, <2>2, ForgetStep
  <2>3. CASE advertisers' = Insert(advertisers, r, row)
    <3>1. r \notin DOMAIN advertisers
      BY <1>1, Unnamed DEF Names
    <3>2. row.deleted = FALSE
      OBVIOUS
    <3> HIDE DEF row
    <3>3. /\ DOMAIN advertisers' = DOMAIN advertisers \cup {r}
          /\ advertisers'[r] = row
          /\ \A a \in DOMAIN advertisers : advertisers'[a] = advertisers[a]
      BY <2>3, <3>1 DEF Insert
    <3>4. ManagerOf \subseteq ManagerOf'
      BY <3>3 DEF ManagerOf
    <3>5. Removed' = Removed
      BY <3>1, <3>2, <3>3 DEF Removed
    <3>6. /\ req[r].by.user \in Users /\ req[r].by.passed \in Managers
          /\ Policy!HasRole(req[r].by.user, req[r].by.passed) \in Held[r]
      BY <1>1, <2>1, Acting, CallerIsUser DEF NeedsManager, Begun, Stages
    <3>7. \/ Policy!ActsAs(r, {"ADMIN", "SUPER_ADMIN"})
          \/ Policy!ActsAs(r, {"MANAGER"})
      BY <3>6 DEF Policy!ActsAs, Managers
    <3>8. Policy!Manage(r)
      BY <1>2, <1>5, <3>4, <3>5, <3>7 DEF Policy!Manage
    <3> QED BY <1>4, <2>1, <3>8, PolicyAct
  <2> QED BY <1>6, <2>2, <2>3 DEF CreateAdvertiser
<1>7. ASSUME NEW manager \in Users \cup {Nobody}, UpdateAdvertiser(r, manager)
      PROVE  Policy!Next
  <2> DEFINE a == kept[r]
             u == req[r].by.user
             row == [advertisers[a] EXCEPT !.manager = manager]
  <2>1. /\ At(r, "found", "updateAdvertiser") /\ req[r].by.op = "updateAdvertiser"
        /\ advertisers' = [advertisers EXCEPT ![a] = row]
        /\ Reply(r)
    BY <1>7 DEF UpdateAdvertiser, At
  <2>2. a \in DOMAIN advertisers /\ req[r].by.role \in Managers
    BY <2>1 DEF Sound, Carries, Managing
  <2>3. row.deleted = advertisers[a].deleted
    BY <1>2, <2>2 DEF AdvertiserRows
  <2>4. /\ u \in Users /\ Policy!HasRole(u, req[r].by.role) \in Held[r]
    BY <1>1, <2>1, Acting DEF NeedsManager
  <2>5. req[r].by.role = "MANAGER" => Policy!Manages(u, a) \in Held[r]
    BY <2>1, HeldParts DEF ManagerFacts, Policy!Manages
  <2>6. req'[r].pc # "found"
    BY <1>1, <2>1, GoKeeps DEF Reply
  <2> HIDE DEF row, a, u
  <2>7. DOMAIN advertisers' = DOMAIN advertisers
    BY <2>1
  <2>8. Removed' = Removed
    BY <2>1, <2>2, <2>3, <2>7 DEF Removed
  <2>9. \A m \in ManagerOf \ ManagerOf' : m[1] = a
    <3> SUFFICES ASSUME NEW b \in DOMAIN advertisers, b # a
                 PROVE  <<b, advertisers[b].manager>> \in ManagerOf'
      BY DEF ManagerOf
    <3>1. advertisers'[b] = advertisers[b]
      BY <2>1
    <3> QED BY <2>7, <3>1 DEF ManagerOf
  <2>10. \/ Policy!ActsAs(r, {"ADMIN", "SUPER_ADMIN"})
         \/ /\ Policy!ActsAs(r, {"MANAGER"})
            /\ \A m \in ManagerOf \ ManagerOf' :
                 \E v \in Users : {Policy!HasRole(v, "MANAGER"), Policy!Manages(v, m[1])}
                                     \subseteq Held[r]
    <3>1. CASE req[r].by.role \in {"ADMIN", "SUPER_ADMIN"}
      BY <2>4, <3>1 DEF Policy!ActsAs
    <3>2. CASE req[r].by.role = "MANAGER"
      <4>1. Policy!ActsAs(r, {"MANAGER"})
        BY <2>4, <3>2 DEF Policy!ActsAs
      <4>2. {Policy!HasRole(u, "MANAGER"), Policy!Manages(u, a)} \subseteq Held[r]
        BY <2>4, <2>5, <3>2
      <4> QED BY <2>4, <2>9, <4>1, <4>2
    <3> QED BY <2>2, <3>1, <3>2 DEF Managers
  <2>11. Policy!Manage(r)
    BY <1>2, <1>5, <2>8, <2>10 DEF Policy!Manage
  <2> QED BY <1>4, <2>6, <2>11, PolicyAct
<1>8. ASSUME NEW a \in AdvertiserIds, FindAdvertiser(r, a) PROVE Policy!Next
  <2>1. /\ req[r].by.op = "updateAdvertiser" /\ UNCHANGED advertiserVars
        /\ \/ Refuse(r, "notFound") \/ Refuse(r, "forbidden")
           \/ /\ a \in DOMAIN advertisers /\ CanWrite(req[r].by, a)
              /\ Go(r, "found", a)
    BY <1>8 DEF FindAdvertiser, Called, At
  <2>2. CASE Refuse(r, "notFound") \/ Refuse(r, "forbidden")
    <3>1. req'[r].pc # "found"
      BY <1>1, <2>2, RefuseStops DEF TypeOK, Refusals, Stops, Moves
    <3> QED BY <1>3, <1>4, <2>1, <3>1, ForgetStep
  <2>3. CASE /\ a \in DOMAIN advertisers /\ CanWrite(req[r].by, a)
             /\ Go(r, "found", a)
    <3> DEFINE u == req[r].by.user
    <3>1. req'[r].by = req[r].by /\ kept'[r] = a /\ req'[r].pc = "found"
      BY <1>1, <2>3, GoKeeps
    <3>2. \A q \in Reqs \ {r} : req'[q] = req[q] /\ kept'[q] = kept[q]
      BY <1>1 DEF Outcome, Stops, Goes, Moves
    <3>3. CallerFacts(r)' \subseteq CallerFacts(r)
      BY <1>1, <3>1, CallerKept DEF InFlight, Begun, Stages
    <3>4. AssigneeFacts(r)' = {}
      BY <2>1, <3>1 DEF AssigneeFacts, At
    <3>5. ManagerFacts(r)' \subseteq {Policy!Manages(u, a)}
      BY <3>1 DEF ManagerFacts, Policy!Manages
    <3>6. req[r].by.role = "MANAGER" => advertisers[a].manager = u
      BY <2>3 DEF CanWrite
    <3>7. req[r].by.role = "MANAGER" => Policy!Manages(u, a) \in Policy!Facts
      <4>1. ASSUME req[r].by.role = "MANAGER" PROVE <<a, u>> \in ManagerOf
        BY <2>3, <3>6, <4>1 DEF ManagerOf
      <4> QED BY <4>1 DEF Policy!Facts
    <3>8. req[r].by.role # "MANAGER" => ManagerFacts(r)' = {}
      BY <3>1 DEF ManagerFacts
    <3>9. \A q \in Reqs : Held'[q] \subseteq Held[q] \cup Policy!Facts
      BY <3>2, <3>3, <3>4, <3>5, <3>7, <3>8, HeldKept, HeldParts
    <3> QED BY <1>3, <2>1, <3>9, LearnStep
  <2> QED BY <2>1, <2>2, <2>3
<1>9. ASSUME NEW a \in AdvertiserIds, SoftDelete(r, a) PROVE Policy!Next
  <2>1. req[r].by.op = "softDeleteAdvertiser"
    BY <1>9 DEF SoftDelete, Called, At
  <2>2. CASE a \notin DOMAIN advertisers
    <3>1. UNCHANGED advertiserVars
      BY <1>9, <2>2 DEF SoftDelete, advertiserVars
    <3> QED BY <1>3, <1>4, <2>1, <3>1, ForgetStep
  <2>3. CASE a \in DOMAIN advertisers
    <3> DEFINE row == [advertisers[a] EXCEPT !.deleted = TRUE]
    <3>1. advertisers' = [advertisers EXCEPT ![a] = row]
      BY <1>9, <2>3 DEF SoftDelete
    <3>2. row.deleted = TRUE /\ row.manager = advertisers[a].manager
      BY <1>2, <2>3 DEF AdvertiserRows
    <3> HIDE DEF row
    <3>3. DOMAIN advertisers' = DOMAIN advertisers
      BY <3>1
    <3>4. Removed \subseteq Removed'
      BY <3>1, <3>2, <3>3 DEF Removed
    <3>5. \A b \in DOMAIN advertisers : advertisers'[b].manager = advertisers[b].manager
      BY <2>3, <3>1, <3>2
    <3>6. ManagerOf' = ManagerOf
      BY <3>3, <3>5 DEF ManagerOf
    <3>7. Policy!ActsAs(r, {"ADMIN", "SUPER_ADMIN"})
      BY <1>1, <2>1, ActingAs DEF NeedsAdmin
    <3>8. Policy!Remove(r)
      BY <1>2, <1>5, <3>4, <3>6, <3>7 DEF Policy!Remove
    <3> QED BY <1>4, <2>1, <3>8, PolicyAct
  <2> QED BY <2>2, <2>3
<1>10. ASSUME UNCHANGED advertiserVars, req[r].by.op # "updateAdvertiser"
       PROVE  Policy!Next
  BY <1>3, <1>4, <1>10, ForgetStep
<1>11. ASSUME ListPage(r) PROVE Policy!Next
  BY <1>10, <1>11 DEF ListPage, Called, At
<1>12. ASSUME NEW c, FindCampaign(r, c) PROVE Policy!Next
  BY <1>10, <1>12 DEF FindCampaign, CampaignCall, CampaignOps
<1>13. ASSUME CheckOwner(r) PROVE Policy!Next
  BY <1>10, <1>13 DEF CheckOwner, CampaignCall, CampaignOps
<1>14. ASSUME NEW my \in BOOLEAN, ListCampaigns(r, my) PROVE Policy!Next
  BY <1>10, <1>14 DEF ListCampaigns, CampaignLists
<1> QED
  BY <1>6, <1>7, <1>8, <1>9, <1>11, <1>12, <1>13, <1>14 DEF ServeAdvertisers
-----------------------------------------------------------------------------
\* The steps of a request before its handler and after it, and its loss.
LEMMA OthersKept ==
    ASSUME Sound, NEW r \in Reqs, NEW state \in ReqStates, NEW what,
           Become(r, state, what)
    PROVE  /\ req'[r] = state
           /\ \A q \in Reqs \ {r} : Held'[q] = Held[q]
<1>1. Moves(r, state, what)
  BY BecomeMoves DEF Sound, TypeOK
<1> QED BY <1>1, HeldKept DEF Moves

LEMMA EndStep ==
    ASSUME Sound, NotAccounts, UNCHANGED accountVars, NEW r \in Reqs,
           Fail(r) \/ \E why \in Refusals : Refuse(r, why)
    PROVE  Policy!Next
<1>1. TablesStay
  BY DEF TablesStay, NotAccounts
<1>2. PICK state \in ReqStates : /\ state.pc \notin Stages
                                 /\ Become(r, state, Nothing)
  <2>1. CASE Fail(r)
    <3>1. [pc |-> "failed"] \in ReqStates
      BY DEF ReqStates
    <3> QED BY <2>1, <3>1 DEF Fail, Stages
  <2>2. ASSUME NEW why \in Refusals, Refuse(r, why)
        PROVE  \E state \in ReqStates : /\ state.pc \notin Stages
                                        /\ Become(r, state, Nothing)
    <3>1. [pc |-> "refused", why |-> why] \in ReqStates
      BY DEF ReqStates
    <3> QED BY <2>2, <3>1 DEF Refuse, Stages
  <2> QED BY <2>1, <2>2
<1>3. req'[r].pc \notin Stages \ {"ok"}
  BY <1>2, OthersKept
<1>4. Held'[r] = {}
  BY <1>3, HeldEnds
<1>5. \A q \in Reqs : Held'[q] \subseteq Held[q]
  BY <1>2, <1>4, OthersKept
<1> QED BY <1>1, <1>5, ForgetStep

\* Whom a request that is let in speaks for.
Claims(by) ==
    IF by.user = Nobody THEN {}
    ELSE {Policy!HasRole(by.user, role) : role \in {by.passed, by.role}}

LEMMA LetInStep ==
    ASSUME Sound, NotAccounts, UNCHANGED accountVars, NEW r \in Reqs,
           NEW by \in Callers, NEW pc \in {"again", "call"},
           Become(r, [pc |-> pc, by |-> by], Nothing),
           Claims(by) \subseteq Held[r] \cup Policy!Facts
    PROVE  Policy!Next
<1> DEFINE state == [pc |-> pc, by |-> by]
<1>1. TablesStay
  BY DEF TablesStay, NotAccounts
<1>2. state \in ReqStates /\ state.pc = pc /\ state.by = by
  BY DEF ReqStates, Stages
<1> HIDE DEF state
<1>3. /\ req'[r].pc = pc /\ req'[r].by = by
      /\ \A q \in Reqs \ {r} : Held'[q] = Held[q]
  BY <1>2, OthersKept DEF state
<1>4. CallerFacts(r)' \subseteq Claims(by)
  BY <1>3 DEF CallerFacts, Claims, Policy!HasRole
<1>5. AssigneeFacts(r)' = {} /\ ManagerFacts(r)' = {}
  BY <1>3 DEF AssigneeFacts, ManagerFacts, At
<1>6. \A q \in Reqs : Held'[q] \subseteq Held[q] \cup Policy!Facts
  BY <1>3, <1>4, <1>5, HeldParts
<1> QED BY <1>1, <1>6, LearnStep

LEMMA EnterStep ==
    ASSUME Sound, NotAccounts, UNCHANGED accountVars, NEW r \in Reqs,
           NEW by \in Callers, Enter(r, by),
           Claims(by) \subseteq Held[r] \cup Policy!Facts
    PROVE  Policy!Next
<1>1. CASE Become(r, [pc |-> "call", by |-> by], Nothing)
  BY <1>1, LetInStep
<1>2. CASE Refuse(r, "undecorated") \/ Refuse(r, "invalid")
  BY <1>2, EndStep DEF Refusals
<1> QED BY <1>1, <1>2 DEF Enter

LEMMA ArriveStep ==
    ASSUME Sound, NEW r \in Reqs, Arrive(r), NotAccounts
    PROVE  Policy!Next
<1>1. CASE Throttle(r)
  BY <1>1, EndStep DEF Throttle, Refusals
<1>2. ASSUME NEW op \in Operations, AdmitPublic(r, op) PROVE Policy!Next
  <2> DEFINE by == [op |-> op, user |-> Nobody, passed |-> Nobody, role |-> Nobody]
  <2>1. by \in Callers /\ by.user = Nobody
    BY DEF Callers
  <2>2. Enter(r, by) /\ UNCHANGED accountVars
    BY <1>2 DEF AdmitPublic
  <2> HIDE DEF by
  <2>3. Claims(by) = {}
    BY <2>1 DEF Claims
  <2> QED BY <2>1, <2>2, <2>3, EnterStep
<1>3. ASSUME NEW op \in Operations, NEW u \in Users, Admit(r, op, u)
      PROVE  Policy!Next
  <2> DEFINE role == users[u].role
             by == Caller(op, u, role)
  <2>1. role \in Roles
    BY DEF Sound, TypeOK, AccountsTypeOK, UserRows
  <2>2. by \in Callers /\ by.user = u /\ by.passed = role /\ by.role = role
    BY <2>1 DEF Caller, Callers
  <2>3. /\ UNCHANGED accountVars
        /\ \/ Refuse(r, "unauthorized") \/ Refuse(r, "forbidden")
           \/ /\ users[u].active
              /\ \/ Become(r, [pc |-> "again", by |-> by], Nothing)
                 \/ Enter(r, by)
    BY <1>3 DEF Admit
  <2>4. ASSUME users[u].active PROVE Policy!HasRole(u, role) \in Policy!Facts
    BY <2>4 DEF Policy!Facts
  <2> HIDE DEF role, by
  <2>5. Claims(by) \subseteq {Policy!HasRole(u, role)}
    BY <2>2 DEF Claims
  <2> QED BY <2>2, <2>3, <2>4, <2>5, EndStep, LetInStep, EnterStep DEF Refusals
<1> QED BY <1>1, <1>2, <1>3 DEF Arrive

LEMMA ReauthenticateStep ==
    ASSUME Sound, NEW r \in Reqs, Reauthenticate(r), NotAccounts
    PROVE  Policy!Next
<1> DEFINE u == req[r].by.user
           role == users[u].role
           by == [req[r].by EXCEPT !.role = role]
<1>1. req[r].pc = "again" /\ UNCHANGED accountVars
  BY DEF Reauthenticate
<1>2. u \in Users
  BY <1>1 DEF Sound, Judged, Stages
<1>3. req[r].by \in Callers
  <2>1. req[r] \in [pc : Stages, by : Callers]
    BY <1>1, ServedShape DEF Sound, TypeOK, Stages
  <2> QED BY <2>1
<1>4. role \in Roles
  BY <1>2 DEF Sound, TypeOK, AccountsTypeOK, UserRows
<1>5. /\ by \in Callers /\ by.user = u
      /\ by.passed = req[r].by.passed /\ by.role = role
  BY <1>3, <1>4 DEF Callers
<1>6. \/ users[u].active /\ Enter(r, by)
      \/ Refuse(r, "unauthorized")
  BY DEF Reauthenticate
<1>7. Policy!HasRole(u, req[r].by.passed) \in Held[r]
  <2>1. InFlight(r) /\ u # Nobody
    BY <1>1, <1>2, AccountAssumption DEF InFlight, Stages
  <2>2. Policy!HasRole(u, req[r].by.passed) \in CallerFacts(r)
    BY <2>1 DEF CallerFacts, Policy!HasRole
  <2> QED BY <2>2, HeldParts
<1>8. ASSUME users[u].active PROVE Policy!HasRole(u, role) \in Policy!Facts
  BY <1>2, <1>8 DEF Policy!Facts
<1> HIDE DEF by, role, u
<1>9. Claims(by) \subseteq {Policy!HasRole(u, req[r].by.passed), Policy!HasRole(u, role)}
  BY <1>5 DEF Claims
<1> QED BY <1>1, <1>5, <1>6, <1>7, <1>8, <1>9, EnterStep, EndStep DEF Refusals

LEMMA SendReplyStep ==
    ASSUME Sound, NEW r \in Reqs, SendReply(r), NotAccounts
    PROVE  Policy!Next
<1> DEFINE state == [req[r] EXCEPT !.pc = "ok"]
<1>1. req[r].pc = "reply" /\ Go(r, "ok", kept[r]) /\ UNCHANGED accountVars
  BY DEF SendReply
<1>2. req[r] \in [pc : Stages, by : Callers]
  BY <1>1, ServedShape DEF Sound, TypeOK, Stages
<1>3. state \in ReqStates /\ state.pc = "ok"
  BY <1>2 DEF ReqStates, Stages
<1>4. Become(r, state, kept[r])
  BY <1>1 DEF Go
<1> HIDE DEF state
<1>5. req'[r].pc = "ok"
  BY <1>3, <1>4, OthersKept
<1>6. Held'[r] = {}
  BY <1>5, HeldEnds
<1>7. \A q \in Reqs : Held'[q] \subseteq Held[q]
  BY <1>3, <1>4, <1>6, OthersKept
<1>8. TablesStay
  BY <1>1 DEF TablesStay, NotAccounts
<1> QED BY <1>7, <1>8, ForgetStep

LEMMA CrashStep ==
    ASSUME Crash, NotAccounts
    PROVE  Policy!Next
<1>1. ASSUME NEW q \in Reqs PROVE Held'[q] \subseteq Held[q]
  <2>1. CASE InFlight(q)
    <3>1. req'[q].pc = "failed"
      BY <2>1 DEF Crash
    <3> QED BY <3>1, HeldEnds DEF Stages
  <2>2. CASE ~InFlight(q)
    BY <2>2, HeldKept DEF Crash
  <2> QED BY <2>1, <2>2
<1>2. TablesStay
  BY DEF TablesStay, NotAccounts, Crash
<1> QED BY <1>1, <1>2, ForgetStep

LEMMA ServeStep ==
    ASSUME Sound, NEW r \in Reqs, Serve(r)
    PROVE  Policy!Next
  BY ReauthenticateStep, SendReplyStep, AccountsStep, AnswerStep, NoticesStep,
     TicketsStep, PayoutsStep, AdvertisersStep, RegistryStep
  DEF Serve

LEMMA AuthorityNext ==
    ASSUME Sound, [Next]_vars
    PROVE  [Policy!Next]_(Policy!vars)
<1>1. ASSUME NEW r \in Reqs, Serve(r) PROVE Policy!Next
  BY <1>1, ServeStep
<1>2. ASSUME NEW r \in Reqs, Arrive(r), NotAccounts PROVE Policy!Next
  BY <1>2, ArriveStep
<1>3. ASSUME NEW r \in Reqs, CallFails(r), NotAccounts PROVE Policy!Next
  BY <1>3, EndStep DEF CallFails
<1>4. CASE Crash /\ NotAccounts
  BY <1>4, CrashStep
<1>5. CASE UNCHANGED vars
  <2>1. TablesStay
    BY <1>5 DEF vars, TablesStay
  <2>2. UNCHANGED req /\ UNCHANGED kept
    BY <1>5 DEF vars, requestVars
  <2>3. \A q \in Reqs : Held'[q] \subseteq Held[q]
    BY <2>2, HeldKept
  <2> QED BY <2>1, <2>3, ForgetStep
<1> QED BY <1>1, <1>2, <1>3, <1>4, <1>5 DEF Next

LEMMA AuthorityInit == Init => Policy!Init
<1> SUFFICES ASSUME Init PROVE Policy!Init
  OBVIOUS
<1>1. ASSUME NEW r \in Reqs PROVE Held[r] = {}
  <2>1. req[r].pc = "new"
    BY DEF Init, AccountsInit
  <2> QED BY <2>1 DEF Held, CallerFacts, AssigneeFacts, ManagerFacts, InFlight,
                      At, Stages
<1>2. Held = [r \in Reqs |-> {}]
  BY <1>1 DEF Held
<1> QED BY <1>2 DEF Policy!Init

\* The guards, the handlers' own checks and the writes implement Authority:
\* whatever overlaps between the moment a role, a manager or an assignee is
\* looked up and the moment it is acted on, every write is one its caller was
\* found entitled to.
THEOREM BackOfficeImplementsAuthority == Spec => ImplementsAuthority
<1>1. Init => Policy!Init
  BY AuthorityInit
<1>2. Sound /\ [Next]_vars => [Policy!Next]_(Policy!vars)
  BY AuthorityNext
<1> QED BY <1>1, <1>2, SoundAlways, PTL
           DEF Spec, ImplementsAuthority, Policy!Spec

-----------------------------------------------------------------------------
\* A request that acts as a super admin learnt it before, or just now of one.
LEMMA LeaderlessLearns ==
    ASSUME Policy!Leaderless, \A q \in Reqs : Held'[q] \subseteq Held[q] \cup Policy!Facts,
           NEW r \in Reqs
    PROVE  ~Policy!ActsAs(r, {"SUPER_ADMIN"})'
<1> SUFFICES ASSUME NEW u \in Users, Policy!HasRole(u, "SUPER_ADMIN") \in Held'[r]
             PROVE  FALSE
  BY DEF Policy!ActsAs, Policy!HasRole
<1>1. Policy!HasRole(u, "SUPER_ADMIN") \notin Held[r]
  BY DEF Policy!Leaderless, Policy!ActsAs
<1>2. Policy!HasRole(u, "SUPER_ADMIN") \notin Policy!Facts
  BY DEF Policy!Facts, Policy!HasRole, Policy!IsStaff, Policy!Manages,
         Policy!Leaderless
<1> QED BY <1>1, <1>2

LEMMA LeaderlessStep ==
    ASSUME Sound, [Policy!Next]_(Policy!vars)
    PROVE  Policy!StaysLeaderless
<1> SUFFICES ASSUME Policy!Leaderless
             PROVE  /\ Policy!Leaderless'
                    /\ \A u \in Users : users'[u].role = users[u].role
                    /\ rolePermissions' = rolePermissions
                    /\ PublishedRows \subseteq PublishedRows'
  BY DEF Policy!StaysLeaderless
<1>1. users \in [Users -> UserRows]
  BY DEF Sound, TypeOK, AccountsTypeOK
<1>2. \A q \in Reqs : Held'[q] \subseteq Held[q] \cup Policy!Facts
  BY DEF Policy!vars, Policy!Next, Policy!Learn, Policy!Act
<1>3. \A r \in Reqs : ~Policy!ActsAs(r, {"SUPER_ADMIN"})
  BY DEF Policy!Leaderless
<1>4. /\ \A u \in Users : users'[u].role = users[u].role
      /\ rolePermissions' = rolePermissions
      /\ PublishedRows \subseteq PublishedRows'
  <2>1. ASSUME NEW r \in Reqs, Policy!SetActive(r)
        PROVE  \A u \in Users : users'[u].role = users[u].role
    BY <1>1, <2>1 DEF Policy!SetActive, UserRows
  <2> QED
    BY <1>3, <2>1
       DEF Policy!vars, Policy!Next, Policy!Learn, Policy!Act, Policy!SetActive,
           Policy!ChangeRole, Policy!ChangePowers, Policy!Work, Policy!Withdraw,
           Policy!Manage, Policy!Remove, Policy!WriteOwn
<1>5. Policy!Leaderless'
  BY <1>2, <1>4, LeaderlessLearns DEF Policy!Leaderless
<1> QED BY <1>4, <1>5

\* Nobody comes to power by a race: when no super admin is left, none appears,
\* and no role, permission or published row changes hands, for every number
\* of users and of overlapping requests.
THEOREM NoPowerFromNothing == Spec => PowerComesFromSuperAdmins
<1>1. Sound /\ [Next]_vars => [Policy!StaysLeaderless]_(Policy!vars)
  BY AuthorityNext, LeaderlessStep
<1> QED BY <1>1, SoundAlways, PTL
           DEF Spec, PowerComesFromSuperAdmins, Policy!LeaderlessForGood
===============================================================================
