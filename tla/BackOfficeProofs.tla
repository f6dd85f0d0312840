--------------------------- MODULE BackOfficeProofs ---------------------------
(***************************************************************************)
(* Proofs about BackOffice, for every value of its constants: whatever the *)
(* users, the requests and what they ask for.                              *)
(*                                                                         *)
(* Sound is the inductive invariant.  Its parts say what a request carries *)
(* from one awaited call to the next: who the guards have let in, and what *)
(* of the rows it has read is still so whatever others do to the tables.   *)
(***************************************************************************)
EXTENDS BackOffice, AccessProofs

Done == {"reply", "ok"}
MarkingOps == {"markNotificationRead", "markAllNotificationsRead"}
TicketQueries == {"mySupportTickets", "supportTickets"}

\* The guards have let in a public operation, or a user whose role passed.
Judged(r) ==
    req[r].pc \in Stages =>
        LET by == req[r].by IN
        \/ by.user = Nobody /\ IsPublic(by.op) /\ req[r].pc # "again"
        \/ /\ by.user \in Users /\ by.passed \in Roles /\ by.role \in Roles
           /\ by.op \in NeedsSuper => by.passed = "SUPER_ADMIN"
           /\ by.op \in NeedsAdmin => by.passed \in Admins
           /\ by.op \in NeedsManager => by.passed \in Managers
           /\ by.op \in NeedsStaff => by.passed \in StaffRoles

\* A marking has rows for what it has looked up, and for all in the end.
Marking(r) ==
    req[r].pc \in Stages /\ req[r].by.op \in MarkingOps =>
        LET stored(ids) == ids \X {req[r].by.user} \subseteq reads IN
        /\ req[r].pc \in {"found", "checked"} => kept[r] \in Markings
        /\ req[r].pc = "checked" => stored(kept[r].seen \ kept[r].missing)
        /\ req[r].pc \in Done => stored(kept[r].seen)

NoticesShown(r) ==
    req[r].pc \in Done /\ req[r].by.op = "notifications" =>
        \A n \in kept[r] : /\ n \in DOMAIN notices
                           /\ notices[n] \in {req[r].by.user, Everyone}

Assigning(r) == At(r, "found", "updateSupportTicket") => kept[r] \in Assignments

TicketsShown(r) ==
    req[r].pc \in Done /\ req[r].by.op \in TicketQueries =>
        \A t \in kept[r] : /\ t \in DOMAIN tickets
                           /\ \/ req[r].by.passed \in StaffRoles
                              \/ tickets[t].owner = req[r].by.user

PaymentsShown(r) ==
    req[r].pc \in Done \cup {"found"} /\ PaymentQuery(r) =>
        req[r].by.role \in StaffRoles \/ kept[r] = req[r].by.user

Managing(r) ==
    At(r, "found", "updateAdvertiser") =>
        kept[r] \in DOMAIN advertisers /\ req[r].by.role \in Managers

CampaignsShown(r) ==
    /\ req[r].pc \in Done /\ CampaignCall(r) =>
         req[r].by.role \in StaffRoles \/ CampaignOwner[kept[r]] = req[r].by.user
    /\ req[r].pc \in Done /\ req[r].by.op \in CampaignLists =>
         \/ req[r].by.role \in StaffRoles
         \/ \A c \in kept[r] : CampaignOwner[c] = req[r].by.user

Walks == [skip : Nat, seen : SUBSET AdvertiserIds, due : SUBSET AdvertiserIds]

\* What a walk has not shown yet is behind the pages it has shown.
Walking(r) ==
    req[r].pc \in Done \cup {"found"} /\ req[r].by.op = "advertisers" =>
        /\ req[r].pc = "found" =>
             /\ kept[r] \in Walks
             /\ \A a \in kept[r].due \ kept[r].seen :
                  \E i \in 1..Len(directory) :
                     directory[i] = a /\ Len(directory) - i >= kept[r].skip
        /\ req[r].pc \in Done => kept[r].due \subseteq kept[r].seen

Carries(r) ==
    /\ Marking(r)
    /\ NoticesShown(r)
    /\ Assigning(r)
    /\ TicketsShown(r)
    /\ PaymentsShown(r)
    /\ Managing(r)
    /\ CampaignsShown(r)
    /\ Walking(r)

\* A row is named by a request that has created it and will not do so again.
Named(r) ==
    r \in DOMAIN notices \cup DOMAIN tickets \cup DOMAIN advertisers
        => req[r].pc \in Done \cup {"failed"}

\* Every advertiser has its place in the listing.
Listed == \A a \in DOMAIN advertisers :
            \E i \in 1..Len(directory) : directory[i] = a

Sound ==
    /\ TypeOK
    /\ \A r \in Reqs : Judged(r) /\ Carries(r) /\ Named(r)
    /\ Listed

-----------------------------------------------------------------------------
\* A request is moved and no other; it stops, or goes on for the same caller.
Moves(r, s, what) ==
    /\ req' \in [Reqs -> ReqStates] /\ DOMAIN kept' = Reqs /\ traffic' \in Traffic
    /\ req'[r] = s /\ kept'[r] = what
    /\ \A q \in Reqs \ {r} : req'[q] = req[q] /\ kept'[q] = kept[q]

Stops(r) ==
    \E s \in ReqStates : s.pc \in {"refused", "failed"} /\ Moves(r, s, Nothing)

Goes(r, pc, what) == Moves(r, [pc |-> pc, by |-> req[r].by], what)

Begun == {"again", "call", "found", "checked"}

Names == DOMAIN notices \cup DOMAIN tickets \cup DOMAIN advertisers

\* What requests rely on while others write: rows stay, with what was read of
\* them, and the listing only gets longer.
Grow ==
    /\ reads \subseteq reads'
    /\ \A n \in DOMAIN notices : n \in DOMAIN notices' /\ notices'[n] = notices[n]
    /\ \A t \in DOMAIN tickets :
         t \in DOMAIN tickets' /\ tickets'[t].owner = tickets[t].owner
    /\ DOMAIN advertisers \subseteq DOMAIN advertisers'
    /\ Len(directory) \in Nat /\ Len(directory') \in Nat
    /\ Len(directory) <= Len(directory')
    /\ \A i \in 1..Len(directory) : directory'[i] = directory[i]

\* What a step of a service comes to.
Outcome(r) ==
    /\ Grow
    /\ \/ Stops(r) /\ Names' \subseteq Names
       \/ \E what : \E pc \in {"found", "checked"} :
            Goes(r, pc, what) /\ Carries(r)' /\ Names' \subseteq Names
       \/ \E what :
            Goes(r, "reply", what) /\ Carries(r)' /\ Names' \subseteq Names \cup {r}

LEMMA BecomeMoves ==
    ASSUME AccountsTypeOK, NEW r \in Reqs, NEW s \in ReqStates, NEW what,
           Become(r, s, what)
    PROVE  Moves(r, s, what)
  BY DEF AccountsTypeOK, Become, Moves

LEMMA RefuseStops ==
    ASSUME AccountsTypeOK, NEW r \in Reqs, NEW why \in Refusals, Refuse(r, why)
    PROVE  Stops(r)
<1>1. [pc |-> "refused", why |-> why] \in ReqStates
  BY DEF ReqStates
<1> QED BY <1>1, BecomeMoves DEF Refuse, Stops

LEMMA FailStops ==
    ASSUME AccountsTypeOK, NEW r \in Reqs, Fail(r)
    PROVE  Stops(r)
<1>1. [pc |-> "failed"] \in ReqStates
  BY DEF ReqStates
<1> QED BY <1>1, BecomeMoves DEF Fail, Stops

\* A request that is being served has a caller.
LEMMA ServedShape ==
    ASSUME AccountsTypeOK, NEW r \in Reqs, req[r].pc \in Stages
    PROVE  req[r] \in [pc : Stages, by : Callers]
<1>1. req[r] \in ReqStates
  BY DEF AccountsTypeOK
<1> QED BY <1>1 DEF ReqStates, Stages

LEMMA GoMoves ==
    ASSUME AccountsTypeOK, NEW r \in Reqs, req[r].pc \in Stages,
           NEW pc \in Stages, NEW what, Go(r, pc, what)
    PROVE  Goes(r, pc, what)
<1>1. req[r] \in [pc : Stages, by : Callers]
  BY ServedShape
<1>2. [req[r] EXCEPT !.pc = pc] = [pc |-> pc, by |-> req[r].by]
  BY <1>1
<1>3. [pc |-> pc, by |-> req[r].by] \in ReqStates
  BY <1>1 DEF ReqStates
<1> QED BY <1>2, <1>3, BecomeMoves DEF Go, Goes

\* What a request carries stays true while the tables grow around it.
LEMMA CarriesOn ==
    ASSUME Grow, NEW q \in Reqs, req'[q] = req[q], kept'[q] = kept[q], Carries(q)
    PROVE  Carries(q)'
<1>1. Marking(q)'
  BY DEF Carries, Marking, Grow
<1>2. NoticesShown(q)'
  BY DEF Carries, NoticesShown, Grow
<1>3. Assigning(q)'
  BY DEF Carries, Assigning, At
<1>4. TicketsShown(q)'
  BY DEF Carries, TicketsShown, Grow
<1>5. PaymentsShown(q)'
  BY DEF Carries, PaymentsShown, PaymentQuery
<1>6. Managing(q)'
  BY DEF Carries, Managing, At, Grow
<1>7. CampaignsShown(q)'
  BY DEF Carries, CampaignsShown, CampaignCall
<1>8. Walking(q)'
  <2> SUFFICES ASSUME req[q].pc = "found", req[q].by.op = "advertisers",
                      NEW a \in kept[q].due \ kept[q].seen
               PROVE  \E i \in 1..Len(directory') :
                         /\ directory'[i] = a
                         /\ Len(directory') - i >= kept[q].skip
    BY DEF Carries, Walking
  <2>1. PICK i \in 1..Len(directory) :
              directory[i] = a /\ Len(directory) - i >= kept[q].skip
    BY DEF Carries, Walking
  <2>2. kept[q].skip \in Nat
    BY DEF Carries, Walking, Walks
  <2>3. i \in 1..Len(directory') /\ Len(directory') - i >= kept[q].skip
    BY <2>1, <2>2 DEF Grow
  <2> QED BY <2>1, <2>3 DEF Grow
<1> QED BY <1>1, <1>2, <1>3, <1>4, <1>5, <1>6, <1>7, <1>8 DEF Carries

\* One that has stopped carries nothing.
LEMMA StoppedCarries ==
    ASSUME NEW r, req'[r].pc \notin Stages
    PROVE  Carries(r)'
  BY DEF Carries, Marking, NoticesShown, Assigning, TicketsShown, PaymentsShown,
         Managing, CampaignsShown, Walking, At, Stages, Done

\* A step with such an outcome keeps the invariant.
LEMMA OutcomeIsSound ==
    ASSUME Sound, NEW r \in Reqs, req[r].pc \in Begun, Outcome(r),
           TypeOK', Listed'
    PROVE  Sound'
<1>1. \A q \in Reqs : Judged(q) /\ Carries(q) /\ Named(q)
  BY DEF Sound
<1>2. \A q \in Reqs \ {r} : req'[q] = req[q] /\ kept'[q] = kept[q]
  BY DEF Outcome, Stops, Goes, Moves
<1>3. Names' \subseteq Names \cup {r}
  BY DEF Outcome
<1>4. r \notin Names
  BY <1>1 DEF Named, Names, Begun, Done
<1>5. ASSUME NEW q \in Reqs \ {r} PROVE (Judged(q) /\ Carries(q) /\ Named(q))'
  <2>1. Carries(q)'
    BY <1>1, <1>2, <1>5, CarriesOn DEF Outcome
  <2>2. Judged(q)'
    BY <1>1, <1>2, <1>5 DEF Judged
  <2>3. Named(q)'
    BY <1>1, <1>2, <1>3, <1>5 DEF Named, Names
  <2> QED BY <2>1, <2>2, <2>3
<1>6. CASE Stops(r) /\ Names' \subseteq Names
  <2>1. PICK s \in ReqStates : s.pc \in {"refused", "failed"} /\ req'[r] = s
    BY <1>6 DEF Stops, Moves
  <2>2. req'[r].pc \notin Stages
    BY <2>1 DEF Stages
  <2>3. Carries(r)'
    BY <2>2, StoppedCarries
  <2>4. Judged(r)'
    BY <2>2 DEF Judged
  <2>5. Named(r)'
    BY <1>4, <1>6 DEF Named, Names
  <2> QED BY <1>5, <2>3, <2>4, <2>5 DEF Sound
<1>7. CASE \E what : \E pc \in {"found", "checked"} :
             Goes(r, pc, what) /\ Carries(r)' /\ Names' \subseteq Names
  <2>1. /\ Carries(r)' /\ Names' \subseteq Names
        /\ req'[r].by = req[r].by /\ req'[r].pc # "again"
    BY <1>7 DEF Goes, Moves
  <2>2. Judged(r)'
    BY <1>1, <2>1 DEF Judged, Begun, Stages
  <2>3. Named(r)'
    BY <1>4, <2>1 DEF Named, Names
  <2> QED BY <1>5, <2>1, <2>2, <2>3 DEF Sound
<1>8. CASE \E what : /\ Goes(r, "reply", what) /\ Carries(r)'
                     /\ Names' \subseteq Names \cup {r}
  <2>1. PICK what : Goes(r, "reply", what) /\ Carries(r)'
    BY <1>8
  <2>2. req'[r].by = req[r].by /\ req'[r].pc = "reply"
    BY <2>1 DEF Goes, Moves
  <2>3. Judged(r)'
    BY <1>1, <2>2 DEF Judged, Begun, Stages
  <2>4. Named(r)'
    BY <2>2 DEF Named, Done
  <2> QED BY <1>5, <2>1, <2>3, <2>4 DEF Sound
<1> QED BY <1>6, <1>7, <1>8 DEF Outcome

-----------------------------------------------------------------------------
\* What the services have in common.
Showing == MarkingOps \cup TicketQueries \cup PaymentQueries \cup CampaignOps
             \cup CampaignLists \cup {"notifications", "advertisers"}
Looking == {"updateSupportTicket", "updateAdvertiser"}

\* The types of what a step leaves alone.
LEMMA StillTyped ==
    ASSUME TypeOK
    PROVE  /\ UNCHANGED noticeVars => NoticesTypeOK'
           /\ UNCHANGED tickets => TicketsTypeOK'
           /\ UNCHANGED payments => PayoutsTypeOK'
           /\ UNCHANGED advertiserVars => AdvertisersTypeOK'
           /\ UNCHANGED registry => RegistryTypeOK'
<1>1. UNCHANGED noticeVars => NoticesTypeOK'
  BY DEF TypeOK, NoticesTypeOK, noticeVars
<1>2. UNCHANGED tickets => TicketsTypeOK'
  BY DEF TypeOK, TicketsTypeOK
<1>3. UNCHANGED payments => PayoutsTypeOK'
  BY DEF TypeOK, PayoutsTypeOK
<1>4. UNCHANGED advertiserVars => AdvertisersTypeOK'
  BY DEF TypeOK, AdvertisersTypeOK, advertiserVars
<1>5. UNCHANGED registry => RegistryTypeOK'
  BY DEF TypeOK, RegistryTypeOK
<1> QED BY <1>1, <1>2, <1>3, <1>4, <1>5

\* The accounts stay typed when the request has an outcome.
LEMMA AccountsTyped ==
    ASSUME NEW r \in Reqs, Outcome(r), users' \in [Users -> UserRows],
           rolePermissions' \subseteq Roles \X Permissions
    PROVE  AccountsTypeOK'
  BY DEF Outcome, Stops, Goes, Moves, AccountsTypeOK

LEMMA AccountsStay ==
    ASSUME TypeOK, NEW r \in Reqs, Outcome(r), UNCHANGED accountVars
    PROVE  AccountsTypeOK'
  BY AccountsTyped DEF TypeOK, AccountsTypeOK, accountVars

LEMMA GrowByNothing ==
    ASSUME TypeOK, UNCHANGED <<noticeVars, tickets, advertiserVars>>
    PROVE  Grow /\ Names' \subseteq Names
<1>1. directory \in Seq(DOMAIN advertisers)
  BY DEF TypeOK, AdvertisersTypeOK
<1>2. Len(directory) \in Nat
  BY <1>1
<1> QED BY <1>2 DEF Grow, Names, noticeVars, advertiserVars

LEMMA StillListed ==
    ASSUME Sound, UNCHANGED advertiserVars
    PROVE  Listed'
  BY DEF Sound, Listed, advertiserVars

\* A request that shows nothing of the tables carries nothing that could break.
LEMMA PlainCarries ==
    ASSUME NEW r, req'[r].by.op \notin Showing,
           req'[r].pc = "reply" \/ req'[r].by.op \notin Looking
    PROVE  Carries(r)'
  BY DEF Carries, Marking, NoticesShown, Assigning, TicketsShown, PaymentsShown,
         Managing, CampaignsShown, Walking, At, Showing, Looking, PaymentQuery,
         CampaignCall

\* What a request carries is for its own operation.
LEMMA OwnCarries ==
    ASSUME NEW r
    PROVE  /\ req'[r].by.op \in MarkingOps /\ Marking(r)' => Carries(r)'
           /\ req'[r].by.op = "notifications" /\ NoticesShown(r)' => Carries(r)'
           /\ req'[r].by.op = "updateSupportTicket" /\ Assigning(r)' => Carries(r)'
           /\ req'[r].by.op \in TicketQueries /\ TicketsShown(r)' => Carries(r)'
           /\ req'[r].by.op \in PaymentQueries /\ PaymentsShown(r)' => Carries(r)'
           /\ req'[r].by.op = "updateAdvertiser" /\ Managing(r)' => Carries(r)'
           /\ req'[r].by.op \in CampaignOps \cup CampaignLists /\ CampaignsShown(r)'
                => Carries(r)'
           /\ req'[r].by.op = "advertisers" /\ Walking(r)' => Carries(r)'
<1> DEFINE op == req'[r].by.op
<1>1. op \notin MarkingOps => Marking(r)'
  BY DEF Marking
<1>2. op # "notifications" => NoticesShown(r)'
  BY DEF NoticesShown
<1>3. op # "updateSupportTicket" => Assigning(r)'
  BY DEF Assigning, At
<1>4. op \notin TicketQueries => TicketsShown(r)'
  BY DEF TicketsShown
<1>5. op \notin PaymentQueries => PaymentsShown(r)'
  BY DEF PaymentsShown, PaymentQuery
<1>6. op # "updateAdvertiser" => Managing(r)'
  BY DEF Managing, At
<1>7. op \notin CampaignOps \cup CampaignLists => CampaignsShown(r)'
  BY DEF CampaignsShown, CampaignCall
<1>8. op # "advertisers" => Walking(r)'
  BY DEF Walking
<1> QED
  BY <1>1, <1>2, <1>3, <1>4, <1>5, <1>6, <1>7, <1>8
  DEF Carries, MarkingOps, TicketQueries, PaymentQueries, CampaignOps, CampaignLists

LEMMA RefuseOutcome ==
    ASSUME TypeOK, NEW r \in Reqs, NEW why \in Refusals, Refuse(r, why),
           Grow, Names' \subseteq Names
    PROVE  Outcome(r)
  BY RefuseStops DEF Outcome, TypeOK

LEMMA FailOutcome ==
    ASSUME TypeOK, NEW r \in Reqs, Fail(r), Grow, Names' \subseteq Names
    PROVE  Outcome(r)
  BY FailStops DEF Outcome, TypeOK

LEMMA GoKeeps ==
    ASSUME TypeOK, NEW r \in Reqs, req[r].pc \in Begun,
           NEW pc \in {"found", "checked", "reply"}, NEW what, Go(r, pc, what)
    PROVE  req'[r].by = req[r].by /\ req'[r].pc = pc /\ kept'[r] = what
<1>1. Goes(r, pc, what)
  BY GoMoves DEF TypeOK, Begun, Stages
<1> QED BY <1>1 DEF Goes, Moves

LEMMA GoOutcome ==
    ASSUME TypeOK, NEW r \in Reqs, req[r].pc \in Begun,
           NEW pc \in {"found", "checked"}, NEW what, Go(r, pc, what),
           Carries(r)', Grow, Names' \subseteq Names
    PROVE  Outcome(r)
<1>1. Goes(r, pc, what)
  BY GoMoves DEF TypeOK, Begun, Stages
<1> QED BY <1>1 DEF Outcome

LEMMA ReplyOutcome ==
    ASSUME TypeOK, NEW r \in Reqs, req[r].pc \in Begun,
           NEW what, Go(r, "reply", what), Carries(r)',
           Grow, Names' \subseteq Names \cup {r}
    PROVE  Outcome(r)
<1>1. Goes(r, "reply", what)
  BY GoMoves DEF TypeOK, Begun, Stages
<1> QED BY <1>1 DEF Outcome

LEMMA PlainReply ==
    ASSUME TypeOK, NEW r \in Reqs, req[r].pc \in Begun, Reply(r),
           req[r].by.op \notin Showing, Grow, Names' \subseteq Names \cup {r}
    PROVE  Outcome(r)
<1>1. Go(r, "reply", kept[r])
  BY DEF Reply
<1>2. Goes(r, "reply", kept[r])
  BY <1>1, GoMoves DEF TypeOK, Begun, Stages
<1>3. req'[r].by = req[r].by /\ req'[r].pc = "reply"
  BY <1>2 DEF Goes, Moves
<1> QED BY <1>1, <1>3, PlainCarries, ReplyOutcome

\* No operation that needs a caller is served without one.
LEMMA CallerIsUser ==
    ASSUME Sound, NEW r \in Reqs, req[r].pc \in Stages,
           req[r].by.op \in NeedsSuper \cup NeedsAdmin \cup NeedsManager
                              \cup NeedsStaff \cup NeedsUser
    PROVE  /\ req[r].by.user \in Users
           /\ req[r].by.passed \in Roles /\ req[r].by.role \in Roles
           /\ req[r].by.op \in NeedsSuper => req[r].by.passed = "SUPER_ADMIN"
           /\ req[r].by.op \in NeedsAdmin => req[r].by.passed \in Admins
           /\ req[r].by.op \in NeedsManager => req[r].by.passed \in Managers
           /\ req[r].by.op \in NeedsStaff => req[r].by.passed \in StaffRoles
<1>1. ~IsPublic(req[r].by.op)
  BY NoneIsPublic
<1> QED BY <1>1 DEF Sound, Judged

-----------------------------------------------------------------------------
\* Accounts and role permissions.
LEMMA ServeAccountsOutcome ==
    ASSUME Sound, NEW r \in Reqs, Asks(r, AccountOps), ServeAccounts(r),
           NotAccounts
    PROVE  /\ Outcome(r)
           /\ req[r].pc \in Begun
           /\ users' \in [Users -> UserRows]
           /\ rolePermissions' \subseteq Roles \X Permissions
<1> DEFINE goal == /\ Outcome(r)
                   /\ req[r].pc \in Begun
                   /\ users' \in [Users -> UserRows]
                   /\ rolePermissions' \subseteq Roles \X Permissions
<1>1. TypeOK /\ Listed' /\ Grow /\ Names' \subseteq Names
  BY StillListed, GrowByNothing DEF Sound, NotAccounts
<1>2. req[r].by.op \notin Showing
  BY DEF Asks, AccountOps, Showing, MarkingOps, TicketQueries, PaymentQueries,
         CampaignOps, CampaignLists
<1>3. users \in [Users -> UserRows] /\ rolePermissions \subseteq Roles \X Permissions
  BY <1>1 DEF TypeOK, AccountsTypeOK
<1>4. ASSUME NEW u \in Users \cup {Nobody}, NEW active \in BOOLEAN,
             SetActive(r, u, active)
      PROVE  goal
  <2>1. req[r].pc \in Begun
    BY <1>4 DEF SetActive, Called, At, Begun
  <2>2. users' \in [Users -> UserRows] /\ UNCHANGED rolePermissions
    BY <1>3, <1>4 DEF SetActive, UserRows
  <2>3. Reply(r) \/ Refuse(r, "notFound")
    BY <1>4 DEF SetActive
  <2> QED BY <1>1, <1>2, <1>3, <2>1, <2>2, <2>3, PlainReply, RefuseOutcome
          DEF Refusals
<1>5. ASSUME NEW u \in Users \cup {Nobody}, NEW role \in Roles,
             ChangeRole(r, u, role)
      PROVE  goal
  <2>1. req[r].pc \in Begun
    BY <1>5 DEF ChangeRole, Called, At, Begun
  <2>2. users' \in [Users -> UserRows] /\ UNCHANGED rolePermissions
    BY <1>3, <1>5 DEF ChangeRole, UserRows
  <2>3. Reply(r) \/ Refuse(r, "notFound")
    BY <1>5 DEF ChangeRole
  <2> QED BY <1>1, <1>2, <1>3, <2>1, <2>2, <2>3, PlainReply, RefuseOutcome
          DEF Refusals
<1>6. ASSUME NEW role \in Roles, NEW p \in Permissions,
             GrantPermission(r, role, p) \/ RemovePermission(r, role, p)
      PROVE  goal
  <2>1. req[r].pc \in Begun
    BY <1>6 DEF GrantPermission, RemovePermission, Called, At, Begun
  <2>2. UNCHANGED users /\ rolePermissions' \subseteq Roles \X Permissions
    BY <1>3, <1>6 DEF GrantPermission, RemovePermission
  <2>3. Reply(r) \/ Refuse(r, "notFound") \/ Refuse(r, "conflict")
    BY <1>6 DEF GrantPermission, RemovePermission
  <2> QED BY <1>1, <1>2, <1>3, <2>1, <2>2, <2>3, PlainReply, RefuseOutcome
          DEF Refusals
<1> QED BY <1>4, <1>5, <1>6 DEF ServeAccounts

LEMMA ServeAccountsSound ==
    ASSUME Sound, NEW r \in Reqs, Asks(r, AccountOps), ServeAccounts(r),
           NotAccounts
    PROVE  Sound'
<1>1. TypeOK /\ Listed'
  BY StillListed DEF Sound, NotAccounts
<1>2. /\ Outcome(r)
      /\ req[r].pc \in Begun
      /\ users' \in [Users -> UserRows]
      /\ rolePermissions' \subseteq Roles \X Permissions
  BY ServeAccountsOutcome
<1>3. TypeOK'
  BY <1>1, <1>2, AccountsTyped, StillTyped DEF NotAccounts, TypeOK
<1> QED BY <1>1, <1>2, <1>3, OutcomeIsSound

\* The operations that are only answered here.
LEMMA AnswerOutcome ==
    ASSUME Sound, NEW r \in Reqs, Asks(r, Elsewhere), Answer(r), NotAccounts
    PROVE  req[r].pc \in Begun /\ Outcome(r)
<1>1. TypeOK /\ Listed' /\ Grow /\ Names' \subseteq Names
  BY StillListed, GrowByNothing DEF Sound, NotAccounts
<1>2. req[r].by.op \notin Showing
  BY DEF Asks, Elsewhere, OwnOps, NoticeOps, TicketOps, PayoutOps, AdvertiserOps,
         Showing, MarkingOps, TicketQueries, PaymentQueries
<1>3. req[r].pc \in Begun
  BY DEF Answer, Begun
<1>4. Reply(r) \/ Refuse(r, "notFound")
  BY DEF Answer
<1>5. Outcome(r)
  BY <1>1, <1>2, <1>3, <1>4, PlainReply, RefuseOutcome DEF Refusals
<1> QED BY <1>3, <1>5

LEMMA AnswerSound ==
    ASSUME Sound, NEW r \in Reqs, Asks(r, Elsewhere), Answer(r), NotAccounts
    PROVE  Sound'
<1>1. TypeOK /\ Listed'
  BY StillListed DEF Sound, NotAccounts
<1>2. req[r].pc \in Begun /\ Outcome(r)
  BY AnswerOutcome
<1>3. AccountsTypeOK'
  BY <1>1, <1>2, AccountsStay DEF Answer
<1>4. TypeOK'
  BY <1>1, <1>3, StillTyped DEF NotAccounts, TypeOK
<1> QED BY <1>1, <1>2, <1>4, OutcomeIsSound

\* The kinds of the plain tables are their own.
LEMMA ServeRegistryOutcome ==
    ASSUME Sound, NEW r \in Reqs, Asks(r, RegistryOps), ServeRegistry(r),
           NotRegistry
    PROVE  req[r].pc \in Begun /\ Outcome(r) /\ RegistryTypeOK'
<1>1. TypeOK /\ Listed' /\ Grow /\ Names' \subseteq Names
  BY StillListed, GrowByNothing DEF Sound, NotRegistry
<1>2. req[r].by.op \notin Showing
  BY DEF Asks, RegistryOps, RegistryTables, Table, Faqs, SignupQuestions,
         Experiments, Groups, Members, PaymentTerms, Referrals, Settings,
         AffiliateStatuses, Showing, MarkingOps, TicketQueries, PaymentQueries,
         CampaignOps, CampaignLists
<1>3. PICK t \in RegistryTables :
         \/ \E code \in Codes, content \in Contents : CreateRow(r, t, code, content)
         \/ \E key \in Reqs \cup Codes :
              DeleteRow(r, t, key) \/ \E content \in Contents : UpdateRow(r, t, key, content)
  BY DEF ServeRegistry
<1>4. t.kind \in Kinds
  BY DEF Kinds
<1>5. DOMAIN registry \subseteq RegistryKeys /\ registry \in [DOMAIN registry -> Contents]
  BY <1>1 DEF TypeOK, RegistryTypeOK
<1>6. /\ req[r].pc \in Begun
      /\ Reply(r) \/ Refuse(r, "notFound") \/ Refuse(r, "conflict")
      /\ RegistryTypeOK'
  <2>1. ASSUME NEW code \in Codes, NEW content \in Contents,
               CreateRow(r, t, code, content)
        PROVE  <1>6!:
    <3> DEFINE row == <<t.kind, IF t.unique THEN code ELSE r>>
    <3>1. row \in RegistryKeys
      BY <1>4 DEF RegistryKeys
    <3>2. \/ UNCHANGED registry /\ Refuse(r, "conflict")
          \/ registry' = Insert(registry, row, content) /\ Reply(r)
      BY <2>1 DEF CreateRow
    <3>3. req[r].pc \in Begun
      BY <2>1 DEF CreateRow, Begun
    <3> HIDE DEF row
    <3>4. /\ DOMAIN Insert(registry, row, content) \subseteq RegistryKeys
          /\ Insert(registry, row, content)
               \in [DOMAIN Insert(registry, row, content) -> Contents]
      BY <1>5, <3>1, InsertType
    <3>5. RegistryTypeOK'
      BY <1>5, <3>2, <3>4 DEF RegistryTypeOK
    <3> QED BY <3>2, <3>3, <3>5
  <2>2. ASSUME NEW key \in Reqs \cup Codes, NEW content \in Contents,
               UpdateRow(r, t, key, content)
        PROVE  <1>6!:
    <3>1. RegistryTypeOK'
      BY <1>5, <2>2 DEF UpdateRow, RegistryTypeOK
    <3> QED BY <2>2, <3>1 DEF UpdateRow, Begun
  <2>3. ASSUME NEW key \in Reqs \cup Codes, DeleteRow(r, t, key)
        PROVE  <1>6!:
    <3>1. RegistryTypeOK'
      BY <1>5, <2>3 DEF DeleteRow, RegistryTypeOK
    <3> QED BY <2>3, <3>1 DEF DeleteRow, Begun
  <2> QED BY <1>3, <2>1, <2>2, <2>3
<1>7. Outcome(r)
  BY <1>1, <1>2, <1>6, PlainReply, RefuseOutcome DEF Refusals
<1> QED BY <1>6, <1>7

LEMMA ServeRegistrySound ==
    ASSUME Sound, NEW r \in Reqs, Asks(r, RegistryOps), ServeRegistry(r),
           NotRegistry
    PROVE  Sound'
<1>1. TypeOK /\ Listed'
  BY StillListed DEF Sound, NotRegistry
<1>2. req[r].pc \in Begun /\ Outcome(r) /\ RegistryTypeOK'
  BY ServeRegistryOutcome
<1>3. AccountsTypeOK'
  BY <1>1, <1>2, AccountsStay DEF NotRegistry
<1>4. TypeOK'
  BY <1>1, <1>2, <1>3, StillTyped DEF NotRegistry, TypeOK
<1> QED BY <1>1, <1>2, <1>4, OutcomeIsSound

\* Payments.
LEMMA ServePayoutsOutcome ==
    ASSUME Sound, NEW r \in Reqs, Asks(r, PayoutOps), ServePayouts(r), NotPayouts
    PROVE  req[r].pc \in Begun /\ Outcome(r) /\ PayoutsTypeOK'
<1>1. TypeOK /\ Listed' /\ Grow /\ Names' \subseteq Names
  BY StillListed, GrowByNothing DEF Sound, NotPayouts
<1>2. DOMAIN payments \subseteq Reqs /\ payments \in [DOMAIN payments -> PaymentRows]
  BY <1>1 DEF TypeOK, PayoutsTypeOK
<1>3. req[r].pc \in Begun /\ Outcome(r) /\ PayoutsTypeOK'
  <2>1. ASSUME NEW a \in Affiliates, CreatePayment(r, a)
        PROVE  <1>3!:
    <3> DEFINE row == [affiliate |-> a, status |-> "PENDING", paid |-> FALSE]
    <3>1. row \in PaymentRows
      BY DEF PaymentRows, PaymentStatuses
    <3>2. payments' = Insert(payments, r, row) /\ Reply(r)
      BY <2>1 DEF CreatePayment
    <3> HIDE DEF row
    <3>3. PayoutsTypeOK'
      BY <1>2, <3>1, <3>2, InsertType DEF PayoutsTypeOK
    <3>4. req[r].pc \in Begun /\ req[r].by.op \notin Showing
      BY <2>1 DEF CreatePayment, Called, At, Begun, Showing, MarkingOps,
                  TicketQueries, PaymentQueries, CampaignOps, CampaignLists
    <3> QED BY <1>1, <3>2, <3>3, <3>4, PlainReply
  <2>2. ASSUME NEW p \in Reqs, NEW status \in PaymentStatuses,
               UpdateStatus(r, p, status)
        PROVE  <1>3!:
    <3>1. PayoutsTypeOK'
      BY <1>2, <2>2 DEF UpdateStatus, PayoutsTypeOK, PaymentRows
    <3>2. req[r].pc \in Begun /\ req[r].by.op \notin Showing
      BY <2>2 DEF UpdateStatus, Called, At, Begun, Showing, MarkingOps,
                  TicketQueries, PaymentQueries, CampaignOps, CampaignLists
    <3>3. Reply(r) \/ Refuse(r, "notFound")
      BY <2>2 DEF UpdateStatus
    <3> QED BY <1>1, <3>1, <3>2, <3>3, PlainReply, RefuseOutcome DEF Refusals
  <2>3. ASSUME NEW asked \in Affiliates \cup {Nobody}, ResolveAffiliateId(r, asked)
        PROVE  <1>3!:
    <3>1. PayoutsTypeOK' /\ req[r].pc \in Begun /\ req[r].pc \in Stages
      BY <1>2, <2>3 DEF ResolveAffiliateId, PayoutsTypeOK, Begun, Stages
    <3>2. \/ Refuse(r, "notFound") \/ Refuse(r, "forbidden")
          \/ \E what : /\ Go(r, "found", what)
                       /\ req[r].by.role \in StaffRoles \/ what = req[r].by.user
      BY <2>3 DEF ResolveAffiliateId
    <3>3. ASSUME NEW what, Go(r, "found", what),
                 req[r].by.role \in StaffRoles \/ what = req[r].by.user
          PROVE  Outcome(r)
      <4>1. req'[r].by = req[r].by /\ req'[r].pc = "found" /\ kept'[r] = what
        BY <1>1, <3>1, <3>3, GoKeeps
      <4>2. PaymentsShown(r)' /\ req'[r].by.op \in PaymentQueries
        BY <2>3, <3>3, <4>1 DEF ResolveAffiliateId, PaymentQuery, PaymentsShown
      <4>3. Carries(r)'
        BY <4>2, OwnCarries
      <4> QED BY <1>1, <3>1, <3>3, <4>3, GoOutcome
    <3> QED BY <1>1, <3>1, <3>2, <3>3, RefuseOutcome DEF Refusals
  <2>4. ASSUME FindPayments(r)
        PROVE  <1>3!:
    <3>1. PayoutsTypeOK' /\ req[r].pc \in Begun /\ req[r].pc \in Stages
      BY <1>2, <2>4 DEF FindPayments, PayoutsTypeOK, Begun, Stages
    <3>2. Go(r, "reply", kept[r]) /\ req[r].pc = "found" /\ PaymentQuery(r)
      BY <2>4 DEF FindPayments
    <3>3. /\ req'[r].by = req[r].by /\ req'[r].pc = "reply"
          /\ kept'[r] = kept[r]
      BY <1>1, <3>1, <3>2, GoKeeps
    <3>4. PaymentsShown(r)
      BY DEF Sound, Carries
    <3>5. PaymentsShown(r)' /\ req'[r].by.op \in PaymentQueries
      BY <3>2, <3>3, <3>4 DEF PaymentQuery, PaymentsShown, Done
    <3>6. Carries(r)'
      BY <3>5, OwnCarries
    <3> QED BY <1>1, <3>1, <3>2, <3>6, ReplyOutcome
  <2> QED BY <2>1, <2>2, <2>3, <2>4 DEF ServePayouts
<1> QED BY <1>3

LEMMA ServePayoutsSound ==
    ASSUME Sound, NEW r \in Reqs, Asks(r, PayoutOps), ServePayouts(r),
           NotPayouts
    PROVE  Sound'
<1>1. TypeOK /\ Listed'
  BY StillListed DEF Sound, NotPayouts
<1>2. req[r].pc \in Begun /\ Outcome(r) /\ PayoutsTypeOK'
  BY ServePayoutsOutcome
<1>3. AccountsTypeOK'
  BY <1>1, <1>2, AccountsStay DEF NotPayouts
<1>4. TypeOK'
  BY <1>1, <1>2, <1>3, StillTyped DEF NotPayouts, TypeOK
<1> QED BY <1>1, <1>2, <1>4, OutcomeIsSound

LEMMA Unnamed ==
    ASSUME Sound, NEW r \in Reqs, req[r].pc \in Begun
    PROVE  r \notin Names
  BY DEF Sound, Named, Names, Begun, Done

\* Notifications.
LEMMA ServeNoticesOutcome ==
    ASSUME Sound, NEW r \in Reqs, Asks(r, NoticeOps), ServeNotices(r), NotNotices
    PROVE  req[r].pc \in Begun /\ Outcome(r) /\ NoticesTypeOK'
<1> DEFINE goal == req[r].pc \in Begun /\ Outcome(r) /\ NoticesTypeOK'
<1>1. TypeOK /\ NoticesTypeOK
  BY DEF Sound, TypeOK
<1>2. UNCHANGED noticeVars => Grow /\ Names' \subseteq Names /\ NoticesTypeOK'
  BY <1>1, GrowByNothing, StillTyped DEF NotNotices
<1>3. UNCHANGED <<tickets, advertiserVars>>
  BY DEF NotNotices
<1>4. Len(directory) \in Nat
  <2>1. directory \in Seq(DOMAIN advertisers)
    BY <1>1 DEF TypeOK, AdvertisersTypeOK
  <2> QED BY <2>1
<1>5. ASSUME NEW to \in Users \cup {Everyone, Nobody}, CreateNotice(r, to)
      PROVE  goal
  <2>1. req[r].pc \in Begun /\ req[r].by.op \notin Showing
    BY <1>5 DEF CreateNotice, Called, At, Begun, Showing, MarkingOps,
                TicketQueries, PaymentQueries, CampaignOps, CampaignLists
  <2>2. CASE to = Nobody
    <3>1. Refuse(r, "invalid") /\ UNCHANGED noticeVars
      BY <1>5, <2>2 DEF CreateNotice, noticeVars
    <3> QED BY <1>1, <1>2, <2>1, <3>1, RefuseOutcome DEF Refusals
  <2>3. CASE to # Nobody
    <3>1. /\ notices' = Insert(notices, r, to) /\ Reply(r)
          /\ UNCHANGED reads /\ to \in Users \cup {Everyone}
      BY <1>5, <2>3 DEF CreateNotice
    <3>2. NoticesTypeOK'
      <4> DEFINE whom == Users \cup {Everyone}
      <4>1. DOMAIN notices \subseteq NoticeIds /\ r \in NoticeIds
        BY <1>1 DEF NoticesTypeOK, NoticeIds
      <4>2. notices \in [DOMAIN notices -> whom] /\ to \in whom
        BY <1>1, <3>1 DEF NoticesTypeOK
      <4> HIDE DEF whom
      <4>3. /\ DOMAIN Insert(notices, r, to) \subseteq NoticeIds
            /\ Insert(notices, r, to) \in [DOMAIN Insert(notices, r, to) -> whom]
        BY <4>1, <4>2, InsertType
      <4> QED BY <1>1, <3>1, <4>3 DEF NoticesTypeOK, whom
    <3>3. r \notin DOMAIN notices
      BY <2>1, Unnamed DEF Names
    <3>4. /\ DOMAIN notices' = DOMAIN notices \cup {r}
          /\ \A n \in DOMAIN notices : notices'[n] = notices[n]
      BY <3>1, <3>3 DEF Insert
    <3>5. Grow /\ Names' \subseteq Names \cup {r}
      BY <1>3, <1>4, <3>1, <3>4 DEF Grow, Names, advertiserVars
    <3> QED BY <1>1, <2>1, <3>1, <3>2, <3>5, PlainReply
  <2> QED BY <2>2, <2>3
<1>6. ASSUME NEW unreadOnly \in BOOLEAN, FindNotices(r, unreadOnly)
      PROVE  goal
  <2> DEFINE u == req[r].by.user
             shown == {n \in VisibleTo(u) : unreadOnly => ~HasRead(u, n)}
  <2>1. /\ req[r].pc \in Begun /\ req[r].by.op = "notifications"
        /\ Go(r, "reply", shown) /\ UNCHANGED noticeVars
    BY <1>6 DEF FindNotices, Called, At, Begun
  <2>2. shown \subseteq VisibleTo(u)
    OBVIOUS
  <2> HIDE DEF shown
  <2>3. req'[r].by = req[r].by /\ kept'[r] = shown
    BY <1>1, <2>1, GoKeeps
  <2>4. req'[r].by.op = "notifications" /\ NoticesShown(r)'
    BY <2>1, <2>2, <2>3 DEF NoticesShown, VisibleTo, noticeVars
  <2>5. Carries(r)'
    BY <2>4, OwnCarries
  <2> QED BY <1>1, <1>2, <2>1, <2>5, ReplyOutcome
<1>7. ASSUME CountFirst(r) PROVE goal
  <2>1. /\ req[r].pc \in Begun /\ req[r].by.op = "notificationCount"
        /\ UNCHANGED noticeVars
    BY <1>7 DEF CountFirst, Called, At, Begun
  <2>2. PICK what : Go(r, "found", what)
    BY <1>7 DEF CountFirst
  <2>3. req'[r].by = req[r].by
    BY <1>1, <2>1, <2>2, GoKeeps
  <2>4. req'[r].by.op \notin Showing \cup Looking
    BY <2>1, <2>3 DEF Showing, Looking, MarkingOps, TicketQueries,
                      PaymentQueries, CampaignOps, CampaignLists
  <2>5. Carries(r)'
    BY <2>4, PlainCarries
  <2> QED BY <1>1, <1>2, <2>1, <2>2, <2>5, GoOutcome
<1>8. ASSUME CountSecond(r) PROVE goal
  <2>1. /\ req[r].pc \in Begun /\ req[r].by.op = "notificationCount"
        /\ UNCHANGED noticeVars
    BY <1>8 DEF CountSecond, At, Begun
  <2>2. PICK what : Go(r, "reply", what)
    BY <1>8 DEF CountSecond
  <2>3. req'[r].by = req[r].by
    BY <1>1, <2>1, <2>2, GoKeeps
  <2>4. req'[r].by.op \notin Showing \cup Looking
    BY <2>1, <2>3 DEF Showing, Looking, MarkingOps, TicketQueries,
                      PaymentQueries, CampaignOps, CampaignLists
  <2>5. Carries(r)'
    BY <2>4, PlainCarries
  <2> QED BY <1>1, <1>2, <2>1, <2>2, <2>5, ReplyOutcome
<1>9. ASSUME NEW n \in NoticeIds, FindNotice(r, n) PROVE goal
  <2> DEFINE what == [seen |-> {n}, missing |-> {}]
  <2>1. /\ req[r].pc \in Begun /\ req[r].by.op \in MarkingOps
        /\ UNCHANGED noticeVars
        /\ Go(r, "found", what) \/ Refuse(r, "notFound")
    BY <1>9 DEF FindNotice, Called, At, Begun, MarkingOps
  <2>2. what \in Markings
    BY DEF Markings
  <2> HIDE DEF what
  <2>3. CASE Go(r, "found", what)
    <3>1. req'[r].by = req[r].by /\ kept'[r] = what /\ req'[r].pc = "found"
      BY <1>1, <2>1, <2>3, GoKeeps
    <3>2. req'[r].by.op \in MarkingOps /\ Marking(r)'
      BY <2>1, <2>2, <3>1 DEF Marking, Done
    <3>3. Carries(r)'
      BY <3>2, OwnCarries
    <3> QED BY <1>1, <1>2, <2>1, <2>3, <3>3, GoOutcome
  <2> QED BY <1>1, <1>2, <2>1, <2>3, RefuseOutcome DEF Refusals
<1>10. ASSUME FindVisible(r) PROVE goal
  <2> DEFINE visible == VisibleTo(req[r].by.user)
             what == [seen |-> visible, missing |-> {}]
  <2>1. /\ req[r].pc \in Begun /\ req[r].by.op \in MarkingOps
        /\ UNCHANGED noticeVars
        /\ \/ visible = {} /\ Go(r, "reply", what)
           \/ Go(r, "found", what)
    BY <1>10 DEF FindVisible, Called, At, Begun, MarkingOps
  <2>2. what \in Markings
    BY <1>1 DEF Markings, VisibleTo, NoticesTypeOK
  <2>3. what.seen = visible
    OBVIOUS
  <2> HIDE DEF what, visible
  <2>4. CASE visible = {} /\ Go(r, "reply", what)
    <3>1. req'[r].by = req[r].by /\ kept'[r] = what /\ req'[r].pc = "reply"
      BY <1>1, <2>1, <2>4, GoKeeps
    <3>2. req'[r].by.op \in MarkingOps /\ Marking(r)'
      BY <2>1, <2>3, <2>4, <3>1 DEF Marking, Done
    <3>3. Carries(r)'
      BY <3>2, OwnCarries
    <3> QED BY <1>1, <1>2, <2>1, <2>4, <3>3, ReplyOutcome
  <2>5. CASE Go(r, "found", what)
    <3>1. req'[r].by = req[r].by /\ kept'[r] = what /\ req'[r].pc = "found"
      BY <1>1, <2>1, <2>5, GoKeeps
    <3>2. req'[r].by.op \in MarkingOps /\ Marking(r)'
      BY <2>1, <2>2, <3>1 DEF Marking, Done
    <3>3. Carries(r)'
      BY <3>2, OwnCarries
    <3> QED BY <1>1, <1>2, <2>1, <2>5, <3>3, GoOutcome
  <2> QED BY <2>1, <2>4, <2>5
<1>11. ASSUME FindReads(r) PROVE goal
  <2> DEFINE u == req[r].by.user
             seen == kept[r].seen
             missing == {n \in seen : ~HasRead(u, n)}
             what == [seen |-> seen, missing |-> missing]
  <2>1. /\ req[r].pc = "found" /\ req[r].by.op \in MarkingOps
        /\ UNCHANGED noticeVars
        /\ \/ missing = {} /\ Go(r, "reply", what)
           \/ Go(r, "checked", what)
    BY <1>11 DEF FindReads, Marks, At, MarkingOps
  <2>2. kept[r] \in Markings
    BY <2>1 DEF Sound, Carries, Marking, Stages
  <2>3. /\ what \in Markings /\ what.seen = seen /\ what.missing = missing
        /\ (seen \ missing) \X {u} \subseteq reads
    BY <2>2 DEF Markings, HasRead
  <2>4. req[r].pc \in Begun
    BY <2>1 DEF Begun
  <2> HIDE DEF what, seen, missing, u
  <2>5. CASE missing = {} /\ Go(r, "reply", what)
    <3>1. req'[r].by = req[r].by /\ kept'[r] = what /\ req'[r].pc = "reply"
      BY <1>1, <2>4, <2>5, GoKeeps
    <3>2. (seen \X {u} \subseteq reads')
      BY <2>1, <2>3, <2>5 DEF noticeVars
    <3>3. req'[r].by.op \in MarkingOps /\ Marking(r)'
      BY <2>1, <2>3, <3>1, <3>2 DEF Marking, Done, u
    <3>4. Carries(r)'
      BY <3>3, OwnCarries
    <3> QED BY <1>1, <1>2, <2>1, <2>4, <2>5, <3>4, ReplyOutcome
  <2>6. CASE Go(r, "checked", what)
    <3>1. req'[r].by = req[r].by /\ kept'[r] = what /\ req'[r].pc = "checked"
      BY <1>1, <2>4, <2>6, GoKeeps
    <3>2. (seen \ missing) \X {u} \subseteq reads'
      BY <2>1, <2>3 DEF noticeVars
    <3>3. req'[r].by.op \in MarkingOps /\ Marking(r)'
      BY <2>1, <2>3, <3>1, <3>2 DEF Marking, Done, u
    <3>4. Carries(r)'
      BY <3>3, OwnCarries
    <3> QED BY <1>1, <1>2, <2>1, <2>4, <2>6, <3>4, GoOutcome
  <2> QED BY <2>1, <2>5, <2>6
<1>12. ASSUME CreateReads(r) PROVE goal
  <2> DEFINE u == req[r].by.user
             rows == kept[r].missing \X {u}
  <2>1. /\ req[r].pc = "checked" /\ req[r].by.op \in MarkingOps
        /\ UNCHANGED notices
        /\ \/ reads' = reads \cup rows /\ Reply(r)
           \/ UNCHANGED reads /\ Fail(r)
    BY <1>12 DEF CreateReads, MarkingOps
  <2>2. req[r].pc \in Begun /\ req[r].pc \in Stages
    BY <2>1 DEF Begun, Stages
  <2>3. CASE UNCHANGED reads /\ Fail(r)
    <3>1. UNCHANGED noticeVars
      BY <2>1, <2>3 DEF noticeVars
    <3> QED BY <1>1, <1>2, <2>2, <2>3, <3>1, FailOutcome
  <2>4. CASE reads' = reads \cup rows /\ Reply(r)
    <3>1. /\ kept[r] \in Markings
          /\ (kept[r].seen \ kept[r].missing) \X {u} \subseteq reads
      BY <2>1, <2>2 DEF Sound, Carries, Marking
    <3>2. u \in Users
      BY <2>1, <2>2, CallerIsUser DEF MarkingOps, NeedsUser
    <3>3. rows \subseteq NoticeIds \X Users
      BY <3>1, <3>2 DEF Markings
    <3>4. kept[r].seen \X {u} \subseteq reads'
      BY <2>4, <3>1
    <3>5. NoticesTypeOK'
      BY <1>1, <2>1, <2>4, <3>3 DEF NoticesTypeOK
    <3>6. Grow /\ Names' \subseteq Names
      BY <1>3, <1>4, <2>1, <2>4 DEF Grow, Names, advertiserVars
    <3>7. Go(r, "reply", kept[r])
      BY <2>4 DEF Reply
    <3>8. req'[r].by = req[r].by /\ kept'[r] = kept[r] /\ req'[r].pc = "reply"
      BY <1>1, <2>2, <3>7, GoKeeps
    <3>9. req'[r].by.op \in MarkingOps /\ Marking(r)'
      BY <2>1, <3>4, <3>8 DEF Marking, Done
    <3>10. Carries(r)'
      BY <3>9, OwnCarries
    <3> QED BY <1>1, <2>2, <3>5, <3>6, <3>7, <3>10, ReplyOutcome
  <2> QED BY <2>1, <2>3, <2>4
<1> QED
  BY <1>5, <1>6, <1>7, <1>8, <1>9, <1>10, <1>11, <1>12 DEF ServeNotices

LEMMA ServeNoticesSound ==
    ASSUME Sound, NEW r \in Reqs, Asks(r, NoticeOps), ServeNotices(r), NotNotices
    PROVE  Sound'
<1>1. TypeOK /\ Listed'
  BY StillListed DEF Sound, NotNotices
<1>2. req[r].pc \in Begun /\ Outcome(r) /\ NoticesTypeOK'
  BY ServeNoticesOutcome
<1>3. AccountsTypeOK'
  BY <1>1, <1>2, AccountsStay DEF NotNotices
<1>4. TypeOK'
  BY <1>1, <1>2, <1>3, StillTyped DEF NotNotices, TypeOK
<1> QED BY <1>1, <1>2, <1>4, OutcomeIsSound

\* Tickets.
LEMMA UpdatedType ==
    ASSUME NEW row \in TicketRows, NEW status \in TicketStatuses \cup {Keep},
           NEW assignee \in Users \cup {Nobody, Keep}
    PROVE  /\ Updated(row, status, assignee) \in TicketRows
           /\ Updated(row, status, assignee).owner = row.owner
  BY DEF Updated, TicketRows

LEMMA WriteTicketOutcome ==
    ASSUME Sound, NEW r \in Reqs, req[r].pc \in Begun,
           req[r].by.op = "updateSupportTicket", NotTickets, NEW t,
           NEW status \in TicketStatuses \cup {Keep},
           NEW assignee \in Users \cup {Nobody, Keep},
           WriteTicket(r, t, status, assignee)
    PROVE  Outcome(r) /\ TicketsTypeOK'
<1>1. TypeOK /\ DOMAIN tickets \subseteq Reqs /\ tickets \in [DOMAIN tickets -> TicketRows]
  BY DEF Sound, TypeOK, TicketsTypeOK
<1>2. directory \in Seq(DOMAIN advertisers)
  BY <1>1 DEF TypeOK, AdvertisersTypeOK
<1>3. req[r].by.op \notin Showing
  BY DEF Showing, MarkingOps, TicketQueries, PaymentQueries, CampaignOps,
         CampaignLists
<1>4. CASE t \in DOMAIN tickets
  <2> DEFINE row == Updated(tickets[t], status, assignee)
  <2>1. tickets' = [tickets EXCEPT ![t] = row] /\ Reply(r)
    BY <1>4 DEF WriteTicket
  <2>2. row \in TicketRows /\ row.owner = tickets[t].owner
    BY <1>1, <1>4, UpdatedType
  <2> HIDE DEF row
  <2>3. TicketsTypeOK'
    BY <1>1, <1>4, <2>1, <2>2 DEF TicketsTypeOK
  <2>4. Len(directory) \in Nat
    BY <1>2
  <2>5. Grow /\ Names' \subseteq Names
    BY <1>1, <1>4, <2>1, <2>2, <2>4
    DEF Grow, Names, NotTickets, noticeVars, advertiserVars
  <2> QED BY <1>1, <1>3, <2>1, <2>3, <2>5, PlainReply
<1>5. CASE t \notin DOMAIN tickets
  <2>1. UNCHANGED tickets /\ Refuse(r, "notFound")
    BY <1>5 DEF WriteTicket
  <2>2. Grow /\ Names' \subseteq Names /\ TicketsTypeOK'
    BY <1>1, <2>1, GrowByNothing, StillTyped DEF NotTickets
  <2> QED BY <1>1, <2>1, <2>2, RefuseOutcome DEF Refusals
<1> QED BY <1>4, <1>5

LEMMA ServeTicketsOutcome ==
    ASSUME Sound, NEW r \in Reqs, Asks(r, TicketOps), ServeTickets(r), NotTickets
    PROVE  req[r].pc \in Begun /\ Outcome(r) /\ TicketsTypeOK'
<1> DEFINE goal == req[r].pc \in Begun /\ Outcome(r) /\ TicketsTypeOK'
<1>1. TypeOK /\ DOMAIN tickets \subseteq Reqs /\ tickets \in [DOMAIN tickets -> TicketRows]
  BY DEF Sound, TypeOK, TicketsTypeOK
<1>2. UNCHANGED tickets => Grow /\ Names' \subseteq Names /\ TicketsTypeOK'
  BY <1>1, GrowByNothing, StillTyped DEF NotTickets
<1>3. ASSUME CreateTicket(r) PROVE goal
  <2> DEFINE row == [owner |-> req[r].by.user, status |-> "OPEN",
                     assignee |-> Nobody, resolved |-> FALSE]
  <2>1. /\ req[r].pc \in Begun /\ req[r].by.op = "createSupportTicket"
        /\ tickets' = Insert(tickets, r, row) /\ Reply(r)
    BY <1>3 DEF CreateTicket, Called, At, Begun
  <2>2. req[r].by.user \in Users
    BY <2>1, CallerIsUser DEF NeedsUser, Begun, Stages
  <2>3. row \in TicketRows
    BY <2>2 DEF TicketRows, TicketStatuses
  <2> HIDE DEF row
  <2>4. /\ DOMAIN Insert(tickets, r, row) \subseteq Reqs
        /\ Insert(tickets, r, row) \in [DOMAIN Insert(tickets, r, row) -> TicketRows]
    BY <1>1, <2>3, InsertType
  <2>5. TicketsTypeOK'
    BY <2>1, <2>4 DEF TicketsTypeOK
  <2>6. r \notin DOMAIN tickets
    BY <2>1, Unnamed DEF Names
  <2>7. /\ DOMAIN tickets' = DOMAIN tickets \cup {r}
        /\ \A t \in DOMAIN tickets : tickets'[t] = tickets[t]
    BY <2>1, <2>6 DEF Insert
  <2>8. Len(directory) \in Nat
    <3>1. directory \in Seq(DOMAIN advertisers)
      BY <1>1 DEF TypeOK, AdvertisersTypeOK
    <3> QED BY <3>1
  <2>9. Grow /\ Names' \subseteq Names \cup {r}
    BY <2>7, <2>8 DEF Grow, Names, NotTickets, noticeVars, advertiserVars
  <2>10. req[r].by.op \notin Showing
    BY <2>1 DEF Showing, MarkingOps, TicketQueries, PaymentQueries, CampaignOps,
                CampaignLists
  <2> QED BY <1>1, <2>1, <2>5, <2>9, <2>10, PlainReply
<1>4. ASSUME NEW t \in Reqs, NEW status \in StatusInputs \cup {Keep},
             NEW assignee \in {Keep, Nobody}, UpdateTicket(r, t, status, assignee)
      PROVE  goal
  <2>1. /\ req[r].pc \in Begun /\ req[r].by.op = "updateSupportTicket"
        /\ WriteTicket(r, t, status, assignee)
    BY <1>4 DEF UpdateTicket, Called, At, Begun
  <2>2. /\ status \in TicketStatuses \cup {Keep}
        /\ assignee \in Users \cup {Nobody, Keep}
    BY TicketAssumption
  <2> QED BY <2>1, <2>2, WriteTicketOutcome
<1>5. ASSUME NEW t \in Reqs, NEW status \in StatusInputs \cup {Keep},
             NEW u \in Users \cup {Nobody}, AssertAssignable(r, t, status, u)
      PROVE  goal
  <2> DEFINE what == [ticket |-> t, status |-> status, to |-> u]
  <2>1. /\ req[r].pc \in Begun /\ req[r].by.op = "updateSupportTicket"
        /\ UNCHANGED tickets
        /\ \/ u \in Users /\ Go(r, "found", what)
           \/ Refuse(r, "invalid")
    BY <1>5 DEF AssertAssignable, Called, At, Begun
  <2>2. CASE u \in Users /\ Go(r, "found", what)
    <3>1. what \in Assignments
      BY <2>2, TicketAssumption DEF Assignments
    <3> HIDE DEF what
    <3>2. req'[r].by = req[r].by /\ kept'[r] = what
      BY <1>1, <2>1, <2>2, GoKeeps
    <3>3. req'[r].by.op = "updateSupportTicket" /\ Assigning(r)'
      BY <2>1, <3>1, <3>2 DEF Assigning
    <3>4. Carries(r)'
      BY <3>3, OwnCarries
    <3> QED BY <1>1, <1>2, <2>1, <2>2, <3>4, GoOutcome
  <2> QED BY <1>1, <1>2, <2>1, <2>2, RefuseOutcome DEF Refusals
<1>6. ASSUME AssignTicket(r) PROVE goal
  <2>1. /\ req[r].pc \in Begun /\ req[r].by.op = "updateSupportTicket"
        /\ At(r, "found", "updateSupportTicket")
        /\ WriteTicket(r, kept[r].ticket, kept[r].status, kept[r].to)
    BY <1>6 DEF AssignTicket, At, Begun
  <2>2. kept[r] \in Assignments
    BY <2>1 DEF Sound, Carries, Assigning
  <2>3. /\ kept[r].status \in TicketStatuses \cup {Keep}
        /\ kept[r].to \in Users \cup {Nobody, Keep}
    BY <2>2 DEF Assignments
  <2> QED BY <2>1, <2>3, WriteTicketOutcome
<1>7. ASSUME FindTickets(r) PROVE goal
  <2>1. /\ req[r].pc \in Begun /\ req[r].by.op \in TicketQueries
        /\ UNCHANGED tickets
    BY <1>7 DEF FindTickets, Called, At, Begun, TicketQueries
  <2>2. req[r].by.op = "supportTickets" => req[r].by.passed \in StaffRoles
    BY <2>1, CallerIsUser DEF NeedsStaff, Begun, Stages
  <2>3. PICK what : /\ Go(r, "reply", what)
                    /\ \A t \in what : /\ t \in DOMAIN tickets
                                       /\ \/ req[r].by.passed \in StaffRoles
                                          \/ tickets[t].owner = req[r].by.user
    BY <1>7, <2>2 DEF FindTickets, Called, At
  <2>4. req'[r].by = req[r].by /\ kept'[r] = what
    BY <1>1, <2>1, <2>3, GoKeeps
  <2>5. req'[r].by.op \in TicketQueries /\ TicketsShown(r)'
    BY <2>1, <2>3, <2>4 DEF TicketsShown
  <2>6. Carries(r)'
    BY <2>5, OwnCarries
  <2> QED BY <1>1, <1>2, <2>1, <2>3, <2>6, ReplyOutcome
<1> QED BY <1>3, <1>4, <1>5, <1>6, <1>7 DEF ServeTickets

LEMMA ServeTicketsSound ==
    ASSUME Sound, NEW r \in Reqs, Asks(r, TicketOps), ServeTickets(r), NotTickets
    PROVE  Sound'
<1>1. TypeOK /\ Listed'
  BY StillListed DEF Sound, NotTickets
<1>2. req[r].pc \in Begun /\ Outcome(r) /\ TicketsTypeOK'
  BY ServeTicketsOutcome
<1>3. AccountsTypeOK'
  BY <1>1, <1>2, AccountsStay DEF NotTickets
<1>4. TypeOK'
  BY <1>1, <1>2, <1>3, StillTyped DEF NotTickets, TypeOK
<1> QED BY <1>1, <1>2, <1>4, OutcomeIsSound

\* Advertisers, and the campaigns shown by their owner.
LEMMA CreateAdvertiserOutcome ==
    ASSUME Sound, NEW r \in Reqs, NEW manager \in Users \cup {Nobody},
           CreateAdvertiser(r, manager), NotAdvertisers
    PROVE  req[r].pc \in Begun /\ Outcome(r) /\ AdvertisersTypeOK' /\ Listed'
<1> DEFINE row == [manager |-> manager, deleted |-> FALSE]
<1>1. /\ TypeOK /\ Listed
      /\ DOMAIN advertisers \subseteq AdvertiserIds
      /\ advertisers \in [DOMAIN advertisers -> AdvertiserRows]
      /\ directory \in Seq(DOMAIN advertisers)
  BY DEF Sound, TypeOK, AdvertisersTypeOK
<1>2. req[r].pc \in Begun /\ req[r].by.op \notin Showing
  BY DEF CreateAdvertiser, Called, At, Begun, Showing, MarkingOps, TicketQueries,
         PaymentQueries, CampaignOps, CampaignLists
<1>3. CASE Refuse(r, "conflict") /\ UNCHANGED advertiserVars
  <2>1. Grow /\ Names' \subseteq Names /\ AdvertisersTypeOK' /\ Listed'
    BY <1>1, <1>3, GrowByNothing, StillTyped, StillListed DEF NotAdvertisers
  <2> QED BY <1>1, <1>2, <1>3, <2>1, RefuseOutcome DEF Refusals
<1>4. CASE /\ advertisers' = Insert(advertisers, r, row)
           /\ directory' = Append(directory, r)
           /\ Reply(r)
  <2>1. row \in AdvertiserRows /\ r \in AdvertiserIds
    BY DEF AdvertiserRows, AdvertiserIds
  <2>2. r \notin DOMAIN advertisers
    BY <1>2, Unnamed DEF Names
  <2> HIDE DEF row
  <2>3. /\ DOMAIN Insert(advertisers, r, row) = DOMAIN advertisers \cup {r}
        /\ DOMAIN Insert(advertisers, r, row) \subseteq AdvertiserIds
        /\ Insert(advertisers, r, row)
             \in [DOMAIN Insert(advertisers, r, row) -> AdvertiserRows]
    BY <1>1, <2>1, InsertType
  <2>4. directory' \in Seq(DOMAIN advertisers')
    BY <1>1, <1>4, <2>3
  <2>5. AdvertisersTypeOK'
    BY <1>4, <2>3, <2>4 DEF AdvertisersTypeOK
  <2>6. /\ Len(directory) \in Nat /\ Len(directory') = Len(directory) + 1
        /\ \A i \in 1..Len(directory) : directory'[i] = directory[i]
        /\ directory'[Len(directory')] = r
    BY <1>1, <1>4
  <2>7. Listed'
    <3> SUFFICES ASSUME NEW a \in DOMAIN advertisers'
                 PROVE  \E i \in 1..Len(directory') : directory'[i] = a
      BY DEF Listed
    <3>1. CASE a = r
      BY <2>6, <3>1
    <3>2. CASE a \in DOMAIN advertisers
      <4>1. PICK i \in 1..Len(directory) : directory[i] = a
        BY <1>1, <3>2 DEF Listed
      <4>2. i \in 1..Len(directory') /\ directory'[i] = a
        BY <2>6, <4>1
      <4> QED BY <4>2
    <3> QED BY <1>4, <2>3, <3>1, <3>2
  <2>8. Grow
    <3>1. UNCHANGED <<noticeVars, tickets>>
      BY DEF NotAdvertisers
    <3>2. DOMAIN advertisers \subseteq DOMAIN advertisers'
      BY <1>4, <2>3
    <3>3. Len(directory') \in Nat /\ Len(directory) <= Len(directory')
      BY <2>6
    <3> QED BY <2>6, <3>1, <3>2, <3>3 DEF Grow, noticeVars
  <2>9. Names' \subseteq Names \cup {r}
    BY <1>4, <2>3 DEF Names, NotAdvertisers, noticeVars
  <2> QED BY <1>1, <1>2, <1>4, <2>5, <2>7, <2>8, <2>9, PlainReply
<1> QED BY <1>3, <1>4 DEF CreateAdvertiser

\* A row is written where it is.
LEMMA RewriteGrows ==
    ASSUME Sound, NotAdvertisers, UNCHANGED directory, NEW a,
           NEW row \in AdvertiserRows,
           advertisers' = [advertisers EXCEPT ![a] = row]
    PROVE  Grow /\ Names' \subseteq Names /\ AdvertisersTypeOK' /\ Listed'
<1>1. /\ Listed
      /\ DOMAIN advertisers \subseteq AdvertiserIds
      /\ advertisers \in [DOMAIN advertisers -> AdvertiserRows]
      /\ directory \in Seq(DOMAIN advertisers)
  BY DEF Sound, TypeOK, AdvertisersTypeOK
<1>2. DOMAIN advertisers' = DOMAIN advertisers
  OBVIOUS
<1>3. AdvertisersTypeOK'
  BY <1>1, <1>2 DEF AdvertisersTypeOK
<1>4. Len(directory) \in Nat
  BY <1>1
<1>5. Grow /\ Names' \subseteq Names
  BY <1>2, <1>4 DEF Grow, Names, NotAdvertisers, noticeVars
<1>6. Listed'
  BY <1>1, <1>2 DEF Listed
<1> QED BY <1>3, <1>5, <1>6

LEMMA ListPageOutcome ==
    ASSUME Sound, NEW r \in Reqs, ListPage(r), NotAdvertisers
    PROVE  req[r].pc \in Begun /\ Outcome(r) /\ AdvertisersTypeOK' /\ Listed'
<1> DEFINE walk == IF req[r].pc = "call"
                   THEN [skip |-> 0, seen |-> {}, due |-> DOMAIN advertisers]
                   ELSE kept[r]
           next == [skip |-> walk.skip + Take,
                    seen |-> walk.seen \cup Page(walk.skip),
                    due |-> walk.due]
           behind(w) == \A a \in w.due \ w.seen :
                          \E i \in 1..Len(directory) :
                             directory[i] = a /\ Len(directory) - i >= w.skip
<1>1. /\ TypeOK /\ Listed
      /\ directory \in Seq(DOMAIN advertisers)
      /\ DOMAIN advertisers \subseteq AdvertiserIds
  BY DEF Sound, TypeOK, AdvertisersTypeOK
<1>2. Len(directory) \in Nat /\ DOMAIN directory = 1..Len(directory)
  BY <1>1
<1>3. /\ req[r].pc \in {"call", "found"} /\ req[r].by.op = "advertisers"
      /\ UNCHANGED advertiserVars
      /\ \/ Len(directory) < walk.skip + Take /\ Go(r, "reply", next)
         \/ Go(r, "found", next)
  BY DEF ListPage, Called, At, Listing
<1>4. req[r].pc \in Begun
  BY <1>3 DEF Begun
<1>5. Grow /\ Names' \subseteq Names /\ AdvertisersTypeOK' /\ Listed'
  BY <1>1, <1>3, GrowByNothing, StillTyped, StillListed DEF NotAdvertisers
<1>6. walk \in Walks /\ behind(walk)
  <2>1. CASE req[r].pc = "call"
    BY <1>1, <1>2, <2>1 DEF Listed, Walks
  <2>2. CASE req[r].pc = "found"
    BY <1>3, <2>2 DEF Sound, Carries, Walking, Done
  <2> QED BY <1>3, <2>1, <2>2
<1> HIDE DEF walk
<1>7. Take \in Nat \ {0}
  BY AdvertiserAssumption
<1>8. /\ next \in Walks
      /\ next.skip = walk.skip + Take
      /\ next.seen = walk.seen \cup Page(walk.skip)
      /\ next.due = walk.due
  <2>1. Page(walk.skip) \subseteq AdvertiserIds
    BY <1>1, <1>2 DEF Page, Listing
  <2>2. /\ walk.skip \in Nat /\ walk.seen \in SUBSET AdvertiserIds
        /\ walk.due \in SUBSET AdvertiserIds
    BY <1>6 DEF Walks
  <2>3. walk.skip + Take \in Nat
    BY <1>7, <2>2
  <2> QED BY <2>1, <2>2, <2>3 DEF Walks
<1> HIDE DEF next
<1>9. next.skip \in Nat /\ walk.skip \in Nat /\ behind(next)
  <2>1. next.skip \in Nat /\ walk.skip \in Nat
    BY <1>6, <1>8 DEF Walks
  <2>2. SUFFICES ASSUME NEW a \in next.due \ next.seen
                 PROVE  \E i \in 1..Len(directory) :
                           directory[i] = a /\ Len(directory) - i >= next.skip
    BY <2>1
  <2>3. PICK i \in 1..Len(directory) :
              directory[i] = a /\ Len(directory) - i >= walk.skip
    BY <1>6, <1>8, <2>2
  <2>4. directory[i] \notin Page(walk.skip)
    BY <1>8, <2>2, <2>3
  <2>5. ~(Len(directory) - i < walk.skip + Take)
    BY <1>2, <2>3, <2>4 DEF Page, Listing
  <2>6. Len(directory) - i >= next.skip
    BY <1>2, <1>7, <1>8, <2>1, <2>5
  <2> QED BY <2>3, <2>6
<1>10. CASE Go(r, "found", next)
  <2>1. req'[r].by = req[r].by /\ kept'[r] = next /\ req'[r].pc = "found"
    BY <1>1, <1>4, <1>10, GoKeeps
  <2>2. req'[r].by.op = "advertisers" /\ Walking(r)'
    BY <1>3, <1>8, <1>9, <2>1 DEF Walking, Done, advertiserVars
  <2>3. Carries(r)'
    BY <2>2, OwnCarries
  <2> QED BY <1>1, <1>4, <1>5, <1>10, <2>3, GoOutcome
<1>11. CASE Len(directory) < walk.skip + Take /\ Go(r, "reply", next)
  <2>1. req'[r].by = req[r].by /\ kept'[r] = next /\ req'[r].pc = "reply"
    BY <1>1, <1>4, <1>11, GoKeeps
  <2>2. next.due \subseteq next.seen
    <3> SUFFICES ASSUME NEW a \in next.due \ next.seen PROVE FALSE
      OBVIOUS
    <3>1. PICK i \in 1..Len(directory) :
                directory[i] = a /\ Len(directory) - i >= next.skip
      BY <1>9
    <3> QED BY <1>2, <1>8, <1>9, <1>11, <3>1
  <2>3. req'[r].by.op = "advertisers" /\ Walking(r)'
    BY <1>3, <2>1, <2>2 DEF Walking, Done
  <2>4. Carries(r)'
    BY <2>3, OwnCarries
  <2> QED BY <1>1, <1>4, <1>5, <1>11, <2>4, ReplyOutcome
<1> QED BY <1>3, <1>4, <1>5, <1>10, <1>11

LEMMA ServeAdvertisersOutcome ==
    ASSUME Sound, NEW r \in Reqs, Asks(r, AdvertiserOps), ServeAdvertisers(r),
           NotAdvertisers
    PROVE  req[r].pc \in Begun /\ Outcome(r) /\ AdvertisersTypeOK' /\ Listed'
<1> DEFINE goal == req[r].pc \in Begun /\ Outcome(r) /\ AdvertisersTypeOK' /\ Listed'
<1>1. /\ TypeOK /\ advertisers \in [DOMAIN advertisers -> AdvertiserRows]
  BY DEF Sound, TypeOK, AdvertisersTypeOK
<1>2. UNCHANGED advertiserVars
        => Grow /\ Names' \subseteq Names /\ AdvertisersTypeOK' /\ Listed'
  BY <1>1, GrowByNothing, StillTyped, StillListed DEF NotAdvertisers
<1>3. ASSUME NEW manager \in Users \cup {Nobody}, UpdateAdvertiser(r, manager)
      PROVE  goal
  <2> DEFINE a == kept[r]
             row == [advertisers[a] EXCEPT !.manager = manager]
  <2>1. /\ At(r, "found", "updateAdvertiser") /\ req[r].pc \in Begun
        /\ advertisers' = [advertisers EXCEPT ![a] = row]
        /\ UNCHANGED directory /\ Reply(r)
    BY <1>3 DEF UpdateAdvertiser, At, Begun
  <2>2. a \in DOMAIN advertisers
    BY <2>1 DEF Sound, Carries, Managing
  <2>3. row \in AdvertiserRows
    BY <1>1, <2>2 DEF AdvertiserRows
  <2> HIDE DEF row, a
  <2>4. Grow /\ Names' \subseteq Names /\ AdvertisersTypeOK' /\ Listed'
    BY <2>1, <2>3, RewriteGrows
  <2>5. req[r].by.op \notin Showing
    BY <2>1 DEF At, Showing, MarkingOps, TicketQueries, PaymentQueries,
                CampaignOps, CampaignLists
  <2> QED BY <1>1, <2>1, <2>4, <2>5, PlainReply
<1>4. ASSUME NEW a \in AdvertiserIds, FindAdvertiser(r, a) PROVE goal
  <2>1. /\ req[r].pc \in Begun /\ req[r].by.op = "updateAdvertiser"
        /\ UNCHANGED advertiserVars
        /\ \/ Refuse(r, "notFound") \/ Refuse(r, "forbidden")
           \/ /\ a \in DOMAIN advertisers /\ CanWrite(req[r].by, a)
              /\ Go(r, "found", a)
    BY <1>4 DEF FindAdvertiser, Called, At, Begun
  <2>2. CASE /\ a \in DOMAIN advertisers /\ CanWrite(req[r].by, a)
             /\ Go(r, "found", a)
    <3>1. req[r].by.role \in Managers
      BY <2>2 DEF CanWrite, Managers
    <3>2. req'[r].by = req[r].by /\ kept'[r] = a
      BY <1>1, <2>1, <2>2, GoKeeps
    <3>3. req'[r].by.op = "updateAdvertiser" /\ Managing(r)'
      BY <2>1, <2>2, <3>1, <3>2 DEF Managing, advertiserVars
    <3>4. Carries(r)'
      BY <3>3, OwnCarries
    <3> QED BY <1>1, <1>2, <2>1, <2>2, <3>4, GoOutcome
  <2> QED BY <1>1, <1>2, <2>1, <2>2, RefuseOutcome DEF Refusals
<1>5. ASSUME NEW a \in AdvertiserIds, SoftDelete(r, a) PROVE goal
  <2> DEFINE row == [advertisers[a] EXCEPT !.deleted = TRUE]
  <2>1. req[r].pc \in Begun /\ req[r].by.op = "softDeleteAdvertiser"
    BY <1>5 DEF SoftDelete, Called, At, Begun
  <2>2. CASE a \in DOMAIN advertisers
    <3>1. /\ advertisers' = [advertisers EXCEPT ![a] = row]
          /\ UNCHANGED directory /\ Reply(r)
      BY <1>5, <2>2 DEF SoftDelete
    <3>2. row \in AdvertiserRows
      BY <1>1, <2>2 DEF AdvertiserRows
    <3> HIDE DEF row
    <3>3. Grow /\ Names' \subseteq Names /\ AdvertisersTypeOK' /\ Listed'
      BY <3>1, <3>2, RewriteGrows
    <3>4. req[r].by.op \notin Showing
      BY <2>1 DEF Showing, MarkingOps, TicketQueries, PaymentQueries,
                  CampaignOps, CampaignLists
    <3> QED BY <1>1, <2>1, <3>1, <3>3, <3>4, PlainReply
  <2>3. CASE a \notin DOMAIN advertisers
    <3>1. UNCHANGED advertiserVars /\ Fail(r)
      BY <1>5, <2>3 DEF SoftDelete, advertiserVars
    <3> QED BY <1>1, <1>2, <2>1, <3>1, FailOutcome
  <2> QED BY <2>2, <2>3
<1>6. ASSUME NEW c \in DOMAIN CampaignOwner \cup {Nobody}, FindCampaign(r, c)
      PROVE  goal
  <2>1. /\ req[r].pc \in Begun /\ req[r].by.op \in CampaignOps
        /\ UNCHANGED advertiserVars
        /\ Go(r, "found", c) \/ Refuse(r, "notFound")
    BY <1>6 DEF FindCampaign, CampaignCall, Begun
  <2>2. CASE Go(r, "found", c)
    <3>1. req'[r].by = req[r].by /\ req'[r].pc = "found"
      BY <1>1, <2>1, <2>2, GoKeeps
    <3>2. req'[r].by.op \in CampaignOps /\ CampaignsShown(r)'
      BY <2>1, <3>1 DEF CampaignsShown, Done
    <3>3. Carries(r)'
      BY <3>2, OwnCarries
    <3> QED BY <1>1, <1>2, <2>1, <2>2, <3>3, GoOutcome
  <2> QED BY <1>1, <1>2, <2>1, <2>2, RefuseOutcome DEF Refusals
<1>7. ASSUME CheckOwner(r) PROVE goal
  <2>1. /\ req[r].pc \in Begun /\ req[r].by.op \in CampaignOps
        /\ UNCHANGED advertiserVars
        /\ \/ MayTouch(req[r].by, kept[r]) /\ Go(r, "reply", kept[r])
           \/ Refuse(r, "forbidden")
    BY <1>7 DEF CheckOwner, CampaignCall, Begun, Reply
  <2>2. CASE MayTouch(req[r].by, kept[r]) /\ Go(r, "reply", kept[r])
    <3>1. req'[r].by = req[r].by /\ kept'[r] = kept[r]
      BY <1>1, <2>1, <2>2, GoKeeps
    <3>2. req[r].by.role \in StaffRoles \/ CampaignOwner[kept[r]] = req[r].by.user
      BY <2>2 DEF MayTouch, StaffRoles
    <3>3. req[r].by.op \notin CampaignLists
      BY <2>1 DEF CampaignOps, CampaignLists
    <3>4. req'[r].by.op \in CampaignOps /\ CampaignsShown(r)'
      BY <2>1, <3>1, <3>2, <3>3 DEF CampaignsShown
    <3>5. Carries(r)'
      BY <3>4, OwnCarries
    <3> QED BY <1>1, <1>2, <2>1, <2>2, <3>5, ReplyOutcome
  <2> QED BY <1>1, <1>2, <2>1, <2>2, RefuseOutcome DEF Refusals
<1>8. ASSUME NEW my \in BOOLEAN, ListCampaigns(r, my) PROVE goal
  <2>1. /\ req[r].pc \in Begun /\ req[r].by.op \in CampaignLists
        /\ UNCHANGED advertiserVars
    BY <1>8 DEF ListCampaigns, Begun
  <2>2. \/ Refuse(r, "forbidden")
        \/ \E what : /\ Go(r, "reply", what)
                     /\ \/ req[r].by.role \in StaffRoles
                        \/ \A c \in what : CampaignOwner[c] = req[r].by.user
    BY <1>8 DEF ListCampaigns
  <2>3. ASSUME NEW what, Go(r, "reply", what),
               \/ req[r].by.role \in StaffRoles
               \/ \A c \in what : CampaignOwner[c] = req[r].by.user
        PROVE  goal
    <3>1. req'[r].by = req[r].by /\ kept'[r] = what
      BY <1>1, <2>1, <2>3, GoKeeps
    <3>2. req[r].by.op \notin CampaignOps
      BY <2>1 DEF CampaignOps, CampaignLists
    <3>3. req'[r].by.op \in CampaignLists /\ CampaignsShown(r)'
      BY <2>1, <2>3, <3>1, <3>2 DEF CampaignsShown, CampaignCall
    <3>4. Carries(r)'
      BY <3>3, OwnCarries
    <3> QED BY <1>1, <1>2, <2>1, <2>3, <3>4, ReplyOutcome
  <2> QED BY <1>1, <1>2, <2>1, <2>2, <2>3, RefuseOutcome DEF Refusals
<1> QED
  BY <1>3, <1>4, <1>5, <1>6, <1>7, <1>8, CreateAdvertiserOutcome, ListPageOutcome
  DEF ServeAdvertisers

LEMMA ServeAdvertisersSound ==
    ASSUME Sound, NEW r \in Reqs, Asks(r, AdvertiserOps), ServeAdvertisers(r),
           NotAdvertisers
    PROVE  Sound'
<1>1. TypeOK
  BY DEF Sound
<1>2. req[r].pc \in Begun /\ Outcome(r) /\ AdvertisersTypeOK' /\ Listed'
  BY ServeAdvertisersOutcome
<1>3. AccountsTypeOK'
  BY <1>1, <1>2, AccountsStay DEF NotAdvertisers
<1>4. TypeOK'
  BY <1>1, <1>2, <1>3, StillTyped DEF NotAdvertisers, TypeOK
<1> QED BY <1>1, <1>2, <1>4, OutcomeIsSound

-----------------------------------------------------------------------------
\* What moves a request besides the services: other requests and the tables
\* are left alone.
LEMMA MoveIsSound ==
    ASSUME Sound, NotAccounts, UNCHANGED accountVars, NEW r \in Reqs,
           NEW s \in ReqStates, NEW what, Moves(r, s, what),
           Judged(r)', Carries(r)', Named(r)'
    PROVE  Sound'
<1>1. TypeOK /\ Listed' /\ Grow /\ UNCHANGED Names
  BY StillListed, GrowByNothing
  DEF Sound, NotAccounts, Names, noticeVars, advertiserVars
<1>2. AccountsTypeOK'
  BY <1>1 DEF TypeOK, AccountsTypeOK, accountVars, Moves
<1>3. TypeOK'
  BY <1>1, <1>2, StillTyped DEF NotAccounts, TypeOK
<1>4. ASSUME NEW q \in Reqs \ {r} PROVE (Judged(q) /\ Carries(q) /\ Named(q))'
  <2>1. req'[q] = req[q] /\ kept'[q] = kept[q]
    BY DEF Moves
  <2>2. Judged(q) /\ Carries(q) /\ Named(q)
    BY DEF Sound
  <2>3. Carries(q)'
    BY <1>1, <2>1, <2>2, CarriesOn
  <2>4. Judged(q)'
    BY <2>1, <2>2 DEF Judged
  <2>5. Named(q)'
    BY <1>1, <2>1, <2>2 DEF Named, Names
  <2> QED BY <2>3, <2>4, <2>5
<1> QED BY <1>1, <1>3, <1>4 DEF Sound

LEMMA RefusedIsSound ==
    ASSUME Sound, NotAccounts, UNCHANGED accountVars, NEW r \in Reqs,
           req[r].pc \in {"new", "again"}, NEW why \in Refusals, Refuse(r, why)
    PROVE  Sound'
<1> DEFINE s == [pc |-> "refused", why |-> why]
<1>1. s \in ReqStates /\ s.pc = "refused"
  BY DEF ReqStates
<1>2. Moves(r, s, Nothing)
  BY <1>1, BecomeMoves DEF Refuse, Sound, TypeOK
<1> HIDE DEF s
<1>3. req'[r].pc = "refused"
  BY <1>1, <1>2 DEF Moves
<1>4. r \notin Names /\ UNCHANGED Names
  BY DEF Sound, Named, Names, Done, NotAccounts, noticeVars, advertiserVars
<1>5. Judged(r)' /\ Carries(r)' /\ Named(r)'
  BY <1>3, <1>4, StoppedCarries DEF Judged, Named, Names, Stages
<1> QED BY <1>1, <1>2, <1>5, MoveIsSound

LEMMA FailedIsSound ==
    ASSUME Sound, NotAccounts, UNCHANGED accountVars, NEW r \in Reqs, Fail(r)
    PROVE  Sound'
<1> DEFINE s == [pc |-> "failed"]
<1>1. s \in ReqStates /\ s.pc = "failed"
  BY DEF ReqStates
<1>2. Moves(r, s, Nothing)
  BY <1>1, BecomeMoves DEF Fail, Sound, TypeOK
<1> HIDE DEF s
<1>3. req'[r].pc = "failed"
  BY <1>1, <1>2 DEF Moves
<1>4. Judged(r)' /\ Carries(r)' /\ Named(r)'
  BY <1>3, StoppedCarries DEF Judged, Named, Stages
<1> QED BY <1>1, <1>2, <1>4, MoveIsSound

\* Nothing is carried before the handler has read.
LEMMA FreshCarries ==
    ASSUME NEW r, req'[r].pc \in {"again", "call"}
    PROVE  Carries(r)'
  BY DEF Carries, Marking, NoticesShown, Assigning, TicketsShown, PaymentsShown,
         Managing, CampaignsShown, Walking, At, Done

\* Whom the guards may let in.
Cleared(by) ==
    /\ by.user \in Users /\ by.passed \in Roles /\ by.role \in Roles
    /\ by.op \in NeedsSuper => by.passed = "SUPER_ADMIN"
    /\ by.op \in NeedsAdmin => by.passed \in Admins
    /\ by.op \in NeedsManager => by.passed \in Managers
    /\ by.op \in NeedsStaff => by.passed \in StaffRoles

LEMMA LetInIsSound ==
    ASSUME Sound, NotAccounts, UNCHANGED accountVars, NEW r \in Reqs,
           req[r].pc \in {"new", "again"}, NEW by \in Callers,
           NEW pc \in {"again", "call"},
           Become(r, [pc |-> pc, by |-> by], Nothing),
           Cleared(by) \/ (by.user = Nobody /\ IsPublic(by.op) /\ pc = "call")
    PROVE  Sound'
<1> DEFINE s == [pc |-> pc, by |-> by]
<1>1. s \in ReqStates /\ s.pc = pc /\ s.by = by
  BY DEF ReqStates, Stages
<1>2. Moves(r, s, Nothing)
  BY <1>1, BecomeMoves DEF Sound, TypeOK
<1> HIDE DEF s
<1>3. req'[r].pc = pc /\ req'[r].by = by
  BY <1>1, <1>2 DEF Moves
<1>4. r \notin Names /\ UNCHANGED Names
  BY DEF Sound, Named, Names, Done, NotAccounts, noticeVars, advertiserVars
<1>5. Judged(r)'
  BY <1>3 DEF Judged, Cleared
<1>6. Carries(r)' /\ Named(r)'
  BY <1>3, <1>4, FreshCarries DEF Named, Names
<1> QED BY <1>1, <1>2, <1>5, <1>6, MoveIsSound

LEMMA EnterIsSound ==
    ASSUME Sound, NotAccounts, UNCHANGED accountVars, NEW r \in Reqs,
           req[r].pc \in {"new", "again"}, NEW by \in Callers, Enter(r, by),
           Cleared(by) \/ (by.user = Nobody /\ IsPublic(by.op))
    PROVE  Sound'
<1>1. CASE Become(r, [pc |-> "call", by |-> by], Nothing)
  BY <1>1, LetInIsSound
<1>2. CASE Refuse(r, "undecorated") \/ Refuse(r, "invalid")
  BY <1>2, RefusedIsSound DEF Refusals
<1> QED BY <1>1, <1>2 DEF Enter

LEMMA ArriveSound ==
    ASSUME Sound, NEW r \in Reqs, Arrive(r), NotAccounts
    PROVE  Sound'
<1>1. CASE Throttle(r)
  BY <1>1, RefusedIsSound DEF Throttle, Refusals
<1>2. ASSUME NEW op \in Operations, AdmitPublic(r, op) PROVE Sound'
  <2> DEFINE by == [op |-> op, user |-> Nobody, passed |-> Nobody, role |-> Nobody]
  <2>1. by \in Callers /\ by.user = Nobody /\ by.op = op
    BY DEF Callers
  <2>2. /\ req[r].pc = "new" /\ IsPublic(op) /\ Enter(r, by)
        /\ UNCHANGED accountVars
    BY <1>2 DEF AdmitPublic
  <2> HIDE DEF by
  <2> QED BY <2>1, <2>2, EnterIsSound
<1>3. ASSUME NEW op \in Operations, NEW u \in Users, Admit(r, op, u) PROVE Sound'
  <2> DEFINE role == users[u].role
             by == Caller(op, u, role)
  <2>1. role \in Roles
    BY DEF Sound, TypeOK, AccountsTypeOK, UserRows
  <2>2. /\ by \in Callers
        /\ by.op = op /\ by.user = u /\ by.passed = role /\ by.role = role
    BY <2>1 DEF Caller, Callers
  <2>3. /\ req[r].pc = "new" /\ UNCHANGED accountVars
        /\ \/ Refuse(r, "unauthorized") \/ Refuse(r, "forbidden")
           \/ /\ Permits(op, role, rolePermissions)
              /\ \/ Become(r, [pc |-> "again", by |-> by], Nothing)
                 \/ Enter(r, by)
    BY <1>3, <2>2 DEF Admit
  <2> HIDE DEF role, by
  <2>4. ASSUME Permits(op, role, rolePermissions) PROVE Cleared(by)
    BY <2>1, <2>2, <2>4, GatesHold DEF Cleared
  <2>5. CASE Refuse(r, "unauthorized") \/ Refuse(r, "forbidden")
    BY <2>3, <2>5, RefusedIsSound DEF Refusals
  <2>6. CASE /\ Permits(op, role, rolePermissions)
             /\ Become(r, [pc |-> "again", by |-> by], Nothing)
    BY <2>2, <2>3, <2>4, <2>6, LetInIsSound
  <2>7. CASE Permits(op, role, rolePermissions) /\ Enter(r, by)
    BY <2>2, <2>3, <2>4, <2>7, EnterIsSound
  <2> QED BY <2>3, <2>5, <2>6, <2>7
<1> QED BY <1>1, <1>2, <1>3 DEF Arrive

LEMMA ReauthenticateSound ==
    ASSUME Sound, NEW r \in Reqs, Reauthenticate(r), NotAccounts
    PROVE  Sound'
<1> DEFINE u == req[r].by.user
           by == [req[r].by EXCEPT !.role = users[u].role]
<1>1. req[r].pc = "again" /\ UNCHANGED accountVars
  BY DEF Reauthenticate
<1>2. u \in Users /\ Cleared(req[r].by)
  BY <1>1 DEF Sound, Judged, Stages, Cleared
<1>3. req[r].by \in Callers
  <2>1. req[r] \in [pc : Stages, by : Callers]
    BY <1>1, ServedShape DEF Sound, TypeOK, Stages
  <2> QED BY <2>1
<1>4. users[u].role \in Roles
  BY <1>2 DEF Sound, TypeOK, AccountsTypeOK, UserRows
<1>5. by \in Callers /\ Cleared(by)
  BY <1>2, <1>3, <1>4 DEF Cleared, Callers
<1>6. Enter(r, by) \/ Refuse(r, "unauthorized")
  BY DEF Reauthenticate
<1> HIDE DEF by, u
<1> QED BY <1>1, <1>5, <1>6, EnterIsSound, RefusedIsSound DEF Refusals

LEMMA SendReplySound ==
    ASSUME Sound, NEW r \in Reqs, SendReply(r), NotAccounts
    PROVE  Sound'
<1> DEFINE s == [pc |-> "ok", by |-> req[r].by]
<1>1. /\ req[r].pc = "reply" /\ Go(r, "ok", kept[r]) /\ UNCHANGED accountVars
  BY DEF SendReply
<1>2. req[r] \in [pc : Stages, by : Callers]
  BY <1>1, ServedShape DEF Sound, TypeOK, Stages
<1>3. s \in ReqStates /\ s.pc = "ok" /\ s.by = req[r].by
  BY <1>2 DEF ReqStates, Stages
<1>4. [req[r] EXCEPT !.pc = "ok"] = s
  BY <1>2
<1>5. Moves(r, s, kept[r])
  BY <1>1, <1>3, <1>4, BecomeMoves DEF Go, Sound, TypeOK
<1> HIDE DEF s
<1>6. req'[r].pc = "ok" /\ req'[r].by = req[r].by /\ kept'[r] = kept[r]
  BY <1>3, <1>5 DEF Moves
<1>7. Judged(r) /\ Carries(r)
  BY DEF Sound
<1>8. Judged(r)' /\ Named(r)'
  BY <1>1, <1>6, <1>7 DEF Judged, Named, Done, Stages
<1>9. UNCHANGED <<notices, reads, tickets, advertisers>>
  BY DEF NotAccounts, noticeVars, advertiserVars
<1>10. Carries(r)'
  <2>1. Marking(r)'
    BY <1>1, <1>6, <1>7, <1>9 DEF Carries, Marking, Done, Stages
  <2>2. NoticesShown(r)'
    BY <1>1, <1>6, <1>7, <1>9 DEF Carries, NoticesShown, Done
  <2>3. TicketsShown(r)'
    BY <1>1, <1>6, <1>7, <1>9 DEF Carries, TicketsShown, Done
  <2>4. PaymentsShown(r)'
    BY <1>1, <1>6, <1>7 DEF Carries, PaymentsShown, Done, PaymentQuery
  <2>5. CampaignsShown(r)'
    BY <1>1, <1>6, <1>7 DEF Carries, CampaignsShown, Done, CampaignCall
  <2>6. Assigning(r)' /\ Managing(r)'
    BY <1>6 DEF Assigning, Managing, At
  <2>7. Walking(r)'
    BY <1>1, <1>6, <1>7 DEF Carries, Walking, Done
  <2> QED BY <2>1, <2>2, <2>3, <2>4, <2>5, <2>6, <2>7 DEF Carries
<1> QED BY <1>1, <1>3, <1>5, <1>8, <1>10, MoveIsSound

LEMMA CrashSound ==
    ASSUME Sound, Crash, NotAccounts
    PROVE  Sound'
<1>1. /\ TypeOK /\ Listed' /\ Grow /\ UNCHANGED Names /\ UNCHANGED accountVars
  BY StillListed, GrowByNothing
  DEF Sound, NotAccounts, Names, noticeVars, advertiserVars, Crash
<1>2. req \in [Reqs -> ReqStates] /\ [pc |-> "failed"] \in ReqStates
  BY <1>1 DEF TypeOK, AccountsTypeOK, ReqStates
<1>3. AccountsTypeOK'
  BY <1>1, <1>2 DEF TypeOK, AccountsTypeOK, accountVars, Crash
<1>4. TypeOK'
  BY <1>1, <1>3, StillTyped DEF NotAccounts, TypeOK
<1>5. ASSUME NEW q \in Reqs PROVE (Judged(q) /\ Carries(q) /\ Named(q))'
  <2>1. Judged(q) /\ Carries(q) /\ Named(q)
    BY DEF Sound
  <2>2. CASE InFlight(q)
    <3>1. req'[q].pc = "failed"
      BY <2>2 DEF Crash
    <3> QED BY <3>1, StoppedCarries DEF Judged, Named, Stages
  <2>3. CASE ~InFlight(q)
    <3>1. req'[q] = req[q] /\ kept'[q] = kept[q]
      BY <2>3 DEF Crash
    <3>2. Carries(q)'
      BY <1>1, <2>1, <3>1, CarriesOn
    <3>3. Judged(q)'
      BY <2>1, <3>1 DEF Judged
    <3>4. Named(q)'
      BY <1>1, <2>1, <3>1 DEF Named, Names
    <3> QED BY <3>2, <3>3, <3>4
  <2> QED BY <2>2, <2>3
<1> QED BY <1>1, <1>4, <1>5 DEF Sound

LEMMA SoundInit == Init => Sound
<1> SUFFICES ASSUME Init PROVE Sound
  OBVIOUS
<1> USE DEF Init
<1>1. AccountsTypeOK
  <2>1. [pc |-> "new"] \in ReqStates
    BY DEF ReqStates
  <2> QED BY <2>1, AccountAssumption DEF AccountsInit, AccountsTypeOK
<1>2. NoticesTypeOK
  BY NoticeAssumption DEF NoticesInit, NoticesTypeOK, NoticeIds
<1>3. TicketsTypeOK
  BY DEF TicketsInit, TicketsTypeOK, Empty
<1>4. PayoutsTypeOK
  BY DEF PayoutsInit, PayoutsTypeOK, Empty
<1>5. AdvertisersTypeOK
  <2>1. advertisers \in [DOMAIN Managed -> AdvertiserRows]
    BY AdvertiserAssumption DEF AdvertisersInit, AdvertiserRows
  <2>2. DOMAIN advertisers = DOMAIN Managed
    BY DEF AdvertisersInit
  <2>3. directory \in Seq(DOMAIN advertisers)
    BY <2>2, AdvertiserAssumption DEF AdvertisersInit
  <2> QED BY <2>1, <2>2, <2>3 DEF AdvertisersTypeOK, AdvertiserIds
<1>6. RegistryTypeOK
  BY RegistryAssumption DEF RegistryInit, RegistryTypeOK, RegistryKeys, Contents
<1>7. Listed
  <2>1. DOMAIN Seniority = 1..Len(Seniority)
    BY AdvertiserAssumption
  <2> QED BY <2>1, AdvertiserAssumption DEF AdvertisersInit, Listed
<1>8. ASSUME NEW r \in Reqs PROVE Judged(r) /\ Carries(r) /\ Named(r)
  <2>1. req[r].pc = "new"
    BY DEF AccountsInit
  <2>2. Judged(r)
    BY <2>1 DEF Judged, Stages
  <2>3. Carries(r)
    BY <2>1 DEF Carries, Marking, NoticesShown, Assigning, TicketsShown,
                PaymentsShown, Managing, CampaignsShown, Walking, At, Stages, Done
  <2>4. Named(r)
    BY NoticeAssumption, AdvertiserAssumption
    DEF Named, NoticesInit, TicketsInit, Empty, AdvertisersInit
  <2> QED BY <2>2, <2>3, <2>4
<1> QED BY <1>1, <1>2, <1>3, <1>4, <1>5, <1>6, <1>7, <1>8 DEF Sound, TypeOK

LEMMA SoundNext == Sound /\ [Next]_vars => Sound'
<1> SUFFICES ASSUME Sound, [Next]_vars PROVE Sound'
  OBVIOUS
<1>1. ASSUME NEW r \in Reqs, Serve(r) PROVE Sound'
  BY <1>1, ReauthenticateSound, SendReplySound, ServeAccountsSound, AnswerSound,
     ServeNoticesSound, ServeTicketsSound, ServePayoutsSound,
     ServeAdvertisersSound, ServeRegistrySound
  DEF Serve
<1>2. ASSUME NEW r \in Reqs, Arrive(r), NotAccounts PROVE Sound'
  BY <1>2, ArriveSound
<1>3. ASSUME NEW r \in Reqs, CallFails(r), NotAccounts PROVE Sound'
  BY <1>3, FailedIsSound DEF CallFails
<1>4. CASE Crash /\ NotAccounts
  BY <1>4, CrashSound
<1>5. CASE UNCHANGED vars
  <2>1. /\ UNCHANGED <<req, kept, notices, reads, tickets, advertisers, directory>>
        /\ UNCHANGED <<accountVars, requestVars, noticeVars, tickets, payments,
                       advertiserVars, registry>>
    BY <1>5 DEF vars, requestVars, noticeVars, advertiserVars
  <2>2. TypeOK /\ TypeOK'
    BY <2>1, StillTyped DEF Sound, TypeOK, AccountsTypeOK, accountVars, requestVars
  <2>3. Grow /\ UNCHANGED Names /\ Listed'
    BY <2>1, <2>2, GrowByNothing, StillListed DEF Names
  <2>4. ASSUME NEW q \in Reqs PROVE (Judged(q) /\ Carries(q) /\ Named(q))'
    <3>1. Judged(q) /\ Carries(q) /\ Named(q)
      BY DEF Sound
    <3>2. Carries(q)'
      BY <2>1, <2>3, <3>1, CarriesOn
    <3> QED BY <2>1, <2>3, <3>1, <3>2 DEF Judged, Named, Names
  <2> QED BY <2>2, <2>3, <2>4 DEF Sound
<1> QED BY <1>1, <1>2, <1>3, <1>4, <1>5 DEF Next

\* In every reachable state each request carries what is still true, and each
\* table has its type.
THEOREM SoundAlways == Spec => []Sound
  BY SoundInit, SoundNext, PTL DEF Spec

\* Every table and every request of the back office keeps its type.
THEOREM BackOfficeTyped == Spec => []TypeOK
<1>1. Sound => TypeOK
  BY DEF Sound
<1> QED BY <1>1, SoundAlways, PTL

\* What an answered marking looked at is read, whoever marks meanwhile
\* (NotificationsService.markRead, markAllRead).
THEOREM MarksAreStored == Spec => []AnsweredMarksAreStored
<1>1. Sound => AnsweredMarksAreStored
  BY DEF Sound, Carries, Marking, AnsweredMarksAreStored, MarkingOps, Done, Stages
<1> QED BY <1>1, SoundAlways, PTL

\* Nobody is shown what takes a role of staff without having had one when the
\* request was judged, whatever roles change before the answer is read.
THEOREM AnswersStayPrivate == Spec => []AnswersArePrivate
<1>1. ASSUME Sound, NEW r \in Reqs, req[r].pc \in {"reply", "ok"}
      PROVE  LET by == req[r].by
                 shown == kept[r]
             IN  /\ PaymentQuery(r) => by.role \in StaffRoles \/ shown = by.user
                 /\ by.op = "notifications" =>
                      \A n \in shown : notices[n] \in {by.user, Everyone}
                 /\ by.op \in {"mySupportTickets", "supportTickets"} =>
                      \A t \in shown : \/ by.passed \in StaffRoles
                                       \/ tickets[t].owner = by.user
                 /\ CampaignCall(r) =>
                      by.role \in StaffRoles \/ CampaignOwner[shown] = by.user
                 /\ by.op \in CampaignLists =>
                      \/ by.role \in StaffRoles
                      \/ \A c \in shown : CampaignOwner[c] = by.user
  <2>1. Carries(r) /\ req[r].pc \in Done
    BY <1>1 DEF Sound, Done
  <2>2. PaymentQuery(r) => req[r].by.role \in StaffRoles \/ kept[r] = req[r].by.user
    BY <2>1 DEF Carries, PaymentsShown
  <2>3. req[r].by.op = "notifications" =>
          \A n \in kept[r] : notices[n] \in {req[r].by.user, Everyone}
    BY <2>1 DEF Carries, NoticesShown
  <2>4. req[r].by.op \in {"mySupportTickets", "supportTickets"} =>
          \A t \in kept[r] : \/ req[r].by.passed \in StaffRoles
                             \/ tickets[t].owner = req[r].by.user
    BY <2>1 DEF Carries, TicketsShown, TicketQueries
  <2>5. /\ CampaignCall(r) =>
             req[r].by.role \in StaffRoles \/ CampaignOwner[kept[r]] = req[r].by.user
        /\ req[r].by.op \in CampaignLists =>
             \/ req[r].by.role \in StaffRoles
             \/ \A c \in kept[r] : CampaignOwner[c] = req[r].by.user
    BY <2>1 DEF Carries, CampaignsShown
  <2> QED BY <2>2, <2>3, <2>4, <2>5
<1>2. Sound => AnswersArePrivate
  BY <1>1 DEF AnswersArePrivate
<1> QED BY <1>2, SoundAlways, PTL

\* Creating moves every row back by one place and nothing moves one forward, so
\* no page leaves out a row of the start (AdvertisersService.findAll).
THEOREM NothingMissed == Spec => []WalkMissesNothing
<1>1. Sound => WalkMissesNothing
  BY DEF Sound, Carries, Walking, WalkMissesNothing, Done
<1> QED BY <1>1, SoundAlways, PTL

\* A ticket that is resolved or closed has its date, and so has a payment that
\* is paid (SupportTicketsService.update, updatePaymentStatus).
THEOREM SettledDated == Spec => []SettledIsDated
<1>1. Init => SettledIsDated
  BY DEF Init, TicketsInit, PayoutsInit, SettledIsDated, Empty
<1>2. ASSUME Sound, SettledIsDated, [Next]_vars
      PROVE  SettledIsDated'
  <2>1. /\ DOMAIN tickets \subseteq Reqs /\ tickets \in [DOMAIN tickets -> TicketRows]
        /\ DOMAIN payments \subseteq Reqs
        /\ payments \in [DOMAIN payments -> PaymentRows]
    BY <1>2 DEF Sound, TypeOK, TicketsTypeOK, PayoutsTypeOK
  <2>2. CASE UNCHANGED <<tickets, payments>>
    BY <1>2, <2>2 DEF SettledIsDated
  <2>3. ASSUME NEW t \in DOMAIN tickets, NEW status, NEW assignee
        PROVE  Updated(tickets[t], status, assignee).status \in {"RESOLVED", "CLOSED"}
                 => Updated(tickets[t], status, assignee).resolved
    <3>1. tickets[t] \in TicketRows
      BY <2>1
    <3>2. tickets[t].status \in {"RESOLVED", "CLOSED"} => tickets[t].resolved
      BY <1>2 DEF SettledIsDated
    <3> QED BY <3>1, <3>2 DEF Updated, TicketRows
  <2>4. ASSUME NEW r \in Reqs, NEW t, NEW status, NEW assignee,
               WriteTicket(r, t, status, assignee), UNCHANGED payments
        PROVE  SettledIsDated'
    <3>1. CASE t \in DOMAIN tickets
      <4>1. tickets' = [tickets EXCEPT ![t] = Updated(tickets[t], status, assignee)]
        BY <2>4, <3>1 DEF WriteTicket
      <4> QED BY <1>2, <2>3, <2>4, <3>1, <4>1 DEF SettledIsDated
    <3>2. CASE t \notin DOMAIN tickets
      BY <2>2, <2>4, <3>2 DEF WriteTicket
    <3> QED BY <3>1, <3>2
  <2>5. ASSUME NEW r \in Reqs, ServeTickets(r), NotTickets PROVE SettledIsDated'
    <3>1. UNCHANGED payments
      BY <2>5 DEF NotTickets
    <3>2. CASE CreateTicket(r)
      <4> DEFINE row == [owner |-> req[r].by.user, status |-> "OPEN",
                         assignee |-> Nobody, resolved |-> FALSE]
      <4>1. tickets' = Insert(tickets, r, row) /\ row.status = "OPEN"
        BY <3>2 DEF CreateTicket
      <4> HIDE DEF row
      <4> QED BY <1>2, <3>1, <4>1 DEF SettledIsDated, Insert
    <3>3. ASSUME NEW t \in Reqs, NEW status, NEW assignee,
                 UpdateTicket(r, t, status, assignee)
          PROVE  SettledIsDated'
      BY <2>4, <3>1, <3>3 DEF UpdateTicket
    <3>4. CASE AssignTicket(r)
      BY <2>4, <3>1, <3>4 DEF AssignTicket
    <3>5. ASSUME NEW t \in Reqs, NEW status, NEW u, AssertAssignable(r, t, status, u)
          PROVE  SettledIsDated'
      BY <2>2, <3>1, <3>5 DEF AssertAssignable
    <3>6. CASE FindTickets(r)
      BY <2>2, <3>1, <3>6 DEF FindTickets
    <3> QED BY <2>5, <3>2, <3>3, <3>4, <3>5, <3>6 DEF ServeTickets
  <2>6. ASSUME NEW r \in Reqs, ServePayouts(r), NotPayouts PROVE SettledIsDated'
    <3>1. UNCHANGED tickets
      BY <2>6 DEF NotPayouts
    <3>2. ASSUME NEW a \in Affiliates, CreatePayment(r, a) PROVE SettledIsDated'
      <4> DEFINE row == [affiliate |-> a, status |-> "PENDING", paid |-> FALSE]
      <4>1. payments' = Insert(payments, r, row) /\ row.status = "PENDING"
        BY <3>2 DEF CreatePayment
      <4> HIDE DEF row
      <4> QED BY <1>2, <3>1, <4>1 DEF SettledIsDated, Insert
    <3>3. ASSUME NEW p \in Reqs, NEW status \in PaymentStatuses,
                 UpdateStatus(r, p, status)
          PROVE  SettledIsDated'
      <4>1. CASE p \in DOMAIN payments
        <5> DEFINE row == [payments[p] EXCEPT !.status = status,
                                              !.paid = @ \/ status = "PAID"]
        <5>1. payments' = [payments EXCEPT ![p] = row]
          BY <3>3, <4>1 DEF UpdateStatus
        <5>2. row.status = "PAID" => row.paid
          BY <2>1, <4>1 DEF PaymentRows
        <5> HIDE DEF row
        <5> QED BY <1>2, <3>1, <4>1, <5>1, <5>2 DEF SettledIsDated
      <4>2. CASE p \notin DOMAIN payments
        BY <2>2, <3>1, <3>3, <4>2 DEF UpdateStatus
      <4> QED BY <4>1, <4>2
    <3>4. ASSUME NEW asked, ResolveAffiliateId(r, asked) PROVE SettledIsDated'
      BY <2>2, <3>1, <3>4 DEF ResolveAffiliateId
    <3>5. CASE FindPayments(r)
      BY <2>2, <3>1, <3>5 DEF FindPayments
    <3> QED BY <2>6, <3>2, <3>3, <3>4, <3>5 DEF ServePayouts
  <2>7. CASE Next
    <3>1. \/ UNCHANGED <<tickets, payments>>
          \/ \E r \in Reqs : ServeTickets(r) /\ NotTickets
          \/ \E r \in Reqs : ServePayouts(r) /\ NotPayouts
      BY <2>7 DEF Next, Serve, NotAccounts, NotNotices, NotAdvertisers, NotRegistry
    <3> QED BY <2>2, <2>5, <2>6, <3>1
  <2>8. CASE UNCHANGED vars
    BY <2>2, <2>8 DEF vars
  <2> QED BY <1>2, <2>7, <2>8
<1> QED BY <1>1, <1>2, SoundAlways, PTL DEF Spec

-----------------------------------------------------------------------------
(***************************************************************************)
(* What the back office has on file stays on file: rows are not removed,   *)
(* nobody is made the owner of another's, and a date or a deletion, once   *)
(* set, is not taken back.                                                 *)
(***************************************************************************)

RecordsKept ==
    /\ reads \subseteq reads'
    /\ \A n \in DOMAIN notices : n \in DOMAIN notices' /\ notices'[n] = notices[n]
    /\ \A t \in DOMAIN tickets :
         /\ t \in DOMAIN tickets' /\ tickets'[t].owner = tickets[t].owner
         /\ tickets[t].resolved => tickets'[t].resolved
    /\ \A p \in DOMAIN payments :
         /\ p \in DOMAIN payments' /\ payments'[p].affiliate = payments[p].affiliate
         /\ payments[p].paid => payments'[p].paid
    /\ \A a \in DOMAIN advertisers :
         /\ a \in DOMAIN advertisers'
         /\ advertisers[a].deleted => advertisers'[a].deleted

\* A payment is named by a request that has answered.
Settled(q) == req[q].pc \in Done \cup {"failed"}
PaymentsNamed == \A p \in DOMAIN payments : Settled(p)

\* A request that has come to its answer does not go back.
LEMMA SettledStays ==
    ASSUME Sound, [Next]_vars, NEW q \in Reqs, Settled(q)
    PROVE  Settled(q)'
<1>1. req \in [Reqs -> ReqStates]
  BY DEF Sound, TypeOK, AccountsTypeOK
<1>2. ASSUME NEW r \in Reqs, NEW s, req' = [req EXCEPT ![r] = s],
             req[r].pc \in {"new", "again"} \/ s.pc \in Done \cup {"failed"}
      PROVE  Settled(q)'
  BY <1>1, <1>2 DEF Settled, Done
<1>3. ASSUME NEW r \in Reqs, req[r].pc \in Begun, Outcome(r)
      PROVE  Settled(q)'
  BY <1>3 DEF Outcome, Stops, Goes, Moves, Settled, Begun, Done
<1>4. ASSUME NEW r \in Reqs, Arrive(r) \/ Reauthenticate(r)
      PROVE  Settled(q)'
  <2>1. req[r].pc \in {"new", "again"} /\ \E s : req' = [req EXCEPT ![r] = s]
    BY <1>4 DEF Arrive, Throttle, AdmitPublic, Admit, Reauthenticate, Enter, Refuse,
                Become
  <2> QED BY <1>2, <2>1
<1>5. ASSUME NEW r \in Reqs, SendReply(r)
      PROVE  Settled(q)'
  <2>1. req[r] \in [pc : Stages, by : Callers]
    BY <1>5, ServedShape DEF SendReply, Sound, TypeOK, Stages
  <2>2. [req[r] EXCEPT !.pc = "ok"].pc = "ok"
    BY <2>1
  <2> QED BY <1>2, <1>5, <2>2 DEF SendReply, Go, Become, Done
<1>6. ASSUME NEW r \in Reqs, CallFails(r)
      PROVE  Settled(q)'
  <2>1. req' = [req EXCEPT ![r] = [pc |-> "failed"]]
    BY <1>6 DEF CallFails, Fail, Become
  <2> QED BY <1>2, <2>1
<1>7. CASE Crash
  BY <1>7 DEF Crash, Settled, InFlight, Done, Stages
<1>8. CASE UNCHANGED vars
  BY <1>8 DEF vars, requestVars, Settled
<1>9. ASSUME NEW r \in Reqs, Serve(r)
      PROVE  Settled(q)'
  BY <1>3, <1>4, <1>5, <1>9, ServeAccountsOutcome, AnswerOutcome,
     ServeNoticesOutcome, ServeTicketsOutcome, ServePayoutsOutcome,
     ServeAdvertisersOutcome, ServeRegistryOutcome
  DEF Serve
<1> QED BY <1>4, <1>6, <1>7, <1>8, <1>9 DEF Next

\* Each service keeps the rows of its tables, and what is settled of them.
LEMMA TicketsKept ==
    ASSUME Sound, NEW r \in Reqs, Asks(r, TicketOps), ServeTickets(r), NotTickets
    PROVE  RecordsKept
<1>1. DOMAIN tickets \subseteq Reqs /\ tickets \in [DOMAIN tickets -> TicketRows]
  BY DEF Sound, TypeOK, TicketsTypeOK
<1>2. Grow /\ req[r].pc \in Begun
  BY ServeTicketsOutcome DEF Outcome
<1>3. ASSUME NEW t \in DOMAIN tickets, tickets[t].resolved
      PROVE  tickets'[t].resolved
  <2>1. ASSUME NEW u, NEW status, NEW assignee, WriteTicket(r, u, status, assignee)
        PROVE  tickets'[t].resolved
    <3>1. Updated(tickets[t], status, assignee).resolved
      BY <1>1, <1>3 DEF Updated, TicketRows
    <3> QED BY <1>1, <1>3, <2>1, <3>1 DEF WriteTicket
  <2>2. CASE CreateTicket(r)
    <3>1. t # r
      BY <1>2, Unnamed DEF Names
    <3> QED BY <1>3, <2>2, <3>1 DEF CreateTicket, Insert
  <2>3. CASE UNCHANGED tickets
    BY <1>3, <2>3
  <2> QED BY <2>1, <2>2, <2>3
          DEF ServeTickets, UpdateTicket, AssertAssignable, AssignTicket, FindTickets
<1>4. UNCHANGED <<payments, advertisers>>
  BY DEF NotTickets, advertiserVars
<1> QED BY <1>2, <1>3, <1>4 DEF RecordsKept, Grow

LEMMA AdvertisersKept ==
    ASSUME Sound, NEW r \in Reqs, Asks(r, AdvertiserOps), ServeAdvertisers(r),
           NotAdvertisers
    PROVE  RecordsKept
<1>1. advertisers \in [DOMAIN advertisers -> AdvertiserRows]
  BY DEF Sound, TypeOK, AdvertisersTypeOK
<1>2. Grow /\ req[r].pc \in Begun
  BY ServeAdvertisersOutcome DEF Outcome
<1>3. ASSUME NEW a \in DOMAIN advertisers, advertisers[a].deleted
      PROVE  advertisers'[a].deleted
  <2>1. CASE \E manager \in Users \cup {Nobody} : CreateAdvertiser(r, manager)
    <3>1. a # r
      BY <1>2, Unnamed DEF Names
    <3> QED BY <1>3, <2>1, <3>1 DEF CreateAdvertiser, Insert, advertiserVars
  <2>2. CASE \E manager \in Users \cup {Nobody} : UpdateAdvertiser(r, manager)
    <3>1. PICK manager :
            advertisers' = [advertisers EXCEPT ![kept[r]].manager = manager]
      BY <2>2 DEF UpdateAdvertiser
    <3>2. advertisers[a] \in AdvertiserRows
      BY <1>1
    <3> QED BY <1>1, <1>3, <3>1, <3>2 DEF AdvertiserRows
  <2>3. CASE \E b \in AdvertiserIds : SoftDelete(r, b)
    <3>1. advertisers[a] \in AdvertiserRows
      BY <1>1
    <3> QED BY <1>1, <1>3, <2>3, <3>1 DEF SoftDelete, AdvertiserRows
  <2>4. CASE UNCHANGED advertisers
    BY <1>3, <2>4
  <2> QED BY <2>1, <2>2, <2>3, <2>4
          DEF ServeAdvertisers, FindAdvertiser, ListPage, FindCampaign, CheckOwner,
              ListCampaigns, advertiserVars
<1>4. UNCHANGED <<tickets, payments>>
  BY DEF NotAdvertisers
<1> QED BY <1>2, <1>3, <1>4 DEF RecordsKept, Grow

LEMMA PaymentsKept ==
    ASSUME Sound, PaymentsNamed, NEW r \in Reqs, Asks(r, PayoutOps),
           ServePayouts(r), NotPayouts
    PROVE  RecordsKept /\ DOMAIN payments' \subseteq DOMAIN payments \cup {r}
           /\ (DOMAIN payments' = DOMAIN payments \/ req'[r].pc = "reply")
<1>1. payments \in [DOMAIN payments -> PaymentRows] /\ AccountsTypeOK
  BY DEF Sound, TypeOK, PayoutsTypeOK
<1>2. UNCHANGED <<noticeVars, tickets, advertiserVars>>
  BY DEF NotPayouts
<1>3. /\ DOMAIN payments' \subseteq DOMAIN payments \cup {r}
      /\ DOMAIN payments' = DOMAIN payments \/ req'[r].pc = "reply"
      /\ \A p \in DOMAIN payments :
           /\ p \in DOMAIN payments'
           /\ payments'[p].affiliate = payments[p].affiliate
           /\ payments[p].paid => payments'[p].paid
  <2>1. ASSUME NEW a \in Affiliates, CreatePayment(r, a)
        PROVE  <1>3!:
    <3> DEFINE row == [affiliate |-> a, status |-> "PENDING", paid |-> FALSE]
    <3>1. r \notin DOMAIN payments
      BY <2>1 DEF CreatePayment, Called, At, PaymentsNamed, Settled, Done
    <3>2. payments' = Insert(payments, r, row)
      BY <2>1 DEF CreatePayment
    <3>3. Goes(r, "reply", kept[r])
      BY <1>1, <2>1, GoMoves DEF CreatePayment, Called, At, Reply, Stages
    <3> HIDE DEF row
    <3> QED BY <3>1, <3>2, <3>3 DEF Insert, Goes, Moves
  <2>2. ASSUME NEW p \in Reqs, NEW status \in PaymentStatuses,
               UpdateStatus(r, p, status)
        PROVE  <1>3!:
    <3>1. CASE p \in DOMAIN payments
      <4> DEFINE row == [payments[p] EXCEPT !.status = status,
                                            !.paid = @ \/ status = "PAID"]
      <4>1. payments' = [payments EXCEPT ![p] = row]
        BY <2>2, <3>1 DEF UpdateStatus
      <4>2. row.affiliate = payments[p].affiliate /\ (payments[p].paid => row.paid)
        BY <1>1, <3>1 DEF PaymentRows
      <4> HIDE DEF row
      <4> QED BY <4>1, <4>2
    <3>2. CASE p \notin DOMAIN payments
      BY <2>2, <3>2 DEF UpdateStatus
    <3> QED BY <3>1, <3>2
  <2>3. CASE UNCHANGED payments
    BY <2>3
  <2> QED BY <2>1, <2>2, <2>3 DEF ServePayouts, ResolveAffiliateId, FindPayments
<1> QED BY <1>2, <1>3 DEF RecordsKept, noticeVars, advertiserVars

LEMMA RecordsStep ==
    ASSUME Sound, PaymentsNamed, [Next]_vars
    PROVE  RecordsKept /\ PaymentsNamed'
<1>1. DOMAIN payments \subseteq Reqs
  BY DEF Sound, TypeOK, PayoutsTypeOK
<1>2. UNCHANGED payments => PaymentsNamed'
  BY <1>1, SettledStays DEF PaymentsNamed
<1>3. UNCHANGED <<noticeVars, tickets, payments, advertiserVars>> => RecordsKept
  BY DEF RecordsKept, noticeVars, advertiserVars
<1>4. ASSUME NEW r \in Reqs, Asks(r, NoticeOps), ServeNotices(r), NotNotices
      PROVE  RecordsKept
  <2>1. Grow /\ UNCHANGED <<tickets, payments, advertisers>>
    BY <1>4, ServeNoticesOutcome DEF Outcome, NotNotices, advertiserVars
  <2> QED BY <2>1 DEF RecordsKept, Grow
<1>5. ASSUME NEW r \in Reqs, Asks(r, PayoutOps), ServePayouts(r), NotPayouts
      PROVE  RecordsKept /\ PaymentsNamed'
  <2>1. RecordsKept /\ DOMAIN payments' \subseteq DOMAIN payments \cup {r}
        /\ (DOMAIN payments' = DOMAIN payments \/ req'[r].pc = "reply")
    BY <1>5, PaymentsKept
  <2> QED BY <1>1, <2>1, SettledStays DEF PaymentsNamed, Settled, Done
<1>6. ASSUME NEW r \in Reqs, Serve(r)
      PROVE  RecordsKept /\ PaymentsNamed'
  BY <1>2, <1>3, <1>4, <1>5, <1>6, TicketsKept, AdvertisersKept
  DEF Serve, NotAccounts, NotNotices, NotTickets, NotAdvertisers, NotRegistry
<1> QED BY <1>2, <1>3, <1>6 DEF Next, NotAccounts, vars

\* No sequence of calls, and no two at once, removes a row of these tables,
\* gives it to another owner, or takes back that a ticket was resolved, a
\* payment paid or an advertiser deleted (SupportTicketsService.update,
\* updatePaymentStatus, AdvertisersService.softDelete).
THEOREM RecordsAreKept ==
    Spec => [][RecordsKept]_<<noticeVars, tickets, payments, advertiserVars>>
<1>1. Init => PaymentsNamed
  BY DEF Init, PayoutsInit, PaymentsNamed, Empty
<1>2. Sound /\ PaymentsNamed /\ [Next]_vars => PaymentsNamed' /\ RecordsKept
  BY RecordsStep
<1> QED BY <1>1, <1>2, SoundAlways, PTL DEF Spec
===============================================================================
