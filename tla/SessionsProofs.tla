---------------------------- MODULE SessionsProofs ----------------------------
(***************************************************************************)
(* Proofs about Sessions, for every value of its constants.                *)
(***************************************************************************)
EXTENDS Sessions, TLAPS

Credentialed == [pc : {"createUser", "logSuccess", "denied"}, user : Emails]
Carrying == [pc : {"revoke", "issue", "checkUser", "reply", "ok"},
             user : Emails, family : Reqs, from : Reqs]
Revoking == [pc : {"revokeFamily", "revoked"}, family : Reqs,
             why : {"reuse", "logout"}]

\* What a request holds follows from where it is.
LEMMA Shapes ==
    ASSUME TypeOK, NEW r \in Reqs
    PROVE  /\ req[r].pc \in {"createUser", "logSuccess", "denied"}
                => req[r] \in Credentialed
           /\ req[r].pc \in {"revoke", "issue", "checkUser", "reply", "ok"}
                => req[r] \in Carrying
           /\ req[r].pc \in {"revokeFamily", "revoked"} => req[r] \in Revoking
  BY DEF TypeOK, ReqStates, Credentialed, Carrying, Revoking

\* A request moves to a state that the type has.
LEMMA BecomeType ==
    ASSUME TypeOK, NEW r \in Reqs, NEW s \in ReqStates, Become(r, s)
    PROVE  req' \in [Reqs -> ReqStates]
  BY DEF TypeOK, Become

\* So does a request whose pc alone changes, to one of its shape.
LEMMA StepType ==
    ASSUME TypeOK, NEW r \in Reqs, NEW pc, Step(r, pc),
           \/ req[r] \in Credentialed /\ pc = "denied"
           \/ /\ req[r] \in Carrying
              /\ pc \in {"issue", "checkUser", "reply", "ok"}
           \/ req[r] \in Revoking /\ pc = "revoked"
    PROVE  req' \in [Reqs -> ReqStates]
<1>1. [req[r] EXCEPT !.pc = pc] \in Credentialed \cup Carrying \cup Revoking
  BY DEF Credentialed, Carrying, Revoking
<1>2. Credentialed \cup Carrying \cup Revoking \subseteq ReqStates
  BY DEF Credentialed, Carrying, Revoking, ReqStates
<1>3. req' = [req EXCEPT ![r] = [req[r] EXCEPT !.pc = pc]]
  BY DEF TypeOK, Step
<1> QED BY <1>1, <1>2, <1>3 DEF TypeOK

\* The steps of a request being served keep the types.
LEMMA TypeOfServe ==
    ASSUME TypeOK, NEW r \in Reqs, Serve(r)
    PROVE  TypeOK'
<1> USE Shapes
<1>1. CASE CreateUser(r)
  <2>1. req[r] \in Credentialed
    BY <1>1 DEF CreateUser
  <2>2. req' \in [Reqs -> ReqStates]
    BY <1>1, <2>1, BecomeType
    DEF CreateUser, NewSession, Credentialed, ReqStates
  <2> DEFINE row == [active |-> TRUE, by |-> r]
  <2> DEFINE u == req[r].user
  <2>3. row \in UserRows /\ u \in Emails
    BY <2>1 DEF UserRows, Credentialed
  <2>4. DOMAIN users' \subseteq Emails /\ users' \in [DOMAIN users' -> UserRows]
    <3>1. users' = users \/ users' = Insert(users, u, row)
      BY <1>1 DEF CreateUser
    <3> HIDE DEF row, u
    <3>2. DOMAIN users \subseteq Emails /\ users \in [DOMAIN users -> UserRows]
      BY DEF TypeOK
    <3>3. /\ DOMAIN Insert(users, u, row) \subseteq Emails
          /\ Insert(users, u, row) \in [DOMAIN Insert(users, u, row) -> UserRows]
      BY <2>3, <3>2, InsertType
    <3>4. CASE users' = users
      BY <3>2, <3>4
    <3>5. CASE users' = Insert(users, u, row)
      BY <3>3, <3>5
    <3> QED BY <3>1, <3>4, <3>5
  <2> QED BY <1>1, <2>2, <2>4 DEF CreateUser, TypeOK
<1>2. CASE LogSuccess(r)
  <2>1. req[r] \in Credentialed
    BY <1>2 DEF LogSuccess
  <2>2. req' \in [Reqs -> ReqStates]
    <3>1. NewSession(r, req[r].user) \in ReqStates
      BY <2>1 DEF NewSession, Credentialed, ReqStates
    <3> QED BY <1>2, <2>1, <3>1, BecomeType, StepType DEF LogSuccess
  <2>3. loginLog' \subseteq LoginRows
    <3>1. [req |-> r, user |-> req[r].user, success |-> TRUE] \in LoginRows
      BY <2>1 DEF Credentialed, LoginRows
    <3> QED BY <1>2, <3>1 DEF LogSuccess, TypeOK
  <2> QED BY <1>2, <2>2, <2>3 DEF LogSuccess, TypeOK
<1>3. CASE LogFailure(r)
  <2>1. req[r] \in Credentialed
    BY <1>3 DEF LogFailure
  <2>2. req' \in [Reqs -> ReqStates]
    BY <1>3, BecomeType DEF LogFailure, Refuse, ReqStates
  <2>3. loginLog' \subseteq LoginRows
    <3>1. [req |-> r, user |-> req[r].user, success |-> FALSE] \in LoginRows
      BY <2>1 DEF Credentialed, LoginRows
    <3> QED BY <1>3, <3>1 DEF LogFailure, TypeOK
  <2> QED BY <1>3, <2>2, <2>3 DEF LogFailure, TypeOK
<1>4. CASE Issue(r)
  <2>1. req[r] \in Carrying
    BY <1>4 DEF Issue
  <2>2. req' \in [Reqs -> ReqStates]
    BY <1>4, <2>1, StepType DEF Issue
  <2> DEFINE row == [user |-> req[r].user, family |-> req[r].family,
                     revokedAt |-> Never, expiresAt |-> now + TTL]
  <2>3. row \in TokenRows
    BY <2>1, SessionAssumption DEF Carrying, TokenRows, TypeOK
  <2>4. /\ DOMAIN tokens' \subseteq Reqs
        /\ tokens' \in [DOMAIN tokens' -> TokenRows]
    <3>1. tokens' = Insert(tokens, r, row)
      BY <1>4 DEF Issue
    <3> HIDE DEF row
    <3> QED BY <2>3, <3>1, InsertType DEF TypeOK
  <2> QED BY <1>4, <2>2, <2>4 DEF Issue, TypeOK
<1>5. CASE RevokeOld(r)
  <2>1. req[r] \in Carrying
    BY <1>5 DEF RevokeOld
  <2>2. req' \in [Reqs -> ReqStates]
    BY <1>5, <2>1, StepType, BecomeType DEF RevokeOld, ReqStates
  <2>3. /\ DOMAIN tokens' \subseteq Reqs
        /\ tokens' \in [DOMAIN tokens' -> TokenRows]
    <3> DEFINE row == [tokens[req[r].from] EXCEPT !.revokedAt = now]
    <3>1. req[r].from \in DOMAIN tokens => row \in TokenRows
      BY DEF TokenRows, TypeOK
    <3>2. \/ UNCHANGED tokens
          \/ /\ req[r].from \in DOMAIN tokens
             /\ tokens' = [tokens EXCEPT ![req[r].from] = row]
      BY <1>5 DEF RevokeOld
    <3> HIDE DEF row
    <3> QED BY <3>1, <3>2 DEF TypeOK
  <2> QED BY <1>5, <2>2, <2>3 DEF RevokeOld, TypeOK
<1>6. CASE CheckUser(r)
  <2>1. req' \in [Reqs -> ReqStates]
    BY <1>6, StepType, BecomeType DEF CheckUser, Refuse, ReqStates
  <2> QED BY <1>6, <2>1 DEF CheckUser, TypeOK
<1>7. CASE SendReply(r)
  <2>1. req' \in [Reqs -> ReqStates]
    BY <1>7, StepType DEF SendReply
  <2> QED BY <1>7, <2>1 DEF SendReply, TypeOK
<1>8. CASE RevokeFamily(r)
  <2>1. req' \in [Reqs -> ReqStates]
    BY <1>8, StepType DEF RevokeFamily
  <2>2. /\ DOMAIN tokens' \subseteq Reqs
        /\ tokens' \in [DOMAIN tokens' -> TokenRows]
    BY <1>8 DEF RevokeFamily, TokenRows, TypeOK
  <2> QED BY <1>8, <2>1, <2>2 DEF RevokeFamily, TypeOK
<1> QED BY <1>1, <1>2, <1>3, <1>4, <1>5, <1>6, <1>7, <1>8 DEF Serve

\* Every variable keeps its type, what a request carries in each of its states
\* included (AuthService, RefreshTokenService).
THEOREM SessionsTyped == Spec => []TypeOK
<1>1. Init => TypeOK
  BY SessionAssumption DEF Init, TypeOK, UserRows, ReqStates, Empty
<1>2. TypeOK /\ [Next]_vars => TypeOK'
  <2> SUFFICES ASSUME TypeOK, [Next]_vars PROVE TypeOK'
    OBVIOUS
  <2>1. ASSUME NEW r \in Reqs, NEW u \in Emails,
               \/ CheckEmail(r, u)
               \/ \E passwordOk \in BOOLEAN : CheckCredentials(r, u, passwordOk)
        PROVE  TypeOK'
    <3>1. \E s \in ReqStates : Become(r, s)
      BY <2>1 DEF CheckEmail, CheckCredentials, Refuse, WithUser, ReqStates
    <3> QED BY <2>1, <3>1, BecomeType DEF CheckEmail, CheckCredentials, TypeOK
  <2>2. ASSUME NEW r \in Reqs, NEW t \in Delivered,
               FindToken(r, t) \/ Logout(r, t)
        PROVE  TypeOK'
    <3>1. t \in Reqs /\ (t \in DOMAIN tokens => tokens[t] \in TokenRows)
      BY DEF Delivered, TypeOK
    <3>2. \E s \in ReqStates : Become(r, s)
      BY <2>2, <3>1 DEF FindToken, Logout, Refuse, Rotation, IsLive, TokenRows, ReqStates
    <3> QED BY <2>2, <3>2, BecomeType DEF FindToken, Logout, TypeOK
  <2>3. ASSUME NEW r \in Reqs, Serve(r)
        PROVE  TypeOK'
    BY <2>3, TypeOfServe
  <2>4. ASSUME NEW r \in Reqs, CallFails(r)
        PROVE  TypeOK'
    <3>1. req' \in [Reqs -> ReqStates]
      BY <2>4, Shapes, StepType, BecomeType DEF CallFails, ReqStates
    <3> QED BY <2>4, <3>1 DEF CallFails, TypeOK
  <2>5. ASSUME NEW u \in Emails, NEW active \in BOOLEAN, SetActive(u, active)
        PROVE  TypeOK'
    BY <2>5 DEF SetActive, UserRows, TypeOK
  <2>6. CASE Cleanup
    BY <2>6 DEF Cleanup, TypeOK
  <2>7. CASE Tick
    BY <2>7 DEF Tick, TypeOK
  <2>8. CASE Crash
    <3>1. req' \in [Reqs -> ReqStates]
      BY <2>8 DEF Crash, ReqStates, TypeOK
    <3> QED BY <2>8, <3>1 DEF Crash, TypeOK
  <2>9. CASE UNCHANGED vars
    BY <2>9 DEF vars, TypeOK
  <2>10. ASSUME NEW u \in Emails, CreateAdvertiser(u)
         PROVE  TypeOK'
    <3> DEFINE row == [active |-> TRUE, by |-> Operator]
    <3>1. row \in UserRows /\ users' = Insert(users, u, row)
      BY <2>10 DEF CreateAdvertiser, UserRows
    <3> HIDE DEF row
    <3>2. DOMAIN users' \subseteq Emails /\ users' \in [DOMAIN users' -> UserRows]
      BY <3>1, InsertType DEF TypeOK
    <3> QED BY <2>10, <3>2 DEF CreateAdvertiser, TypeOK
  <2> QED BY <2>1, <2>2, <2>3, <2>4, <2>5, <2>6, <2>7, <2>8, <2>9, <2>10 DEF Next
<1> QED BY <1>1, <1>2, PTL DEF Spec

-----------------------------------------------------------------------------
Startable == {"new", "createUser", "logSuccess"}
Holding == {"revoke", "issue", "checkUser", "reply", "ok"}
Issued == {"checkUser", "reply", "ok", "refused", "failed"}

\* A step of one request leaves the others where they are, and what the
\* request carries as it is.
LEMMA Moved ==
    ASSUME TypeOK, NEW r \in Reqs, NEW pc, Step(r, pc)
    PROVE  /\ req'[r].pc = pc
           /\ \A x \in Reqs : x # r => req'[x] = req[x]
           /\ req[r] \in Carrying =>
                /\ req'[r].user = req[r].user
                /\ req'[r].family = req[r].family
                /\ req'[r].from = req[r].from
<1>1. req' = [req EXCEPT ![r] = [req[r] EXCEPT !.pc = pc]]
  BY DEF TypeOK, Step
<1>2. req'[r] = [req[r] EXCEPT !.pc = pc]
  BY <1>1 DEF TypeOK
<1>3. req[r] \in ReqStates
  BY DEF TypeOK
<1>4. [req[r] EXCEPT !.pc = pc].pc = pc
  BY <1>3 DEF ReqStates
<1>5. req[r] \in Carrying =>
        /\ [req[r] EXCEPT !.pc = pc].user = req[r].user
        /\ [req[r] EXCEPT !.pc = pc].family = req[r].family
        /\ [req[r] EXCEPT !.pc = pc].from = req[r].from
  BY DEF Carrying
<1> QED BY <1>1, <1>2, <1>4, <1>5 DEF TypeOK

\* The same for a step that replaces what the request carries.
LEMMA Became ==
    ASSUME TypeOK, NEW r \in Reqs, NEW s, Become(r, s)
    PROVE  /\ req'[r] = s
           /\ \A x \in Reqs : x # r => req'[x] = req[x]
  BY DEF TypeOK, Become

\* What the invariants below rely on is never undone.
Persists ==
    /\ now' >= now /\ now' \in Nat
    /\ \A u \in DOMAIN users : u \in DOMAIN users' /\ users'[u].by = users[u].by
    /\ loginLog \subseteq loginLog'
    /\ \A r \in Reqs :
         /\ req[r].pc \notin Startable => req'[r].pc \notin Startable
         /\ req[r].pc \in Issued => req'[r].pc \in Issued
         /\ req[r].pc = "ok" => req'[r] = req[r]

\* By cases on the step.
LEMMA Monotone ==
    ASSUME TypeOK, [Next]_vars
    PROVE  Persists
<1> USE DEF TypeOK
<1>1. ASSUME NEW r \in Reqs, NEW u \in Emails,
             \/ CheckEmail(r, u)
             \/ \E passwordOk \in BOOLEAN : CheckCredentials(r, u, passwordOk)
      PROVE  Persists
  BY <1>1 DEF CheckEmail, CheckCredentials, Become, Refuse, WithUser,
              Persists, Startable, Issued
<1>2. ASSUME NEW r \in Reqs, NEW t \in Delivered,
             FindToken(r, t) \/ Logout(r, t)
      PROVE  Persists
  BY <1>2 DEF FindToken, Logout, Become, Refuse, Rotation, Persists, Startable, Issued
<1>3. ASSUME NEW r \in Reqs, CreateUser(r)
      PROVE  Persists
  BY <1>3 DEF CreateUser, Become, NewSession, Insert, Persists, Startable, Issued
<1>4. ASSUME NEW r \in Reqs, LogSuccess(r) \/ LogFailure(r)
      PROVE  Persists
  BY <1>4, Moved DEF LogSuccess, LogFailure, Become, Refuse, NewSession,
                     Persists, Startable, Issued
<1>5. ASSUME NEW r \in Reqs, Issue(r) \/ RevokeOld(r)
      PROVE  Persists
  BY <1>5, Moved, Became DEF Issue, RevokeOld, Persists, Startable, Issued
<1>6. ASSUME NEW r \in Reqs, CheckUser(r) \/ SendReply(r)
      PROVE  Persists
  BY <1>6, Moved, Became DEF CheckUser, SendReply, Refuse, Persists, Startable, Issued
<1>7. ASSUME NEW r \in Reqs, RevokeFamily(r) \/ CallFails(r)
      PROVE  Persists
  BY <1>7, Moved, Became DEF RevokeFamily, CallFails, Persists, Startable, Issued
<1>8. ASSUME NEW u \in Emails,
             CreateAdvertiser(u) \/ \E active \in BOOLEAN : SetActive(u, active)
      PROVE  Persists
  BY <1>8 DEF CreateAdvertiser, SetActive, Insert, UserRows, Persists, Startable, Issued
<1>9. CASE Cleanup \/ Tick \/ Crash \/ UNCHANGED vars
  BY <1>9 DEF Cleanup, Tick, Crash, vars, Persists, Startable, Issued
<1> QED
  BY <1>1, <1>2, <1>3, <1>4, <1>5, <1>6, <1>7, <1>8, <1>9 DEF Next, Serve

-----------------------------------------------------------------------------
\* Session f of user u is of that user's registration or of a logged sign-in.
Traced(u, f) ==
    /\ u \in DOMAIN users
    /\ users[u].by = f \/ [req |-> f, user |-> u, success |-> TRUE] \in loginLog

\* The same after a step; u and f may be of the state after it.
TracedAfter(u, f) ==
    /\ u \in DOMAIN users'
    /\ users'[u].by = f \/ [req |-> f, user |-> u, success |-> TRUE] \in loginLog'

\* A stored token was issued by the request it is named after, in a session
\* whose first request has passed its checks.
TokenLineage ==
    \A t \in DOMAIN tokens :
        /\ req[t].pc \in Issued
        /\ req[tokens[t].family].pc \notin Startable
        /\ Traced(tokens[t].user, tokens[t].family)

\* So is the token a request is about to issue.
IssuerLineage ==
    \A r \in Issuers :
        /\ req[req[r].family].pc \notin Startable
        /\ Traced(req[r].user, req[r].family)

\* A rotation works on a token that was delivered; only a user who is there
\* is past the password.
RequestLineage ==
    \A r \in Reqs :
        /\ req[r].pc \in Holding =>
              req[r].from = r \/ req[req[r].from].pc = "ok"
        /\ req[r].pc = "logSuccess" => req[r].user \in DOMAIN users

Lineage == TokenLineage /\ IssuerLineage /\ RequestLineage

\* A token that appears is the one its request was about to issue; a stored
\* one only dies.
NewTokens ==
    \A t \in DOMAIN tokens' \ DOMAIN tokens :
        /\ req[t].pc = "issue"
        /\ req'[t].pc \in Issued
        /\ tokens'[t].user = req[t].user
        /\ tokens'[t].family = req[t].family

\* By cases on the step; only four of them write the table.
LEMMA TokensCome ==
    ASSUME TypeOK, TokenLineage, [Next]_vars
    PROVE  TokenStep /\ NewTokens
<1> DEFINE Goal == TokenStep /\ NewTokens
<1>1. Never \notin Nat /\ now \in Nat
  BY SessionAssumption DEF TypeOK
<1>2. CASE UNCHANGED tokens
  BY <1>2 DEF TokenStep, NewTokens, Revoked
<1>3. ASSUME NEW r \in Reqs, Issue(r)
      PROVE  Goal
  <2>1. r \notin DOMAIN tokens
    BY <1>3 DEF TokenLineage, Issue, Issued
  <2>2. req'[r].pc \in Issued
    BY <1>3, Moved DEF Issue, Issued
  <2> QED BY <1>3, <2>1, <2>2 DEF Issue, Insert, TokenStep, NewTokens, Revoked, TypeOK
<1>4. ASSUME NEW r \in Reqs, RevokeOld(r)
      PROVE  Goal
  BY <1>1, <1>4 DEF RevokeOld, TokenStep, NewTokens, Revoked, TypeOK, TokenRows
<1>5. ASSUME NEW r \in Reqs, RevokeFamily(r)
      PROVE  Goal
  BY <1>1, <1>5 DEF RevokeFamily, TokenStep, NewTokens, Revoked, TypeOK, TokenRows
<1>6. CASE Cleanup
  BY <1>1, <1>6, SessionAssumption
  DEF Cleanup, TokenStep, NewTokens, IsLive, Stale, Revoked
<1> QED
  <2>1. \/ UNCHANGED tokens
        \/ \E r \in Reqs : Issue(r) \/ RevokeOld(r) \/ RevokeFamily(r)
        \/ Cleanup
    BY DEF Next, Serve, vars, CheckEmail, CheckCredentials, FindToken, Logout,
           CreateUser, LogSuccess, LogFailure, CheckUser, SendReply, CallFails,
           CreateAdvertiser, SetActive, Tick, Crash
  <2> QED BY <1>2, <1>3, <1>4, <1>5, <1>6, <2>1

\* The ways in which a request comes to hold, or to be about to get, a token.
Advances(r) ==
    /\ req[r].pc \in Holding \ {"ok"}
    /\ req'[r].user = req[r].user
    /\ req'[r].family = req[r].family
    /\ req'[r].from = req[r].from
    /\ req'[r].pc # "revoke"
    /\ req'[r].pc = "issue" => req[r].pc = "revoke"
    /\ req[r].pc = "revoke" =>
         req[r].from \in DOMAIN tokens' /\ tokens'[req[r].from].revokedAt # Never

Rotates(r) ==
    /\ req[r].pc = "new"
    /\ \E t \in Delivered : IsLive(t) /\ req'[r] = Rotation(r, t)

Starts(r) ==
    /\ req[r].pc \in {"createUser", "logSuccess"}
    /\ req'[r] = NewSession(r, req[r].user)
    /\ \/ users'[req[r].user].by = r /\ req[r].user \in DOMAIN users'
       \/ /\ req[r].user \in DOMAIN users
          /\ [req |-> r, user |-> req[r].user, success |-> TRUE] \in loginLog'

\* There is no other way.
LEMMA RequestsCome ==
    ASSUME TypeOK, RequestLineage, [Next]_vars, NEW x \in Reqs,
           req'[x] # req[x], req'[x].pc \in Holding
    PROVE  Advances(x) \/ Rotates(x) \/ Starts(x)
<1> DEFINE Goal == Advances(x) \/ Rotates(x) \/ Starts(x)
<1>1. ASSUME NEW r \in Reqs, NEW u \in Emails,
             \/ CheckEmail(r, u)
             \/ \E passwordOk \in BOOLEAN : CheckCredentials(r, u, passwordOk)
      PROVE  Goal
  BY <1>1, Became DEF CheckEmail, CheckCredentials, Refuse, WithUser, Holding
<1>2. ASSUME NEW r \in Reqs, NEW t \in Delivered,
             FindToken(r, t) \/ Logout(r, t)
      PROVE  Goal
  BY <1>2, Became DEF FindToken, Logout, Refuse, Rotates, Holding
<1>3. ASSUME NEW r \in Reqs, CreateUser(r)
      PROVE  Goal
  <2>1. r = x /\ req[r].user \notin DOMAIN users
    BY <1>3, Became DEF CreateUser, Holding
  <2>2. users' = Insert(users, req[r].user, [active |-> TRUE, by |-> r])
    BY <1>3, <2>1 DEF CreateUser
  <2>3. req[r].user \in DOMAIN users' /\ users'[req[r].user].by = r
    BY <2>2 DEF Insert
  <2>4. req'[r] = NewSession(r, req[r].user)
    BY <1>3, <2>1, Became DEF CreateUser
  <2> QED BY <1>3, <2>1, <2>3, <2>4 DEF CreateUser, Starts
<1>4. ASSUME NEW r \in Reqs, LogSuccess(r)
      PROVE  Goal
  <2>1. r = x /\ req'[r] = NewSession(r, req[r].user)
    BY <1>4, Became, Moved DEF LogSuccess, Holding
  <2>2. [req |-> r, user |-> req[r].user, success |-> TRUE] \in loginLog'
    BY <1>4 DEF LogSuccess
  <2>3. req[r].user \in DOMAIN users
    BY <1>4 DEF LogSuccess, RequestLineage
  <2> QED BY <1>4, <2>1, <2>2, <2>3 DEF LogSuccess, Starts
<1>5. ASSUME NEW r \in Reqs, LogFailure(r) \/ RevokeFamily(r)
      PROVE  Goal
  BY <1>5, Became, Moved DEF LogFailure, RevokeFamily, Refuse, Holding
<1>6. ASSUME NEW r \in Reqs, Issue(r) \/ CheckUser(r) \/ SendReply(r)
      PROVE  Goal
  BY <1>6, Became, Moved, Shapes
  DEF Issue, CheckUser, SendReply, Refuse, Advances, Holding
<1>7. ASSUME NEW r \in Reqs, RevokeOld(r)
      PROVE  Goal
  <2>1. r = x /\ req[r].from \in DOMAIN tokens
    BY <1>7, Became, Moved DEF RevokeOld, Holding
  <2>2. /\ req[r].from \in DOMAIN tokens'
        /\ tokens'[req[r].from].revokedAt # Never
    BY <1>7, <2>1, SessionAssumption DEF RevokeOld, TypeOK, TokenRows
  <2> QED BY <1>7, <2>1, <2>2, Moved, Shapes DEF RevokeOld, Advances, Holding
<1>8. ASSUME NEW r \in Reqs, CallFails(r)
      PROVE  Goal
  BY <1>8, Became, Moved DEF CallFails, Holding
<1>9. CASE \/ \E u \in Emails : \/ CreateAdvertiser(u)
                              \/ \E active \in BOOLEAN : SetActive(u, active)
           \/ Cleanup \/ Tick \/ Crash \/ UNCHANGED vars
  BY <1>9 DEF CreateAdvertiser, SetActive, Cleanup, Tick, Crash, vars, Holding, TypeOK
<1> QED
  BY <1>1, <1>2, <1>3, <1>4, <1>5, <1>6, <1>7, <1>8, <1>9 DEF Next, Serve

\* Only the account of a user who is there gets past the password.
LEMMA LoggingIn ==
    ASSUME TypeOK, [Next]_vars, NEW x \in Reqs,
           req'[x] # req[x], req'[x].pc = "logSuccess"
    PROVE  req'[x].user \in DOMAIN users
<1> DEFINE Goal == req'[x].user \in DOMAIN users
<1>1. ASSUME NEW r \in Reqs, NEW u \in Emails,
             \/ CheckEmail(r, u)
             \/ \E passwordOk \in BOOLEAN : CheckCredentials(r, u, passwordOk)
      PROVE  Goal
  BY <1>1, Became DEF CheckEmail, CheckCredentials, Refuse, WithUser
<1>2. ASSUME NEW r \in Reqs, NEW t \in Delivered,
             FindToken(r, t) \/ Logout(r, t)
      PROVE  Goal
  BY <1>2, Became DEF FindToken, Logout, Refuse, Rotation
<1>3. ASSUME NEW r \in Reqs, Serve(r)
      PROVE  Goal
  BY <1>3, Became, Moved
  DEF Serve, CreateUser, LogSuccess, LogFailure, Issue, RevokeOld, CheckUser,
      SendReply, RevokeFamily, Refuse, NewSession
<1>4. ASSUME NEW r \in Reqs, CallFails(r)
      PROVE  Goal
  BY <1>4, Became, Moved DEF CallFails
<1>5. CASE \/ \E u \in Emails : \/ CreateAdvertiser(u)
                              \/ \E active \in BOOLEAN : SetActive(u, active)
           \/ Cleanup \/ Tick \/ Crash \/ UNCHANGED vars
  BY <1>5 DEF CreateAdvertiser, SetActive, Cleanup, Tick, Crash, vars, TypeOK
<1> QED BY <1>1, <1>2, <1>3, <1>4, <1>5 DEF Next

\* Neither users nor log rows are ever removed.
LEMMA TracedPersists ==
    ASSUME Persists, NEW u, NEW f, Traced(u, f)
    PROVE  TracedAfter(u, f)
  BY DEF Persists, Traced, TracedAfter

\* Lineage is inductive.
LEMMA LineageStep ==
    ASSUME TypeOK, TypeOK', Lineage, [Next]_vars
    PROVE  Lineage'
<1>1. Persists /\ TokenStep /\ NewTokens
  BY Monotone, TokensCome DEF Lineage
<1>2. TokenLineage'
  <2> SUFFICES ASSUME NEW t \in DOMAIN tokens'
               PROVE  /\ req'[t].pc \in Issued
                      /\ req'[tokens'[t].family].pc \notin Startable
                      /\ TracedAfter(tokens'[t].user, tokens'[t].family)
    BY DEF TokenLineage, Traced, TracedAfter
  <2>1. CASE t \in DOMAIN tokens
    <3>1. tokens'[t].user = tokens[t].user /\ tokens'[t].family = tokens[t].family
      BY <1>1, <2>1 DEF TokenStep
    <3>2. t \in Reqs /\ tokens[t].family \in Reqs
      BY <2>1 DEF TypeOK, TokenRows
    <3>3. /\ req[t].pc \in Issued
          /\ req[tokens[t].family].pc \notin Startable
          /\ Traced(tokens[t].user, tokens[t].family)
      BY <2>1 DEF Lineage, TokenLineage
    <3> QED BY <1>1, <3>1, <3>2, <3>3, TracedPersists DEF Persists
  <2>2. CASE t \notin DOMAIN tokens
    <3>1. /\ req[t].pc = "issue" /\ req'[t].pc \in Issued
          /\ tokens'[t].user = req[t].user
          /\ tokens'[t].family = req[t].family
      BY <1>1, <2>2 DEF NewTokens
    <3>2. t \in Reqs
      BY DEF TypeOK
    <3>3. t \in Issuers /\ req[t].family \in Reqs
      BY <3>1, <3>2, Shapes DEF Issuers, Carrying
    <3>4. /\ req[req[t].family].pc \notin Startable
          /\ Traced(req[t].user, req[t].family)
      BY <3>3 DEF Lineage, IssuerLineage
    <3> QED BY <1>1, <3>1, <3>3, <3>4, TracedPersists DEF Persists
  <2> QED BY <2>1, <2>2
<1>3. IssuerLineage'
  <2> SUFFICES ASSUME NEW r \in Issuers'
               PROVE  /\ req'[req'[r].family].pc \notin Startable
                      /\ TracedAfter(req'[r].user, req'[r].family)
    BY DEF IssuerLineage, Traced, TracedAfter
  <2> r \in Reqs /\ req'[r].pc \in {"revoke", "issue"}
    BY DEF Issuers
  <2>1. ASSUME r \in Issuers,
               req'[r].user = req[r].user, req'[r].family = req[r].family
        PROVE  /\ req'[req'[r].family].pc \notin Startable
               /\ TracedAfter(req'[r].user, req'[r].family)
    <3>1. req[r].family \in Reqs
      BY <2>1, Shapes DEF Issuers, Carrying
    <3>2. /\ req[req[r].family].pc \notin Startable
          /\ Traced(req[r].user, req[r].family)
      BY <2>1 DEF Lineage, IssuerLineage
    <3> QED BY <1>1, <2>1, <3>1, <3>2, TracedPersists DEF Persists
  <2>2. CASE req'[r] = req[r] \/ Advances(r)
    BY <2>1, <2>2 DEF Issuers, Advances
  <2>3. CASE Rotates(r)
    <3>1. PICK t \in Delivered : IsLive(t) /\ req'[r] = Rotation(r, t)
      BY <2>3 DEF Rotates
    <3>2. tokens[t].family \in Reqs
      BY <3>1 DEF IsLive, TypeOK, TokenRows
    <3>3. /\ req[tokens[t].family].pc \notin Startable
          /\ Traced(tokens[t].user, tokens[t].family)
      BY <3>1 DEF IsLive, Lineage, TokenLineage
    <3>4. req'[r].user = tokens[t].user /\ req'[r].family = tokens[t].family
      BY <3>1 DEF Rotation
    <3> QED BY <1>1, <3>2, <3>3, <3>4, TracedPersists DEF Persists
  <2>4. CASE Starts(r)
    BY <1>1, <2>4 DEF Starts, NewSession, Startable, TracedAfter, Persists
  <2> QED BY <2>2, <2>3, <2>4, RequestsCome DEF Lineage, Holding
<1>4. RequestLineage'
  <2>1. ASSUME NEW r \in Reqs, req'[r].pc \in Holding
        PROVE  req'[r].from = r \/ req'[req'[r].from].pc = "ok"
    <3>1. CASE /\ req[r].pc \in Holding
               /\ req'[r].from = req[r].from
      <4>1. req[r].from \in Reqs
        BY <3>1, Shapes DEF Holding, Carrying
      <4> QED BY <1>1, <3>1, <4>1 DEF Lineage, RequestLineage, Persists
    <3>2. CASE req'[r] = req[r] \/ Advances(r)
      BY <2>1, <3>1, <3>2 DEF Advances
    <3>3. CASE Rotates(r)
      BY <1>1, <3>3 DEF Rotates, Rotation, Delivered, Persists
    <3>4. CASE Starts(r)
      BY <3>4 DEF Starts, NewSession
    <3> QED BY <2>1, <3>2, <3>3, <3>4, RequestsCome DEF Lineage
  <2>2. ASSUME NEW r \in Reqs, req'[r].pc = "logSuccess"
        PROVE  req'[r].user \in DOMAIN users'
    BY <1>1, <2>2, LoggingIn DEF Lineage, RequestLineage, Persists
  <2> QED BY <2>1, <2>2 DEF RequestLineage
<1> QED BY <1>2, <1>3, <1>4 DEF Lineage

\* The inductive invariant of this module: where every token, and every token
\* about to be issued, comes from (AuthService, RefreshTokenService.rotate).
THEOREM SessionsLineage == Spec => []Lineage
<1>1. Init => Lineage
  BY DEF Init, Empty, Lineage, TokenLineage, IssuerLineage, RequestLineage, Issuers, Holding
<1>2. TypeOK /\ TypeOK' /\ Lineage /\ [Next]_vars => Lineage'
  BY LineageStep
<1> QED BY <1>1, <1>2, SessionsTyped, PTL DEF Spec

-----------------------------------------------------------------------------
\* A stored token keeps its owner, family and expiry, stays revoked once it
\* is, and is deleted only when it cannot be exchanged any more (rotate,
\* revokeFamily, cleanupExpiredTokens).
THEOREM SessionTokensOnlyDie == Spec => TokensOnlyDie
<1>1. TypeOK /\ Lineage /\ [Next]_vars => [TokenStep]_vars
  BY TokensCome DEF Lineage
<1> QED BY <1>1, SessionsTyped, SessionsLineage, PTL DEF Spec, TokensOnlyDie

\* Every stored token goes back to its owner's registration or to a sign-in
\* the login log shows (AuthService.signUp, signIn, refreshSession).
THEOREM SessionTokensTraced == Spec => []TokensTraceToALogin
<1>1. Lineage => TokensTraceToALogin
  BY DEF Lineage, TokenLineage, Traced, TokensTraceToALogin
<1> QED BY <1>1, SessionsLineage, PTL

\* Together with the lineage of requests, so is SpentBeforeExchanged.
LEMMA SpentStep ==
    ASSUME TypeOK, TypeOK', Lineage, SpentBeforeExchanged, [Next]_vars
    PROVE  SpentBeforeExchanged'
<1>1. Persists /\ TokenStep /\ NewTokens
  BY Monotone, TokensCome DEF Lineage
<1> DEFINE Past == {"issue", "checkUser", "reply", "ok"}
<1> SUFFICES ASSUME NEW r \in Reqs, req'[r].pc \in Past
             PROVE  \/ req'[r].from = r
                    \/ req'[r].from \notin DOMAIN tokens'
                    \/ tokens'[req'[r].from].revokedAt # Never
  BY DEF SpentBeforeExchanged, Revoked
<1>2. ASSUME req[r].pc \in Past, req'[r].from = req[r].from, req[r].from # r
      PROVE  \/ req[r].from \notin DOMAIN tokens'
             \/ tokens'[req[r].from].revokedAt # Never
  <2>1. req[req[r].from].pc = "ok"
    BY <1>2 DEF Lineage, RequestLineage, Holding
  <2>2. CASE req[r].from \in DOMAIN tokens
    BY <1>1, <1>2, <2>2 DEF SpentBeforeExchanged, TokenStep, Revoked
  <2>3. CASE req[r].from \notin DOMAIN tokens
    BY <1>1, <2>1, <2>3 DEF NewTokens
  <2> QED BY <2>2, <2>3
<1>3. CASE req'[r] = req[r]
  BY <1>2, <1>3
<1>4. CASE Advances(r)
  <2>1. CASE req[r].pc = "revoke"
    BY <1>4, <2>1 DEF Advances
  <2>2. CASE req[r].pc # "revoke"
    BY <1>2, <1>4, <2>2 DEF Advances, Holding
  <2> QED BY <2>1, <2>2
<1>5. CASE Rotates(r)
  BY <1>5 DEF Rotates, Rotation
<1>6. CASE Starts(r)
  BY <1>6 DEF Starts, NewSession
<1> QED BY <1>3, <1>4, <1>5, <1>6, RequestsCome DEF Lineage, Holding

\* A rotation that has its new token has used up the old one: the row is
\* revoked or gone, whatever touched it in between (rotate).
THEOREM TokensSpentBeforeExchanged == Spec => []SpentBeforeExchanged
<1>1. Init => SpentBeforeExchanged
  BY DEF Init, SpentBeforeExchanged
<1>2. TypeOK /\ TypeOK' /\ Lineage /\ SpentBeforeExchanged /\ [Next]_vars
        => SpentBeforeExchanged'
  BY SpentStep
<1> QED BY <1>1, <1>2, SessionsTyped, SessionsLineage, PTL DEF Spec

-----------------------------------------------------------------------------
\* A step that starts a session does nothing else.
LEMMA StartsAlone ==
    ASSUME TypeOK, [Next]_vars, NEW x \in Reqs, Starts(x)
    PROVE  /\ UNCHANGED <<now, tokens>>
           /\ \A y \in Reqs \ {x} : req'[y] = req[y]
<1> DEFINE Goal == /\ UNCHANGED <<now, tokens>>
                   /\ \A y \in Reqs \ {x} : req'[y] = req[y]
<1> USE DEF Starts, NewSession
<1>1. ASSUME NEW r \in Reqs, NEW u \in Emails,
             \/ CheckEmail(r, u)
             \/ \E passwordOk \in BOOLEAN : CheckCredentials(r, u, passwordOk)
      PROVE  Goal
  BY <1>1, Became DEF CheckEmail, CheckCredentials, Refuse, WithUser
<1>2. ASSUME NEW r \in Reqs, NEW t \in Delivered,
             FindToken(r, t) \/ Logout(r, t)
      PROVE  Goal
  BY <1>2, Became DEF FindToken, Logout, Refuse, Rotation
<1>3. ASSUME NEW r \in Reqs, CreateUser(r) \/ LogSuccess(r) \/ LogFailure(r)
      PROVE  Goal
  BY <1>3, Became, Moved DEF CreateUser, LogSuccess, LogFailure, Refuse
<1>4. ASSUME NEW r \in Reqs, CheckUser(r) \/ SendReply(r) \/ CallFails(r)
      PROVE  Goal
  BY <1>4, Became, Moved DEF CheckUser, SendReply, CallFails, Refuse
<1>5. ASSUME NEW r \in Reqs, Issue(r) \/ RevokeOld(r) \/ RevokeFamily(r)
      PROVE  Goal
  BY <1>5, Became, Moved DEF Issue, RevokeOld, RevokeFamily
<1>6. CASE \/ \E u \in Emails : \/ CreateAdvertiser(u)
                              \/ \E active \in BOOLEAN : SetActive(u, active)
           \/ Cleanup \/ Tick \/ Crash \/ UNCHANGED vars
  BY <1>6 DEF CreateAdvertiser, SetActive, Cleanup, Tick, Crash, vars, TypeOK
<1> QED BY <1>1, <1>2, <1>3, <1>4, <1>5, <1>6 DEF Next, Serve

Entry(id, owner) == [id |-> id, owner |-> owner]

\* An open session was open before the step, or the step starts it.
LEMMA OpenCome ==
    ASSUME TypeOK, TypeOK', Lineage, [Next]_vars, NEW e \in OpenSessions'
    PROVE  \/ e \in OpenSessions
           \/ \E x \in Reqs : Starts(x) /\ e = Entry(x, req[x].user)
<1>1. Persists /\ TokenStep /\ NewTokens
  BY Monotone, TokensCome DEF Lineage
<1>2. ASSUME NEW t \in DOMAIN tokens', IsLive(t)',
             e = Entry(tokens'[t].family, tokens'[t].user)
      PROVE  e \in OpenSessions
  <2>1. CASE t \in DOMAIN tokens
    <3>1. /\ tokens'[t].user = tokens[t].user
          /\ tokens'[t].family = tokens[t].family
          /\ tokens'[t].expiresAt = tokens[t].expiresAt
          /\ ~Revoked(t)
      BY <1>1, <1>2, <2>1 DEF TokenStep, IsLive, Revoked
    <3>2. tokens[t].expiresAt \in Nat /\ now \in Nat
      BY <2>1 DEF TypeOK, TokenRows
    <3>3. ~(tokens'[t].expiresAt < now')
      BY <1>2 DEF IsLive, Expired
    <3>4. IsLive(t)
      BY <1>1, <2>1, <3>1, <3>2, <3>3 DEF Persists, IsLive, Expired
    <3> QED BY <1>2, <2>1, <3>1, <3>4 DEF OpenSessions, Entry
  <2>2. CASE t \notin DOMAIN tokens
    <3>1. t \in Reqs
      BY DEF TypeOK
    <3> QED BY <1>1, <1>2, <2>2, <3>1 DEF NewTokens, OpenSessions, Issuers, Entry
  <2> QED BY <2>1, <2>2
<1>3. ASSUME NEW r \in Issuers', e = Entry(req'[r].family, req'[r].user)
      PROVE  \/ e \in OpenSessions
             \/ \E x \in Reqs : Starts(x) /\ e = Entry(x, req[x].user)
  <2>1. r \in Reqs /\ req'[r].pc \in {"revoke", "issue"}
    BY DEF Issuers
  <2>2. CASE req'[r] = req[r]
    BY <1>3, <2>1, <2>2 DEF OpenSessions, Issuers, Entry
  <2>3. CASE Advances(r)
    BY <1>3, <2>1, <2>3 DEF Advances, OpenSessions, Issuers, Entry
  <2>4. CASE Rotates(r)
    BY <1>3, <2>4 DEF Rotates, Rotation, IsLive, OpenSessions, Entry
  <2>5. CASE Starts(r)
    <3>1. req'[r].family = r /\ req'[r].user = req[r].user
      BY <2>5 DEF Starts, NewSession
    <3> QED BY <1>3, <2>1, <2>5, <3>1
  <2> QED BY <2>1, <2>2, <2>3, <2>4, <2>5, RequestsCome DEF Lineage, Holding
<1> QED BY <1>2, <1>3 DEF OpenSessions, Entry

\* Only requests past their checks have sessions open.
LEMMA OpenIds ==
    ASSUME TypeOK, Lineage, NEW e \in OpenSessions
    PROVE  /\ e = Entry(e.id, e.owner)
           /\ e.id \in Reqs /\ req[e.id].pc \notin Startable
<1>1. CASE \E t \in DOMAIN tokens : e = Entry(tokens[t].family, tokens[t].user)
  BY <1>1 DEF Entry, Lineage, TokenLineage, TypeOK, TokenRows
<1>2. CASE \E r \in Issuers : e = Entry(req[r].family, req[r].user)
  <2>1. PICK r \in Issuers : e = Entry(req[r].family, req[r].user)
    BY <1>2
  <2>2. req[r].family \in Reqs
    BY Shapes DEF Issuers, Carrying
  <2> QED BY <2>1, <2>2 DEF Entry, Lineage, IssuerLineage
<1> QED BY <1>1, <1>2 DEF OpenSessions, Entry

\* A step that starts a session is Start of the abstract specification.
LEMMA StartStep ==
    ASSUME TypeOK, TypeOK', Lineage, [Next]_vars, NEW x \in Reqs, Starts(x)
    PROVE  req[x].user \in Emails /\ Lifecycle!Start(x, req[x].user)
<1> DEFINE new == Entry(x, req[x].user)
<1>1. req[x].pc \in Startable /\ req[x].user \in Emails
  BY Shapes DEF Starts, Startable, Credentialed
<1>2. req'[x] = [pc |-> "issue", user |-> req[x].user, family |-> x, from |-> x]
  BY DEF Starts, NewSession
<1>3. OpenSessions' = OpenSessions \cup {new}
  <2>1. Issuers' = Issuers \cup {x}
    BY <1>2, StartsAlone DEF Issuers
  <2>2. x \notin Issuers
    BY <1>1 DEF Issuers, Startable
  <2>3. \A y \in Issuers : req'[y] = req[y]
    BY <2>2, StartsAlone DEF Issuers
  <2>4. DOMAIN tokens' = DOMAIN tokens /\ tokens' = tokens /\ now' = now
    BY StartsAlone
  <2> DEFINE live == {[id |-> tokens[t].family, owner |-> tokens[t].user] :
                        t \in {t \in DOMAIN tokens : IsLive(t)}}
  <2>5. live' = live
    BY <2>4 DEF IsLive, Revoked, Expired
  <2> DEFINE going == {[id |-> req[r].family, owner |-> req[r].user] : r \in Issuers}
  <2>6. going' = going \cup {new}
    BY <1>2, <2>1, <2>3 DEF Entry
  <2>7. OpenSessions = live \cup going /\ OpenSessions' = live' \cup going'
    BY DEF OpenSessions
  <2> HIDE DEF live, going
  <2> QED BY <2>5, <2>6, <2>7
<1>4. \A e \in OpenSessions : e.id # x
  BY <1>1, OpenIds
<1>5. SpentIds' = SpentIds
  <2>1. x \notin SpentIds
    BY <1>1 DEF SpentIds, Startable
  <2>2. x \notin SpentIds'
    <3>1. new \in OpenSessions' /\ new.id = x
      BY <1>3 DEF Entry
    <3> QED BY <3>1 DEF SpentIds
  <2>3. ASSUME NEW f \in Reqs \ {x}
        PROVE  f \in SpentIds' <=> f \in SpentIds
    BY <1>3, StartsAlone DEF SpentIds, Entry
  <2> QED BY <2>1, <2>2, <2>3 DEF SpentIds
<1>6. x \notin SpentIds /\ x \notin Lifecycle!Ids(OpenSessions)
  BY <1>1, <1>4 DEF SpentIds, Startable, Lifecycle!Ids
<1> QED BY <1>1, <1>3, <1>5, <1>6 DEF Lifecycle!Start, Entry

\* Every other step is End, which a step that opens and closes nothing is too.
LEMMA EndStep ==
    ASSUME TypeOK, TypeOK', Lineage, [Next]_vars, \A x \in Reqs : ~Starts(x)
    PROVE  Lifecycle!End
<1>1. OpenSessions' \subseteq OpenSessions
  BY OpenCome
<1>2. ASSUME NEW f \in SpentIds \cup (Lifecycle!Ids(OpenSessions) \ Lifecycle!Ids(OpenSessions'))
      PROVE  f \in SpentIds'
  <2>1. f \in Reqs /\ req[f].pc \notin Startable
    BY <1>2, OpenIds DEF SpentIds, Startable, Lifecycle!Ids
  <2>2. req'[f].pc \notin Startable
    BY <2>1, Monotone DEF Persists
  <2>3. \A e \in OpenSessions' : e.id # f
    BY <1>1, <1>2 DEF SpentIds, Lifecycle!Ids
  <2> QED BY <2>1, <2>2, <2>3 DEF SpentIds, Startable
<1>3. SpentIds' \subseteq Reqs \ Lifecycle!Ids(OpenSessions')
  BY DEF SpentIds, Lifecycle!Ids
<1> QED BY <1>1, <1>2, <1>3 DEF Lifecycle!End

\* Families of tokens are sessions: each is started once, for one user, and
\* is never open again when it has ended (SessionLifecycle), whatever
\* rotations, logouts, expiries, failures and cleanups overlap.
THEOREM SessionsImplementLifecycle == Spec => ImplementsLifecycle
<1>1. Init => Lifecycle!Init
  BY DEF Init, Empty, Lifecycle!Init, OpenSessions, SpentIds, Issuers
<1>2. TypeOK /\ TypeOK' /\ Lineage /\ [Next]_vars
        => [Lifecycle!Next]_<<OpenSessions, SpentIds>>
  BY StartStep, EndStep DEF Lifecycle!Next
<1> QED BY <1>1, <1>2, SessionsTyped, SessionsLineage, PTL
           DEF Spec, ImplementsLifecycle, Lifecycle!Spec

-----------------------------------------------------------------------------
\* What a lifecycle keeps: one owner for each open session.
LifecycleKept ==
    /\ \A e, f \in OpenSessions : e.id = f.id => e = f
    /\ \A e \in OpenSessions : e.id \notin SpentIds

\* An id that is spent stays spent; an open session goes on or its id is spent.
LifecycleOnlyEnds ==
    /\ SpentIds \subseteq SpentIds'
    /\ \A e \in OpenSessions : e \in OpenSessions' \/ e.id \in SpentIds'

LEMMA LifecycleStep ==
    ASSUME LifecycleKept, [Lifecycle!Next]_<<OpenSessions, SpentIds>>
    PROVE  LifecycleKept' /\ LifecycleOnlyEnds
<1>1. ASSUME NEW id \in Reqs, NEW owner \in Emails, Lifecycle!Start(id, owner)
      PROVE  LifecycleKept' /\ LifecycleOnlyEnds
  <2> DEFINE new == [id |-> id, owner |-> owner]
  <2>1. /\ OpenSessions' = OpenSessions \cup {new} /\ new.id = id
        /\ SpentIds' = SpentIds /\ id \notin SpentIds
        /\ \A e \in OpenSessions : e.id # id
    BY <1>1 DEF Lifecycle!Start, Lifecycle!Ids
  <2> HIDE DEF new
  <2> QED BY <2>1 DEF LifecycleKept, LifecycleOnlyEnds
<1>2. CASE Lifecycle!End
  <2>1. /\ OpenSessions' \subseteq OpenSessions
        /\ SpentIds \subseteq SpentIds'
        /\ \A e \in OpenSessions' : e.id \notin SpentIds'
    BY <1>2 DEF Lifecycle!End, Lifecycle!Ids
  <2>2. ASSUME NEW e \in OpenSessions, e.id \notin SpentIds'
        PROVE  e \in OpenSessions'
    <3>1. PICK f \in OpenSessions' : f.id = e.id
      BY <1>2, <2>2 DEF Lifecycle!End, Lifecycle!Ids
    <3> QED BY <2>1, <3>1 DEF LifecycleKept
  <2> QED BY <2>1, <2>2 DEF LifecycleKept, LifecycleOnlyEnds
<1>3. CASE UNCHANGED <<OpenSessions, SpentIds>>
  BY <1>3 DEF LifecycleKept, LifecycleOnlyEnds
<1> QED BY <1>1, <1>2, <1>3 DEF Lifecycle!Next

\* What follows from SessionLifecycle alone: a session belongs to one user as
\* long as it is open, and once it has ended, by logout, reuse, expiry or a
\* rotation that failed halfway, its id is spent for good.
THEOREM EndedStaysEnded ==
    ImplementsLifecycle =>
        []LifecycleKept /\ [][LifecycleOnlyEnds]_<<OpenSessions, SpentIds>>
<1>1. Lifecycle!Init => LifecycleKept
  BY DEF Lifecycle!Init, LifecycleKept
<1>2. LifecycleKept /\ [Lifecycle!Next]_<<OpenSessions, SpentIds>>
        => LifecycleKept' /\ [LifecycleOnlyEnds]_<<OpenSessions, SpentIds>>
  BY LifecycleStep
<1> QED BY <1>1, <1>2, PTL DEF ImplementsLifecycle, Lifecycle!Spec

-----------------------------------------------------------------------------
(***************************************************************************)
(* What a step does to a request: it takes it nearer to its end.  This is  *)
(* the part of RequestsEnd that is no matter of fairness.                  *)
(***************************************************************************)
Rank(state) ==
    IF state.pc = "new" THEN 5
    ELSE IF state.pc \in {"createUser", "logSuccess", "revoke"} THEN 4
    ELSE IF state.pc = "issue" THEN 3
    ELSE IF state.pc = "checkUser" THEN 2
    ELSE IF state.pc \in {"denied", "reply", "revokeFamily"} THEN 1 ELSE 0

Nearer(q) == req'[q] = req[q] \/ Rank(req'[q]) < Rank(req[q])

LEMMA StepNearer ==
    ASSUME TypeOK, [Next]_vars, NEW q \in Reqs
    PROVE  Nearer(q)
<1>1. ASSUME NEW r \in Reqs, NEW u \in Emails,
             \/ CheckEmail(r, u)
             \/ \E passwordOk \in BOOLEAN : CheckCredentials(r, u, passwordOk)
      PROVE  Nearer(q)
  BY <1>1, Became DEF CheckEmail, CheckCredentials, Refuse, WithUser, Nearer, Rank
<1>2. ASSUME NEW r \in Reqs, NEW t \in Delivered,
             FindToken(r, t) \/ Logout(r, t)
      PROVE  Nearer(q)
  BY <1>2, Became DEF FindToken, Logout, Refuse, Rotation, Nearer, Rank
<1>3. ASSUME NEW r \in Reqs, CreateUser(r) \/ LogSuccess(r) \/ LogFailure(r)
      PROVE  Nearer(q)
  BY <1>3, Became, Moved
     DEF CreateUser, LogSuccess, LogFailure, Refuse, NewSession, Nearer, Rank
<1>4. ASSUME NEW r \in Reqs, CheckUser(r) \/ SendReply(r) \/ CallFails(r)
      PROVE  Nearer(q)
  BY <1>4, Became, Moved DEF CheckUser, SendReply, CallFails, Refuse, Nearer, Rank
<1>5. ASSUME NEW r \in Reqs, Issue(r) \/ RevokeOld(r) \/ RevokeFamily(r)
      PROVE  Nearer(q)
  BY <1>5, Became, Moved DEF Issue, RevokeOld, RevokeFamily, Nearer, Rank
<1>6. CASE Crash
  <2>1. req[q].pc \in {"new", "refused", "failed", "ok", "revoked"}
          \/ Rank(req[q]) \in 1..4
    <3>1. req[q] \in ReqStates
      BY DEF TypeOK
    <3> QED BY <3>1 DEF ReqStates, Rank
  <2>2. \/ req'[q] = req[q]
        \/ /\ req[q].pc \notin {"new", "refused", "failed", "ok", "revoked"}
           /\ req'[q] = [pc |-> "failed"]
    BY <1>6 DEF Crash
  <2>3. Rank([pc |-> "failed"]) = 0
    BY DEF Rank
  <2> QED BY <2>1, <2>2, <2>3 DEF Nearer
<1>7. CASE \/ \E u \in Emails : \/ CreateAdvertiser(u)
                              \/ \E active \in BOOLEAN : SetActive(u, active)
           \/ Cleanup \/ Tick \/ UNCHANGED vars
  BY <1>7 DEF CreateAdvertiser, SetActive, Cleanup, Tick, vars, Nearer
<1> QED BY <1>1, <1>2, <1>3, <1>4, <1>5, <1>6, <1>7 DEF Next, Serve

\* No handler of a session loops or tries again: a request takes at most five
\* steps, whatever other requests do to its tokens and its user meanwhile, so
\* with the fairness of the event loop it ends, and stays as it ended.
THEOREM SessionRequestsOnlyAdvance == Spec => [][\A q \in Reqs : Nearer(q)]_vars
<1>1. TypeOK /\ [Next]_vars => [\A q \in Reqs : Nearer(q)]_vars
  BY StepNearer
<1> QED BY <1>1, SessionsTyped, PTL DEF Spec
===============================================================================
