------------------------------- MODULE Sessions -------------------------------
(***************************************************************************)
(* Accounts and refresh sessions: AuthService and RefreshTokenService,     *)
(* with the registration of an account, sign-in, rotation, logout and the  *)
(* nightly cleanup. Nothing but the two inserts of a registration is in a  *)
(* transaction: every awaited call is an action.                           *)
(*                                                                         *)
(* A raw token and the family id are random; each is represented by the    *)
(* request that draws it.  A user is named by the email, which is unique   *)
(* and never changed.  Abstracted: passwords, roles, device data, the      *)
(* affiliate profile (inserted with its user), lastLoginAt, and the access *)
(* token, which no table holds.                                            *)
(***************************************************************************)
EXTENDS Naturals, Tables

CONSTANTS
    Reqs,       \* requests, each served once: the ids of tokens and families
    Emails,
    Seeded,     \* accounts that were there before the server started
    Operator,   \* what creates accounts that nobody registers
    Never,      \* the null of revokedAt
    TTL,        \* auth.refreshTokenExpiresIn, in clock units
    Retention,  \* REVOKED_RETENTION_DAYS, in clock units
    MaxTime     \* bound: the clock stops here

ASSUME SessionAssumption ==
    /\ Seeded \subseteq Emails
    /\ Operator \notin Reqs
    /\ Never \notin Nat
    /\ TTL \in Nat /\ Retention \in Nat /\ MaxTime \in Nat

VARIABLES
    now,
    users,      \* the User table: a function on the emails taken
    tokens,     \* the RefreshToken table: a function on the tokens stored
    loginLog,   \* the LoginLog table
    req         \* where each request is

vars == <<now, users, tokens, loginLog, req>>

UserRows == [active : BOOLEAN, by : Reqs \cup {Operator}]
TokenRows == [user : Emails, family : Reqs, revokedAt : Nat \cup {Never},
              expiresAt : Nat]
LoginRows == [req : Reqs, user : Emails, success : BOOLEAN]

\* "from" is the token a rotation was presented; the request itself otherwise.
ReqStates ==
    [pc : {"new", "refused", "failed"}]
      \cup [pc : {"createUser", "logSuccess", "denied"}, user : Emails]
      \cup [pc : {"revoke", "issue", "checkUser", "reply", "ok"},
            user : Emails, family : Reqs, from : Reqs]
      \cup [pc : {"revokeFamily", "revoked"}, family : Reqs,
            why : {"reuse", "logout"}]

TypeOK ==
    /\ now \in Nat
    /\ DOMAIN users \subseteq Emails /\ users \in [DOMAIN users -> UserRows]
    /\ DOMAIN tokens \subseteq Reqs /\ tokens \in [DOMAIN tokens -> TokenRows]
    /\ loginLog \subseteq LoginRows
    /\ req \in [Reqs -> ReqStates]

Init ==
    /\ now = 0
    /\ users = [u \in Seeded |-> [active |-> TRUE, by |-> Operator]]
    /\ tokens = Empty
    /\ loginLog = {}
    /\ req = [r \in Reqs |-> [pc |-> "new"]]

-----------------------------------------------------------------------------
Step(r, pc) == req' = [req EXCEPT ![r].pc = pc]
Become(r, state) == req' = [req EXCEPT ![r] = state]
Refuse(r) == Become(r, [pc |-> "refused"])
WithUser(pc, u) == [pc |-> pc, user |-> u]

\* The state of a request that is to start a session of user u.
NewSession(r, u) == [pc |-> "issue", user |-> u, family |-> r, from |-> r]

\* assertEmailAvailable.
CheckEmail(r, u) ==
    /\ req[r].pc = "new"
    /\ IF u \in DOMAIN users THEN Refuse(r)
                             ELSE Become(r, WithUser("createUser", u))
    /\ UNCHANGED <<now, users, tokens, loginLog>>

\* Faulty variant: isActive is left without a value.
CreateUserInactive(r) ==
    /\ req[r].pc = "createUser"
    /\ req[r].user \notin DOMAIN users
    /\ users' = Insert(users, req[r].user, [active |-> Never, by |-> r])
    /\ Become(r, NewSession(r, req[r].user))
    /\ UNCHANGED <<now, tokens, loginLog>>

\* Faulty variant: the email is not unique in the schema.
CreateUserAgain(r) ==
    /\ req[r].pc = "createUser"
    /\ users' = Insert(users, req[r].user, [active |-> TRUE, by |-> r])
    /\ Become(r, NewSession(r, req[r].user))
    /\ UNCHANGED <<now, tokens, loginLog>>

\* The unique index on the email rejects the second of two registrations that
\* found it free; its error is not caught.
CreateUser(r) ==
    /\ req[r].pc = "createUser"
    /\ LET u == req[r].user IN
       IF u \in DOMAIN users
       THEN /\ Become(r, [pc |-> "failed"])
            /\ UNCHANGED users
       ELSE /\ users' = Insert(users, u, [active |-> TRUE, by |-> r])
            /\ Become(r, NewSession(r, u))
    /\ UNCHANGED <<now, tokens, loginLog>>

\* validateLocalCredentials; a call that fails is denied like a bad password.
CheckCredentials(r, u, passwordOk) ==
    /\ req[r].pc = "new"
    /\ IF u \in DOMAIN users /\ passwordOk /\ users[u].active
       THEN Become(r, WithUser("logSuccess", u))
       ELSE Become(r, WithUser("denied", u))
    /\ UNCHANGED <<now, users, tokens, loginLog>>

\* The row is stored; an acknowledgement that is lost ends in the catch block.
LogSuccess(r) ==
    /\ req[r].pc = "logSuccess"
    /\ loginLog' = loginLog \cup
         {[req |-> r, user |-> req[r].user, success |-> TRUE]}
    /\ \/ Become(r, NewSession(r, req[r].user))
       \/ Step(r, "denied")
    /\ UNCHANGED <<now, users, tokens>>

\* The catch block of signIn. A user once found is never removed, so the
\* lookup and the insert are one step.
LogFailure(r) ==
    /\ req[r].pc = "denied"
    /\ loginLog' = loginLog \cup
         {[req |-> r, user |-> u, success |-> FALSE] :
             u \in {req[r].user} \cap DOMAIN users}
    /\ Refuse(r)
    /\ UNCHANGED <<now, users, tokens>>

-----------------------------------------------------------------------------
\* The tokens some client holds, and may present as often as it likes.
Delivered == {r \in Reqs : req[r].pc = "ok"}

Revoked(t) == tokens[t].revokedAt # Never
Expired(t) == tokens[t].expiresAt < now
IsLive(t) == t \in DOMAIN tokens /\ ~Revoked(t) /\ ~Expired(t)

\* issue: the token of a first sign-in, or the next one of its family.
Issue(r) ==
    /\ req[r].pc = "issue"
    /\ tokens' = Insert(tokens, r,
         [user |-> req[r].user, family |-> req[r].family,
          revokedAt |-> Never, expiresAt |-> now + TTL])
    /\ Step(r, IF req[r].family = r THEN "reply" ELSE "checkUser")
    /\ UNCHANGED <<now, users, loginLog>>

Rotation(r, t) ==
    [pc |-> "revoke", user |-> tokens[t].user, family |-> tokens[t].family,
     from |-> t]

\* Faulty variant: a token that was rotated already is rotated again.
FindTokenIgnoringReuse(r, t) ==
    /\ req[r].pc = "new"
    /\ IF t \in DOMAIN tokens /\ ~Expired(t) THEN Become(r, Rotation(r, t))
                                             ELSE Refuse(r)
    /\ UNCHANGED <<now, users, tokens, loginLog>>

\* rotate, the lookup: an unknown or expired token is refused, a revoked one
\* is taken for stolen.
FindToken(r, t) ==
    /\ req[r].pc = "new"
    /\ \/ t \notin DOMAIN tokens /\ Refuse(r)
       \/ /\ t \in DOMAIN tokens /\ Revoked(t)
          /\ Become(r, [pc |-> "revokeFamily", family |-> tokens[t].family,
                        why |-> "reuse"])
       \/ /\ t \in DOMAIN tokens /\ ~Revoked(t) /\ Expired(t)
          /\ Refuse(r)
       \/ IsLive(t) /\ Become(r, Rotation(r, t))
    /\ UNCHANGED <<now, users, tokens, loginLog>>

\* Faulty variant: the presented token is not revoked.
RevokeNothing(r) ==
    /\ req[r].pc = "revoke"
    /\ Step(r, "issue")
    /\ UNCHANGED <<now, users, tokens, loginLog>>

\* Faulty variant: it waits for a row the cleanup has removed.
RevokeOldWaiting(r) ==
    /\ req[r].pc = "revoke"
    /\ req[r].from \in DOMAIN tokens
    /\ tokens' = [tokens EXCEPT ![req[r].from].revokedAt = now]
    /\ Step(r, "issue")
    /\ UNCHANGED <<now, users, loginLog>>

\* rotate, the update by id: it does not ask whether the token is still
\* unrevoked, and fails when the cleanup has removed it.
RevokeOld(r) ==
    /\ req[r].pc = "revoke"
    /\ IF req[r].from \in DOMAIN tokens
       THEN /\ tokens' = [tokens EXCEPT ![req[r].from].revokedAt = now]
            /\ Step(r, "issue")
       ELSE Become(r, [pc |-> "failed"]) /\ UNCHANGED tokens
    /\ UNCHANGED <<now, users, loginLog>>

\* refreshSession, after the rotation: the user is read last.
CheckUser(r) ==
    /\ req[r].pc = "checkUser"
    /\ IF req[r].user \in DOMAIN users /\ users[req[r].user].active
       THEN Step(r, "reply") ELSE Refuse(r)
    /\ UNCHANGED <<now, users, tokens, loginLog>>

SendReply(r) ==
    /\ req[r].pc = "reply"
    /\ Step(r, "ok")
    /\ UNCHANGED <<now, users, tokens, loginLog>>

\* revokeByRawToken, the lookup.
Logout(r, t) ==
    /\ req[r].pc = "new"
    /\ IF t \in DOMAIN tokens
       THEN Become(r, [pc |-> "revokeFamily", family |-> tokens[t].family,
                       why |-> "logout"])
       ELSE Refuse(r)
    /\ UNCHANGED <<now, users, tokens, loginLog>>

\* revokeFamily: the rows of the family that are there now.
RevokeFamily(r) ==
    /\ req[r].pc = "revokeFamily"
    /\ tokens' = [t \in DOMAIN tokens |->
         IF tokens[t].family = req[r].family /\ ~Revoked(t)
         THEN [tokens[t] EXCEPT !.revokedAt = now] ELSE tokens[t]]
    /\ Step(r, "revoked")
    /\ UNCHANGED <<now, users, loginLog>>

\* An awaited call rejects: within signIn's try the attempt is logged as
\* failed, elsewhere the error reaches the client. A write may have been
\* made, its acknowledgement lost: then the step after it fails.
CallFails(r) ==
    /\ \/ req[r].pc = "logSuccess" /\ Step(r, "denied")
       \/ /\ req[r].pc \in {"createUser", "denied", "revoke", "issue",
                            "checkUser", "reply", "revokeFamily"}
          /\ Become(r, [pc |-> "failed"])
    /\ UNCHANGED <<now, users, tokens, loginLog>>

\* Faulty variant: a token that expires at this moment is stale.
StaleTooSoon(t) == tokens[t].expiresAt <= now

\* Faulty variant: only revoked rows are ever stale.
StaleIfRevoked(t) == Revoked(t) /\ tokens[t].revokedAt + Retention < now

\* Rows past their use: expired, or revoked longer ago than the retention.
Stale(t) == Expired(t) \/ (Revoked(t) /\ tokens[t].revokedAt + Retention < now)

\* cleanupExpiredTokens, every day at midnight.
Cleanup ==
    /\ tokens' = [t \in {t \in DOMAIN tokens : ~Stale(t)} |-> tokens[t]]
    /\ UNCHANGED <<now, users, loginLog, req>>

\* UsersService.setActive, by an administrator.
SetActive(u, active) ==
    /\ u \in DOMAIN users
    /\ users' = [users EXCEPT ![u].active = active]
    /\ UNCHANGED <<now, tokens, loginLog, req>>

\* AdvertisersService.create: an administrator makes an account. Its lookup of
\* the email only refuses earlier what the unique index refuses.
CreateAdvertiser(u) ==
    /\ u \notin DOMAIN users
    /\ users' = Insert(users, u, [active |-> TRUE, by |-> Operator])
    /\ UNCHANGED <<now, tokens, loginLog, req>>

Tick == now < MaxTime /\ now' = now + 1 /\ UNCHANGED <<users, tokens, loginLog, req>>

\* A restart: every request in flight fails, unanswered.
Crash ==
    /\ req' = [r \in Reqs |->
         IF req[r].pc \in {"new", "refused", "failed", "ok", "revoked"}
         THEN req[r] ELSE [pc |-> "failed"]]
    /\ UNCHANGED <<now, users, tokens, loginLog>>

\* What the server does for a request it has begun to serve.
Serve(r) ==
    \/ CreateUser(r)
    \/ LogSuccess(r)
    \/ LogFailure(r)
    \/ Issue(r)
    \/ RevokeOld(r)
    \/ CheckUser(r)
    \/ SendReply(r)
    \/ RevokeFamily(r)

Next ==
    \/ \E r \in Reqs, u \in Emails :
         \/ CheckEmail(r, u)
         \/ \E passwordOk \in BOOLEAN : CheckCredentials(r, u, passwordOk)
    \/ \E r \in Reqs, t \in Delivered : FindToken(r, t) \/ Logout(r, t)
    \/ \E r \in Reqs : Serve(r) \/ CallFails(r)
    \/ \E u \in Emails :
         CreateAdvertiser(u) \/ \E active \in BOOLEAN : SetActive(u, active)
    \/ Cleanup
    \/ Tick
    \/ Crash

Spec == Init /\ [][Next]_vars

\* Awaited calls settle and the scheduler runs its daily job; nothing makes a
\* request arrive, and only time that passes makes a token expire.
Fairness == WF_vars(Cleanup) /\ \A r \in Reqs : WF_vars(Serve(r))

FairSpec == Spec /\ Fairness

-----------------------------------------------------------------------------
\* The requests past every check, on their way to issue a token.
Issuers == {r \in Reqs : req[r].pc \in {"revoke", "issue"}}

\* A session is open while it has a live token or one on its way.
OpenSessions ==
    {[id |-> tokens[t].family, owner |-> tokens[t].user] :
        t \in {t \in DOMAIN tokens : IsLive(t)}}
    \cup {[id |-> req[r].family, owner |-> req[r].user] : r \in Issuers}

\* An id is free until the request that draws it has started its session or
\* turned out not to start one.
SpentIds ==
    {f \in Reqs : /\ req[f].pc \notin {"new", "createUser", "logSuccess"}
                  /\ \A e \in OpenSessions : e.id # f}

Lifecycle == INSTANCE SessionLifecycle WITH
    Sessions <- Reqs, Users <- Emails, open <- OpenSessions, spent <- SpentIds

\* A family of tokens is one session of one user: whatever rotations, logouts,
\* failures, expiries and cleanups overlap, a session that has ended (no live
\* token, none on its way) is never open again and never changes hands.
ImplementsLifecycle == Lifecycle!Spec

\* No token is exchanged without being spent: when a rotation has got as far
\* as its new token, the presented one is revoked or gone for good, also when
\* a concurrent rotation, logout or cleanup touched it in between.
SpentBeforeExchanged ==
    \A r \in Reqs :
        req[r].pc \in {"issue", "checkUser", "reply", "ok"} =>
            \/ req[r].from = r
            \/ req[r].from \notin DOMAIN tokens
            \/ Revoked(req[r].from)

\* Every stored token goes back, over any number of rotations, to the
\* registration that created the account or to a sign-in of that user that
\* the login log shows.
TokensTraceToALogin ==
    \A t \in DOMAIN tokens :
        LET u == tokens[t].user
            f == tokens[t].family
        IN  /\ u \in DOMAIN users
            /\ \/ users[u].by = f
               \/ [req |-> f, user |-> u, success |-> TRUE] \in loginLog

\* What a step may do to a stored token.
TokenStep ==
    \A t \in DOMAIN tokens :
        IF t \in DOMAIN tokens'
        THEN /\ \A c \in {"user", "family", "expiresAt"} :
                  tokens'[t][c] = tokens[t][c]
             /\ Revoked(t) => tokens'[t].revokedAt # Never
        ELSE ~IsLive(t)

\* A token is never re-owned, never comes back to life, and is never deleted
\* while it could still be exchanged (rotate's and cleanup's comparisons of
\* expiresAt agree on the boundary).
TokensOnlyDie == [][TokenStep]_vars

\* Every request the server begins to serve ends.
RequestsEnd ==
    \A r \in Reqs :
        req[r].pc # "new"
            ~> req[r].pc \in {"refused", "failed", "ok", "revoked"}

\* The table does not grow for ever: an expired row is removed, whatever
\* state it was left in (the comment on cleanupExpiredTokens).
ExpiredRowsAreRemoved ==
    \A t \in Reqs :
        (t \in DOMAIN tokens /\ Expired(t)) ~> t \notin DOMAIN tokens

\* What the comment on RefreshTokenService says: when a rotated token is
\* presented again the whole family is revoked, and the user must sign in.
ReuseRevokesFamily ==
    \A r \in Reqs :
        req[r].pc = "revoked" /\ req[r].why = "reuse" =>
            \A t \in DOMAIN tokens : tokens[t].family = req[r].family => Revoked(t)
=============================================================================
