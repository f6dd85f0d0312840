------------------------------- MODULE Accounts -------------------------------
(***************************************************************************)
(* The way of a request to its handler: authentication against the User    *)
(* table, RolesGuard, the guard of the handler itself, the validation      *)
(* pipe; and the operations on accounts and role permissions.  Every       *)
(* awaited call is a step, so rows change between a guard and a handler.   *)
(*                                                                         *)
(* A request is served once.  An access token is a user: its signature and *)
(* its expiry are checked before anything is read.                         *)
(***************************************************************************)
EXTENDS Access, Tables

CONSTANTS
    Reqs,
    Roster,         \* the User table at first: a function on the users
    Nobody,         \* who calls a public operation, and an id no user has
    Permissions,
    Nothing,        \* what a request keeps before it has read anything
    Traffic         \* bound: the workloads, what each request may ask for and
                    \* as whom

Users == DOMAIN Roster
UserRows == [role : Roles, active : BOOLEAN]

ASSUME AccountAssumption ==
    /\ Roster \in [Users -> UserRows]
    /\ Nobody \notin Users
    /\ Traffic \subseteq [Reqs -> SUBSET (Operations \X (Users \cup {Nobody}))]

VARIABLES
    users,
    rolePermissions,    \* the pairs <<role, permission>> granted
    req,                \* where each request is and for whom
    kept,               \* what each request has read and goes on using
    traffic             \* the workload of this behaviour

AccountOps == {"setUserActive", "changeUserRole", "createRolePermission",
               "deleteRolePermission"}

accountVars == <<users, rolePermissions>>
requestVars == <<req, kept, traffic>>

\* A request with a caller: "passed" is the role RolesGuard judged, "role" the
\* one the handler is given.
Callers == [op : Operations, user : Users \cup {Nobody},
            passed : Roles \cup {Nobody}, role : Roles \cup {Nobody}]
Stages == {"again", "call", "found", "checked", "reply", "ok"}
Refusals == {"throttled", "unauthorized", "forbidden", "invalid",
             "undecorated", "notFound", "conflict"}
ReqStates ==
    [pc : {"new", "failed"}]
      \cup [pc : {"refused"}, why : Refusals]
      \cup [pc : Stages, by : Callers]

AccountsTypeOK ==
    /\ users \in [Users -> UserRows]
    /\ rolePermissions \subseteq Roles \X Permissions
    /\ req \in [Reqs -> ReqStates]
    /\ DOMAIN kept = Reqs
    /\ traffic \in Traffic

AccountsInit ==
    /\ users = Roster
    /\ rolePermissions = {}
    /\ req = [r \in Reqs |-> [pc |-> "new"]]
    /\ kept = [r \in Reqs |-> Nothing]
    /\ traffic \in Traffic

-----------------------------------------------------------------------------
Become(r, state, what) ==
    /\ req' = [req EXCEPT ![r] = state]
    /\ kept' = [kept EXCEPT ![r] = what]
    /\ UNCHANGED traffic

Refuse(r, why) == Become(r, [pc |-> "refused", why |-> why], Nothing)
Fail(r) == Become(r, [pc |-> "failed"], Nothing)

\* The request goes on, keeping what it has read.
Go(r, pc, what) == Become(r, [req[r] EXCEPT !.pc = pc], what)

\* The handler is done: its answer is on the way.
Reply(r) == Go(r, "reply", kept[r])

At(r, pc, op) == req[r].pc = pc /\ req[r].by.op = op
Called(r, op) == At(r, "call", op)

\* The pipe wants a validator on every field. The inputs of these operations
\* have a field without one, and it is there, undefined, when it is not sent: a
\* field a class declares is a property of every instance (tsconfig.json:13).
Undecorated ==
    {"createOffer", "updateOffer", "approveOffer", "upsertSetting",
     "createPlan", "updatePlan", "createSignupQuestion", "updateSignupQuestion",
     "createCrExperiment", "updateCrExperiment"}

\* The last guard has passed; the pipe runs in the same step.
Enter(r, by) ==
    \/ /\ by.op \notin Undecorated
       /\ Become(r, [pc |-> "call", by |-> by], Nothing)
    \/ by.op \in Undecorated /\ Refuse(r, "undecorated")
    \/ Refuse(r, "invalid")

\* GqlThrottlerGuard, the first one; which request is too many is left open.
Throttle(r) ==
    /\ req[r].pc = "new" /\ traffic[r] # {}
    /\ Refuse(r, "throttled")
    /\ UNCHANGED accountVars

AdmitPublic(r, op) ==
    /\ req[r].pc = "new" /\ <<op, Nobody>> \in traffic[r] /\ IsPublic(op)
    /\ Enter(r, [op |-> op, user |-> Nobody, passed |-> Nobody,
                 role |-> Nobody])
    /\ UNCHANGED accountVars

Caller(op, u, role) == [op |-> op, user |-> u, passed |-> role, role |-> role]

\* Faulty variant: the role is the one the token was issued for.
AdmitOnClaims(r, op, u) ==
    /\ req[r].pc = "new" /\ <<op, u>> \in traffic[r] /\ ~IsPublic(op)
    /\ IF ~users[u].active
       THEN Refuse(r, "unauthorized")
       ELSE IF ~Permits(op, Roster[u].role, rolePermissions)
       THEN Refuse(r, "forbidden")
       ELSE IF ChecksAgain(op)
       THEN Become(r, [pc |-> "again", by |-> Caller(op, u, Roster[u].role)],
                   Nothing)
       ELSE Enter(r, Caller(op, u, Roster[u].role))
    /\ UNCHANGED accountVars

\* JwtStrategy.validate reads the row of the bearer, RolesGuard judges the role
\* found there, in one step: no handler asks for permissions, which would be
\* another read.
Admit(r, op, u) ==
    /\ req[r].pc = "new" /\ <<op, u>> \in traffic[r] /\ ~IsPublic(op)
    /\ LET by == Caller(op, u, users[u].role) IN
       \/ ~users[u].active /\ Refuse(r, "unauthorized")
       \/ /\ users[u].active /\ ~Permits(op, by.role, rolePermissions)
          /\ Refuse(r, "forbidden")
       \/ /\ users[u].active /\ Permits(op, by.role, rolePermissions)
          /\ IF ChecksAgain(op)
             THEN Become(r, [pc |-> "again", by |-> by], Nothing)
             ELSE Enter(r, by)
    /\ UNCHANGED accountVars

\* The handler's own guard reads the row again and replaces the user; no one
\* judges the role it finds.
Reauthenticate(r) ==
    /\ req[r].pc = "again"
    /\ LET row == users[req[r].by.user] IN
       IF row.active THEN Enter(r, [req[r].by EXCEPT !.role = row.role])
                     ELSE Refuse(r, "unauthorized")
    /\ UNCHANGED accountVars

-----------------------------------------------------------------------------
SetActive(r, u, active) ==
    /\ Called(r, "setUserActive")
    /\ IF u \in Users
       THEN users' = [users EXCEPT ![u].active = active] /\ Reply(r)
       ELSE UNCHANGED users /\ Refuse(r, "notFound")
    /\ UNCHANGED rolePermissions

ChangeRole(r, u, role) ==
    /\ Called(r, "changeUserRole")
    /\ IF u \in Users
       THEN users' = [users EXCEPT ![u].role = role] /\ Reply(r)
       ELSE UNCHANGED users /\ Refuse(r, "notFound")
    /\ UNCHANGED rolePermissions

GrantPermission(r, role, p) ==
    /\ Called(r, "createRolePermission")
    /\ rolePermissions' = rolePermissions \cup {<<role, p>>}
    /\ IF <<role, p>> \in rolePermissions THEN Refuse(r, "conflict")
                                          ELSE Reply(r)
    /\ UNCHANGED users

RemovePermission(r, role, p) ==
    /\ Called(r, "deleteRolePermission")
    /\ rolePermissions' = rolePermissions \ {<<role, p>>}
    /\ IF <<role, p>> \in rolePermissions THEN Reply(r)
                                          ELSE Refuse(r, "notFound")
    /\ UNCHANGED users

\* An operation that changes nothing of the back office: a query, or a
\* mutation of tables that are another specification's.
Answer(r) ==
    /\ req[r].pc = "call"
    /\ Reply(r) \/ Refuse(r, "notFound")
    /\ UNCHANGED accountVars

SendReply(r) ==
    /\ req[r].pc = "reply"
    /\ Go(r, "ok", kept[r])
    /\ UNCHANGED accountVars

InFlight(r) == req[r].pc \in Stages \ {"ok"}

\* An awaited call rejects, or its acknowledgement is lost: the error reaches
\* the client as an internal one.
CallFails(r) ==
    /\ InFlight(r)
    /\ Fail(r)
    /\ UNCHANGED accountVars

\* A restart: every request in flight is lost.
Crash ==
    /\ req' = [r \in Reqs |-> IF InFlight(r) THEN [pc |-> "failed"] ELSE req[r]]
    /\ kept' = [r \in Reqs |-> IF InFlight(r) THEN Nothing ELSE kept[r]]
    /\ UNCHANGED <<traffic, accountVars>>

ServeAccounts(r) ==
    \/ \E u \in Users \cup {Nobody} :
         \/ \E active \in BOOLEAN : SetActive(r, u, active)
         \/ \E role \in Roles : ChangeRole(r, u, role)
    \/ \E role \in Roles, p \in Permissions :
         GrantPermission(r, role, p) \/ RemovePermission(r, role, p)
===============================================================================
