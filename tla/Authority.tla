------------------------------ MODULE Authority ------------------------------
(***************************************************************************)
(* Who may change what in the back office.  A request acts on what it has  *)
(* learnt, which was true when it learnt it and may be out of date when it *)
(* acts: a role that was taken away meanwhile still counts, a role that    *)
(* was never held counts for nothing.                                      *)
(***************************************************************************)
CONSTANTS
    Requests,
    Users,
    Staff,          \* the roles of staff
    Admins          \* the roles of administrators

VARIABLES
    roster,         \* for each user, the role and whether the account is active
    held,           \* what each request has learnt and acts on
    powers,         \* the permissions granted to roles
    desk,           \* what staff write
    published,      \* what staff add and only a super admin removes
    assigned,       \* pairs <<ticket, user>>
    managed,        \* pairs <<advertiser, manager or nobody>>
    removed,        \* the advertisers that are deleted
    own             \* for each user, what the user writes

vars == <<roster, held, powers, desk, published, assigned, managed, removed, own>>

\* A caller with a role, a user who may be assigned work, a manager.
HasRole(u, role) == [fact |-> "role", user |-> u, of |-> role]
IsStaff(u) == [fact |-> "staff", user |-> u, of |-> "any"]
Manages(u, a) == [fact |-> "manager", user |-> u, of |-> a]

Facts ==
    {HasRole(u, roster[u].role) : u \in {u \in Users : roster[u].active}}
      \cup {IsStaff(u) : u \in {u \in Users : roster[u].role \in Staff}}
      \cup {Manages(m[2], m[1]) : m \in managed}

\* The request comes from a user found active with one of the roles.
ActsAs(r, roles) == \E u \in Users, role \in roles : HasRole(u, role) \in held[r]

Init == held = [r \in Requests |-> {}]

\* Requests arrive and end, and learn what is true at that moment.
Learn ==
    /\ \A r \in Requests : held'[r] \subseteq held[r] \cup Facts
    /\ UNCHANGED <<roster, powers, desk, published, assigned, managed, removed, own>>

SetActive(r) ==
    /\ ActsAs(r, Admins)
    /\ \E u \in Users, active \in BOOLEAN :
         roster' = [roster EXCEPT ![u].active = active]
    /\ UNCHANGED <<powers, desk, published, assigned, managed, removed, own>>

ChangeRole(r) ==
    /\ ActsAs(r, {"SUPER_ADMIN"})
    /\ \A u \in Users : roster'[u].active = roster[u].active
    /\ UNCHANGED <<powers, desk, published, assigned, managed, removed, own>>

ChangePowers(r) ==
    /\ ActsAs(r, {"SUPER_ADMIN"})
    /\ UNCHANGED <<roster, desk, published, assigned, managed, removed, own>>

\* Staff write at their desk; they assign work to no one who was not found to
\* be staff, and they unpublish nothing.
Work(r) ==
    /\ ActsAs(r, Staff)
    /\ published \subseteq published'
    /\ \A w \in assigned' \ assigned : IsStaff(w[2]) \in held[r]
    /\ UNCHANGED <<roster, powers, managed, removed, own>>

Withdraw(r) ==
    /\ ActsAs(r, {"SUPER_ADMIN"})
    /\ published' \subseteq published
    /\ UNCHANGED <<roster, powers, assigned, managed, removed, own>>

\* A new advertiser, or a new manager for one: of an advertiser that someone
\* else manages only an administrator may choose it.
Manage(r) ==
    /\ \/ ActsAs(r, Admins)
       \/ /\ ActsAs(r, {"MANAGER"})
          /\ \A m \in managed \ managed' :
               \E u \in Users : {HasRole(u, "MANAGER"), Manages(u, m[1])}
                                   \subseteq held[r]
    /\ UNCHANGED <<roster, powers, desk, published, assigned, removed, own>>

Remove(r) ==
    /\ ActsAs(r, Admins)
    /\ removed \subseteq removed'
    /\ UNCHANGED <<roster, powers, desk, published, assigned, managed, own>>

\* Whatever their role, users write what is theirs and nothing else.
WriteOwn(r) ==
    /\ \E u \in Users :
         /\ \E f \in held[r] : f.fact = "role" /\ f.user = u
         /\ \A other \in Users \ {u} : own'[other] = own[other]
    /\ UNCHANGED <<roster, powers, desk, published, assigned, managed, removed>>

Act(r) ==
    /\ \A q \in Requests : held'[q] \subseteq held[q]
    /\ \/ SetActive(r)
       \/ ChangeRole(r)
       \/ ChangePowers(r)
       \/ Work(r)
       \/ Withdraw(r)
       \/ Manage(r)
       \/ Remove(r)
       \/ WriteOwn(r)

Next == Learn \/ \E r \in Requests : Act(r)

Spec == Init /\ [][Next]_vars

-----------------------------------------------------------------------------
\* No one is a super admin, not even one whose account is off, and no request
\* acts on having been one.
Leaderless ==
    /\ \A u \in Users : roster[u].role # "SUPER_ADMIN"
    /\ \A r \in Requests : ~ActsAs(r, {"SUPER_ADMIN"})

StaysLeaderless ==
    Leaderless =>
        /\ Leaderless'
        /\ \A u \in Users : roster'[u].role = roster[u].role
        /\ powers' = powers
        /\ published \subseteq published'

\* Power comes from a super admin only: without one, no step makes one or
\* changes a role or a permission, or removes what is published.
LeaderlessForGood == [][StaysLeaderless]_vars
===============================================================================
