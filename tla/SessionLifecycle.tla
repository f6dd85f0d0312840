--------------------------- MODULE SessionLifecycle ---------------------------
(***************************************************************************)
(* What the owner of an account may rely on: a session is opened once, for *)
(* one user, and a session that has ended is never open again.             *)
(***************************************************************************)
CONSTANTS
    Sessions,   \* session ids, drawn at random by the requests that open them
    Users

VARIABLES
    open,       \* the open sessions: [id, owner] records
    spent       \* ids that cannot be opened any more

Ids(entries) == {e.id : e \in entries}

Init == open = {} /\ spent = {}

Start(id, owner) ==
    /\ id \notin spent \cup Ids(open)
    /\ open' = open \cup {[id |-> id, owner |-> owner]}
    /\ UNCHANGED spent

\* Sessions end, several at once when time passes or a server stops, and ids
\* that were to be opened may be given up unused.
End ==
    /\ open' \subseteq open
    /\ spent \cup (Ids(open) \ Ids(open')) \subseteq spent'
    /\ spent' \subseteq Sessions \ Ids(open')

Next == (\E id \in Sessions, owner \in Users : Start(id, owner)) \/ End

Spec == Init /\ [][Next]_<<open, spent>>
===============================================================================
