--------------------------- MODULE ConversionLedger ---------------------------
(***************************************************************************)
(* What the postback endpoint owes an affiliate network: a transaction id  *)
(* is booked at most once, an entry once booked stays as it is, and a      *)
(* postback that is acknowledged is told the entry of its transaction,     *)
(* once and for good.  A postback may also go unacknowledged.              *)
(***************************************************************************)
CONSTANTS
    Postbacks,  \* the requests, which also name the bookings they make
    Txns,       \* transaction ids
    Untold      \* no entry

VARIABLES
    entries,    \* the bookings: [id, txn] records
    told        \* for each postback, the entry it was told, or Untold

Entry == [id : Postbacks, txn : Txns]

Init == entries = {} /\ told = [p \in Postbacks |-> Untold]

Book(e) ==
    /\ \A f \in entries : f.txn # e.txn /\ f.id # e.id
    /\ entries' = entries \cup {e}
    /\ UNCHANGED told

Tell(p, e) ==
    /\ told[p] = Untold
    /\ told' = [told EXCEPT ![p] = e]
    /\ UNCHANGED entries

Next ==
    \/ \E e \in Entry : Book(e)
    \/ \E p \in Postbacks, e \in entries : Tell(p, e)

Spec == Init /\ [][Next]_<<entries, told>>
==============================================================================
