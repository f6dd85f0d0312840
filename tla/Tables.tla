-------------------------------- MODULE Tables --------------------------------
(***************************************************************************)
(* Tables as functions from the keys that are stored to their rows.        *)
(***************************************************************************)

\* The row is stored under the key, which may be there already.
Insert(table, key, row) ==
    [k \in DOMAIN table \cup {key} |-> IF k = key THEN row ELSE table[k]]

Empty == << >>

\* A table keeps its type when a row of that type is inserted.
LEMMA InsertType ==
    ASSUME NEW K, NEW R, NEW table, NEW k \in K, NEW row \in R,
           DOMAIN table \subseteq K, table \in [DOMAIN table -> R]
    PROVE  /\ DOMAIN Insert(table, k, row) = DOMAIN table \cup {k}
           /\ DOMAIN Insert(table, k, row) \subseteq K
           /\ Insert(table, k, row) \in [DOMAIN Insert(table, k, row) -> R]
  BY DEF Insert
===============================================================================
