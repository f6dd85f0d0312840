------------------------------ MODULE MCTracking ------------------------------
EXTENDS Reports, TLC

MCStatuses == {"ACTIVE"}

Cap(type, limit) == [capType |-> type, capLimit |-> limit]

\* A cap of each kind, and a cap that closes the campaign; or no cap.
MCCapPlans == {<<Cap("DAILY", 1), Cap("TOTAL", 1)>>, <<Cap("MONTHLY", 0)>>}

MCNoCaps == {<< >>}

\* Every action treats the members of these sets alike.
MCSymmetry ==
    Permutations(CampaignIds) \cup Permutations(ClickReqs)
        \cup Permutations(PostReqs) \cup Permutations(TxnIds)
==============================================================================
