CONSTANTS
    CampaignIds = {c1}
    Admins = {a1}
    InputStatuses <- MCStatuses
    Dates = {0}
    CapPlans <- MCNoCaps
    ClickReqs = {r1, r2}
    IPs = {ip1, ip2}
    MaxTime = 1
    UniqueWindow = 0
    PostReqs = {p1, p2}
    TxnIds = {t1}
    Absent = Absent
    MaxClickAge = 0
SPECIFICATION FairSpec
INVARIANTS
    FirstClickIsUnique
PROPERTIES
    ClicksEnd
    PostbacksEnd
CHECK_DEADLOCK FALSE
