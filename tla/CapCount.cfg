CONSTANTS
    CampaignIds = {c1}
    Admins = {}
    InputStatuses <- MCStatuses
    Dates = {0}
    CapPlans <- MCCapPlans
    ClickReqs = {r1, r2}
    IPs = {ip1}
    MaxTime = 0
    UniqueWindow = 0
    PostReqs = {p1, p2}
    TxnIds = {t1}
    Absent = Absent
    MaxClickAge = 0
SPECIFICATION Spec
PROPERTY BlockFlagComparesCounts
CHECK_DEADLOCK FALSE
