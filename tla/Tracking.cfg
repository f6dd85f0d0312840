CONSTANTS
    CampaignIds = {c1, c2}
    Admins = {}
    InputStatuses <- MCStatuses
    Dates = {0}
    CapPlans <- MCCapPlans
    ClickReqs = {r1, r2}
    IPs = {ip1}
    MaxTime = 0
    UniqueWindow = 0
    PostReqs = {p1, p2, p3}
    TxnIds = {t1, t2}
    Absent = Absent
    MaxClickAge = 0
SPECIFICATION Spec
SYMMETRY MCSymmetry
INVARIANTS
    TypeOK
    CapCountsMatchConversions
    OneConversionPerTxn
    ConversionMatchesClick
    ClosedCampaignNeverConverts
    AckedConversionIsStored
    BlockFlagMatchesCaps
    InFlightFactsHold
    ReportsShowEachConversionOnce
    ReportsCoverTheirRange
    PagesEndWithTheReport
PROPERTIES
    CapsOnlyCountConversions
    ImplementsLedger
CHECK_DEADLOCK FALSE
