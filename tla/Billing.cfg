CONSTANTS
    Subs = {s1}
    Users = {u1}
    Invoices = {i1}
    Statuses <- MCStatuses
    None = None
    MaxEvents = 2
    MaxSecond = 1
    Prices = {p1, p2}
    MaxPlans = 1
    PriceOf <- MCPriceOf
    Deliveries <- MCDeliveries
    MaxFaults = 1
SPECIFICATION FairSpec
INVARIANTS
    TypeOK
    AcknowledgedIsRecorded
    RowsShowStripeStates
    InvoicesFollowStripe
PROPERTIES
    BegunDeliveriesSucceed
CHECK_DEADLOCK FALSE
