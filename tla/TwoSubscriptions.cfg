CONSTANTS
    Subs = {s1, s2}
    Users = {u1}
    Invoices = {i1}
    Statuses <- MCStatuses
    None = None
    MaxEvents = 2
    MaxSecond = 0
    Prices = {p1}
    MaxPlans = 1
    PriceOf <- MCPriceOf
    Deliveries <- MCDeliveries
    MaxFaults = 0
SPECIFICATION Spec
INVARIANT
    OneLiveSubscription
CHECK_DEADLOCK FALSE
