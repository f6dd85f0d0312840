CONSTANTS
    Reqs = {r1, r2, r3}
    Emails = {u1}
    Seeded = {}
    Operator = Operator
    Never = Never
    TTL = 1
    Retention = 0
    MaxTime = 2
SPECIFICATION FairSpec
INVARIANTS
    TypeOK
    SpentBeforeExchanged
    TokensTraceToALogin
PROPERTIES
    TokensOnlyDie
    ImplementsLifecycle
    RequestsEnd
    ExpiredRowsAreRemoved
CHECK_DEADLOCK FALSE
