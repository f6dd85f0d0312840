CONSTANTS
    Reqs = {r1, r2, r3}
    Emails = {u1}
    Seeded = {}
    Operator = Operator
    Never = Never
    TTL = 0
    Retention = 0
    MaxTime = 1
SPECIFICATION Spec
INVARIANT ReuseRevokesFamily
CHECK_DEADLOCK FALSE
