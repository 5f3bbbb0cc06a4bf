\* One subscription of one user, deliveries one at a time, the first ones in order.
SPECIFICATION MCSpec
CONSTANTS
    Users = {u1}
    Customers = {c1}
    Deliveries = {d1}
    PaidTiers = {"pro"}
    MaxRows = 1
    MaxEvents = 3
    None = None
INVARIANT TierSettled
CHECK_DEADLOCK FALSE
