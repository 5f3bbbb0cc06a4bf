\* Events reordered, repeated and side by side, and a failing store.
SPECIFICATION MCSpec
CONSTANTS
    Users = {u1, u2}
    Customers = {c1, c2}
    Deliveries = {d1, d2}
    PaidTiers = {"pro", "studio"}
    MaxRows = 3
    MaxEvents = 3
    None = None
INVARIANTS TypeOK PaidForTier WithinTierLimit ReplaysConverge
SYMMETRY Symmetry
CHECK_DEADLOCK FALSE
