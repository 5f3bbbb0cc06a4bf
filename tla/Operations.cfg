SPECIFICATION MCSpec
\* Auth: two users and a map of one entry, or one user with three pairs of tokens.
CONSTANTS
    Users = {u1, u2}
    Requests = {r1, r2}
    MaxLoginAttempts = 2
    MaxLimiterEntries = 1
    LoginLimitWindow = 1
    AccessTTL = 1
    RefreshTTL = 1
    MaxPairs = 3
    MaxPasswords = 2
    MaxTime = 2
    None = None
\* Passkeys: two browsers of the admin.
CONSTANTS
    Clients = {c1, c2}
    Tokens = {k1, k2, k3}
    Creds = {x1, x2, x3}
    Nothing = Nothing
\* Catalogue: one node with two projects and two tenants.
CONSTANTS
    Nodes = {n1}
    Projects = {1, 2}
    Tenants = {u1, u2}
    Ops = {r1, r2}
    NodeStatuses = {"active", "maintenance"}
    URLs = {l1, l2}
    ApiTokens = {a1, a2}
    OneURL = l1
    OneToken = a1
    Totals = {2, 3}
    RamValues = {0, 1, 2}
    MaxEdits = 2
    Absent = Absent
    Gone = Gone
\* WireGuard: two peers.
CONSTANTS
    Keys = {u1, u2}
    PeerRequests = {r1, r2}
    NoPeer = NoPeer
\* IPAlloc: every block of a space of 8 addresses.
CONSTANTS
    SpaceSize = 8
    BlockSizes = {1, 2, 4, 8}
SYMMETRY Symmetry
INVARIANTS
    TypeOK
    LimiterBounded
    LoggedOutStaysOut
    ReloginIfRevoked
    PkTypeOK
    AnonymousOnce
    CatTypeOK
    CachedClientFresh
    ReservationsMatch
    NoOrphans
    WgTypeOK
    InterfaceFollowsTable
    NextCorrect
PROPERTY
    OneTimeUse
CHECK_DEADLOCK FALSE
