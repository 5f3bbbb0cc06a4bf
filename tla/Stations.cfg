SPECIFICATION MCSpec
CONSTANTS
    Tenants = {t1, t2}
    IPs = {i1, i2}
    AllowedIPs = {i1}
    Slugs = {s1, s2}
    SubdomainOf <- OneSubdomain
    MaxStations <- LimitOne
    MaxCreates = 2
    None = None
    OneTenant = t1
    OneSlug = s1
    ScanLimit = 3
    MaxRows = 4
    Names = {1, 2}
    Counts = {0, 1, 2}
    Limits = {1, 2, 3}
INVARIANTS
    TypeOK
    OwnStatus
    StationLimit
    PagesHonest
PROPERTY
    OnlineFollows
