SPECIFICATION RecSpec
CONSTANTS
    Tenants = {t1, t2}
    Requests = {r1, r2}
    VMIDs = {v1, v2}
    IPs = {i1, i2}
    Subdomains = {s1}
    Subdomain <- OneName
    RamMB = 2
    Capacities = {4}
    MaxConcurrentJobs = 1
    Faults = {"provision", "request", "reconcile", "crash"}
    MaxStarts = 2
    None = None
SYMMETRY RecSymmetry
INVARIANTS
    RecTypeOK
    RowMatchesContainer
    ActiveIsRouted
    NoStrayRoutes
