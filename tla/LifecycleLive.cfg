SPECIFICATION FairSpec
CONSTANTS
    Tenants = {t1, t2}
    Requests = {r1}
    VMIDs = {v1, v2}
    IPs = {i1}
    Subdomains = {t1, t2}
    Subdomain <- OwnSubdomain
    RamMB = 2
    Capacities = {3, 4}
    MaxConcurrentJobs = 1
    Faults = {"provision", "request", "late", "caddy", "panic"}
    None = None
INVARIANTS
    WithinCapacity
    SlotsAccounted
PROPERTIES
    StatusMachine
    StatusSettles
