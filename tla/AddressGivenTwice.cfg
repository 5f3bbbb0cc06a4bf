SPECIFICATION Spec
CONSTANTS
    Tenants = {t1, t2}
    Requests = {r1}
    VMIDs = {v1, v2}
    IPs = {i1, i2}
    Subdomains = {t1, t2}
    Subdomain <- OwnSubdomain
    RamMB = 2
    Capacities = {4}
    MaxConcurrentJobs = 2
    Faults = {}
    None = None
INVARIANT
    DistinctIPs
