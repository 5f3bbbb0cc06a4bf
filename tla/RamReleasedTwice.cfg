SPECIFICATION Spec
CONSTANTS
    Tenants = {t1, t2}
    Requests = {r1}
    VMIDs = {v1, v2}
    IPs = {}
    Subdomains = {t1, t2}
    Subdomain <- OwnSubdomain
    RamMB = 2
    Capacities = {4}
    MaxConcurrentJobs = 1
    Faults = {"provision"}
    None = None
INVARIANT
    LiveAccounted
