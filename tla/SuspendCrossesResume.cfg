\* One tenant, two requests; nothing fails and nothing restarts.
SPECIFICATION RecSpec
CONSTANTS
    Tenants = {t1}
    Requests = {r1, r2}
    VMIDs = {v1}
    IPs = {}
    Subdomains = {s1}
    Subdomain <- OneName
    RamMB = 2
    Capacities = {4}
    MaxConcurrentJobs = 1
    Faults = {}
    MaxStarts = 1
    None = None
INVARIANT ContainerFollowsRow
