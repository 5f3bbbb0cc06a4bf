SPECIFICATION Spec
CONSTANTS
    Tenants = {t1, t2}
    Requests = {r1, r2}
    VMIDs = {v1, v2}
    IPs = {}
    Subdomains = {t1, t2}
    Subdomain <- OwnSubdomain
    RamMB = 2
    Capacities = {4}
    MaxConcurrentJobs = 2
    Faults = {"provision", "request", "db", "ctx", "crash"}
    None = None
SYMMETRY Symmetry
INVARIANTS
    TypeOK
    UniqueDeleter
    ContainerRamReleasedOnce
    LiveAccountedUnlessOverReleased
    LiveHasOwnContainer
