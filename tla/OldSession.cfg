\* One user who changes the password once, two requests.
SPECIFICATION Spec
CONSTANTS
    Users = {u1}
    Requests = {r1, r2}
    MaxLoginAttempts = 2
    MaxLimiterEntries = 1
    LoginLimitWindow = 1
    AccessTTL = 1
    RefreshTTL = 1
    MaxPairs = 2
    MaxPasswords = 2
    MaxTime = 2
    None = None
INVARIANT ReloginAfterChange
