\* Two browsers of the admin, two credentials.
SPECIFICATION PkSpec
CONSTANTS
    Clients = {c1, c2}
    Tokens = {k1, k2}
    Creds = {x1, x2}
    Nothing = Nothing
INVARIANT LastCredentialKept
