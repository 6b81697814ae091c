\* Two users, three requests, with and without an authority.
CONSTANTS
    u1 = u1
    u2 = u2
    r1 = r1
    r2 = r2
    r3 = r3
    admin = admin
    Users = {u1, u2}
    Admin = admin
    Requests = {r1, r2, r3}
    CaModes = {TRUE, FALSE}
    AuthEnabled = TRUE
    MaxFaults = 1
    MaxCrashes = 1
SPECIFICATION FairSpec
INVARIANT TypeOK
INVARIANT RegisteredOnce
INVARIANT GatewayOpenWhenQuiet
PROPERTY ConnectsEventually
CHECK_DEADLOCK FALSE
