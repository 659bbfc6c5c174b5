\* Rotation and logout of one account: three requests in flight, clock 0..2.
SPECIFICATION Spec
CONSTANTS
    Users = {u1}
    SeedUsers = {u1}
    Passwords = {p1}
    SeedPassword = p1
    Requests = {r1, r2, r3}
    Endpoints = {"login", "refresh", "logout"}
    AccessTTL = 1
    RefreshTTL = 2
    MaxTime = 2
    ReadOnly = FALSE
    None = None
SYMMETRY Symmetry
INVARIANTS
    TypeOK
    LiveTokenAccounted
    ReuseRefused
