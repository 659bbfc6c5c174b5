\* One account from its signup on: password changes, disabling, orphan pairs.
SPECIFICATION Spec
CONSTANTS
    Users = {u1}
    SeedUsers = {}
    Passwords = {p1, p2}
    SeedPassword = p1
    Requests = {r1, r2}
    Endpoints = {"login", "refresh", "change_password", "set_enabled", "signup"}
    AccessTTL = 1
    RefreshTTL = 2
    MaxTime = 1
    ReadOnly = FALSE
    None = None
SYMMETRY Symmetry
INVARIANTS
    StaleSessionOnlyByRace
    DisabledCutOff
PROPERTIES
    NoPairWithoutRow
