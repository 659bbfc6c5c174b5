\* Two caregivers and an administrator; two requests in flight.
SPECIFICATION Spec
CONSTANTS
    admin = admin
    c1 = c1
    c2 = c2
    Actors = {admin, c1, c2}
    Role <- MCRole
    Workers = {w1}
    Relations = {r1, r2}
    Docs = {d1, d2}
    MaxBytes = 1
    Uploads <- MCUploads
    Slots = {s1, s2}
    None = None
SYMMETRY Symmetry
INVARIANTS
    TypeOK
    NoDanglingRow
    FilesExplained
    DownloadsLogged
PROPERTIES
    HandedToOwner
