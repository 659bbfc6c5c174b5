\* A worker and a company to begin with; two requests in flight, four in all.
SPECIFICATION Spec
CONSTANTS
    Users = {u1, u2, u3}
    Companies = {co1, co2}
    Members = {m1, m2}
    Assignments = {a1, a2}
    Usernames = {n1, n2, n3}
    Emails = {e1, e2}
    Names = {x1, x2}
    Standards = {st1}
    FirstWorker = u1
    FirstCompany = co1
    Slots = {s1, s2}
    MaxRequests = 4
    None = None
SYMMETRY Symmetry
INVARIANTS
    TypeOK
    UniqueKeysHold
PROPERTIES
    DuplicatesOnlyByRace
    RetiredOnceUnlessRaced
    FiredStaysOut
