\* Two companies, an administrator and two chargers; three requests.
SPECIFICATION Spec
CONSTANTS
    h1 = h1
    h2 = h2
    co1 = co1
    co2 = co2
    j1 = j1
    j2 = j2
    w1 = w1
    w2 = w2
    Companies = {co1, co2}
    Admins = {admin}
    Chargers = {h1, h2}
    CompanyOf <- MCCompanyOf
    Leaves = {v1}
    Kiosks = {k1, k2}
    Schedules = {e1}
    Boards = {b1}
    Jobs = {j1, j2}
    Journals = {w1, w2}
    Codes = {code}
    Names = {n1}
    Comments = {m1, m2}
    Weekdays = {"MON"}
    Days = {1}
    Texts = {t1, t2}
    Slots = {s1, s2}
    MaxRequests = 3
    None = None
SYMMETRY Symmetry
ACTION_CONSTRAINT ReadsBetweenRequests
INVARIANTS
    TypeOK
    ReadsInScope
    ShapeUnlessRaced
    DecisionsStand
PROPERTIES
    WritesInScope
