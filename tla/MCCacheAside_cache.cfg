\* Two requests and four changes of a company and its standard.
SPECIFICATION FairSpec
CONSTANTS
    Companies = {c1}
    Standards = {s1}
    CompanyOf <- MCCompanyOf
    Requests = {r1, r2}
    TTL = 2
    MaxWrites = 4
    None = None
INVARIANTS
    TypeOK
    CacheShowsCommitted
    StaleOnlyByRaceOrMiss
PROPERTIES
    EventuallyFresh
