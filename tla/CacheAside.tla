------------------------------ MODULE CacheAside ------------------------------
(***************************************************************************)
(* The Redis cache in front of companies and job standards:                *)
(* app/core/cache.py as app/services/company.py and app/services/job.py    *)
(* use it.  A get looks in the cache, then reads the tables, then sets the *)
(* cache; a change evicts its key and commits afterwards, when             *)
(* get_db_session ends.  Failures of Redis are swallowed.                  *)
(*                                                                         *)
(* The data of a row is abstracted to the number of commits that wrote it  *)
(* (0: no such row).  A job standard is shown with its processes and with  *)
(* the name of its company, so its cached response depends on three rows.  *)
(***************************************************************************)
EXTENDS Naturals, Sequences

CONSTANTS
    Companies,  \* company ids
    Standards,  \* job standard ids
    CompanyOf,  \* the company of a standard
    Requests,   \* slots for requests in flight
    TTL,        \* _CACHE_TTL
    MaxWrites,  \* bound on the changes ever begun
    None        \* the absent value

ASSUME CompanyAssumption ==
    Companies \cap Standards = {} /\ CompanyOf \in [Standards -> Companies]
ASSUME TTLAssumption == TTL \in Nat \ {0}
ASSUME BoundAssumption == MaxWrites \in Nat

Keys == Companies \cup Standards

ASSUME NoneAssumption == None \notin Keys

\* The rows that carry data: of a company or a standard, and the processes of
\* a standard taken together.
Rows == (Keys \X {"columns"}) \cup (Standards \X {"processes"})

Columns(k) == <<k, "columns">>
Processes(s) == <<s, "processes">>

\* The rows a response shows, in the order in which get() reads them.
shows(k) ==
    IF k \in Companies THEN <<Columns(k)>>
    ELSE <<Columns(k), Processes(k), Columns(CompanyOf[k])>>

Shown(k) == {shows(k)[i] : i \in DOMAIN shows(k)}

VARIABLES
    row,    \* the committed rows
    cache,  \* the Redis keys
    req,    \* the requests in flight
    writes  \* how many changes were begun

vars == <<row, cache, req, writes>>

\* raced and missed are history: the entry comes from a get that was in flight
\* together with a change of what it shows; a change of what it shows has
\* committed without having evicted the key.
Entry == [seen : [Rows -> Nat], ttl : 1 .. TTL, raced : BOOLEAN, missed : BOOLEAN]

Ops == {"none", "get", "create", "update", "sync"}

Req == [op : Ops, pc : {"idle", "lookup", "read", "set", "check", "evict", "commit"},
        key : Keys \cup {None}, seen : [Rows -> Nat], n : 0 .. 3,
        evicted : BOOLEAN, raced : BOOLEAN]

Nothing == [x \in Rows |-> 0]

Idle == [op |-> "none", pc |-> "idle", key |-> None, seen |-> Nothing, n |-> 0,
         evicted |-> FALSE, raced |-> FALSE]

Init ==
    /\ row = Nothing
    /\ cache = [k \in Keys |-> None]
    /\ req = [r \in Requests |-> Idle]
    /\ writes = 0

-----------------------------------------------------------------------------
(* Requests.                                                               *)

\* What a change of k writes.
Written(op, k) ==
    CASE op = "create" /\ k \in Standards -> {Columns(k), Processes(k)}
      [] op = "sync"                      -> {Processes(k)}
      [] op \in {"create", "update"}      -> {Columns(k)}
      [] OTHER                            -> {}

Races(p, q) == p.op = "get" /\ q.op # "none" /\ Shown(p.key) \cap Written(q.op, q.key) # {}

Arrive(r, q) ==
    /\ req[r].pc = "idle"
    /\ req' = [x \in Requests |->
           IF x = r THEN [q EXCEPT !.raced = \E y \in Requests : Races(q, req[y])]
           ELSE [req[x] EXCEPT !.raced = @ \/ Races(req[x], q)]]
    /\ UNCHANGED <<row, cache>>

Goto(r, pc) == req' = [req EXCEPT ![r].pc = pc]

End(r) == req' = [req EXCEPT ![r] = Idle]

-----------------------------------------------------------------------------
(* CompanyService.get, JobStandardService.get                              *)

GetArrives(r, k) ==
    /\ Arrive(r, [Idle EXCEPT !.op = "get", !.pc = "lookup", !.key = k])
    /\ UNCHANGED writes

\* get_model: a hit is served; an error counts as a miss.
GetLookup(r, ok) ==
    /\ req[r].pc = "lookup"
    /\ IF ok /\ cache[req[r].key] # None THEN End(r) ELSE Goto(r, "read")
    /\ UNCHANGED <<row, cache, writes>>

\* Mutant: a missing row is cached as well.
GetRead_CachesMissing(r) ==
    LET q == req[r]
        x == shows(q.key)[q.n + 1]
    IN
    /\ q.pc = "read"
    /\ req' = [req EXCEPT ![r].seen[x] = row[x], ![r].n = @ + 1,
                          ![r].pc = IF q.n + 1 = Len(shows(q.key)) THEN "set" ELSE "read"]
    /\ UNCHANGED <<row, cache, writes>>

\* One query after the other.  A missing row is an error and is not cached.
GetRead(r) ==
    LET q == req[r]
        x == shows(q.key)[q.n + 1]
    IN
    /\ q.pc = "read"
    /\ IF row[x] = 0 THEN End(r)
       ELSE req' = [req EXCEPT ![r].seen[x] = row[x], ![r].n = @ + 1,
                               ![r].pc = IF q.n + 1 = Len(shows(q.key)) THEN "set" ELSE "read"]
    /\ UNCHANGED <<row, cache, writes>>

\* Mutant: the key is set without an expiry.
GetSet_NoExpiry(r, ok) ==
    LET q == req[r] IN
    /\ q.pc = "set"
    /\ cache' = IF ok
                THEN [cache EXCEPT ![q.key] = [seen |-> q.seen, ttl |-> 0, raced |-> q.raced,
                                               missed |-> FALSE]]
                ELSE cache
    /\ End(r)
    /\ UNCHANGED <<row, writes>>

\* set_model, whose errors are swallowed.
GetSet(r, ok) ==
    LET q == req[r] IN
    /\ q.pc = "set"
    /\ cache' = IF ok
                THEN [cache EXCEPT ![q.key] = [seen |-> q.seen, ttl |-> TTL, raced |-> q.raced,
                                               missed |-> FALSE]]
                ELSE cache
    /\ End(r)
    /\ UNCHANGED <<row, writes>>

-----------------------------------------------------------------------------
(* create, update and deactivate, sync_processes                           *)

\* An id that is created is fresh.
WriteArrives(r, op, k) ==
    /\ writes < MaxWrites /\ writes' = writes + 1
    /\ op = "sync" => k \in Standards
    /\ op = "create" => /\ row[Columns(k)] = 0
                        /\ \A x \in Requests : req[x].op = "create" => req[x].key # k
    /\ Arrive(r, [Idle EXCEPT !.op = op, !.pc = "check", !.key = k])

\* The row that must be there: the one to change, or the new standard's
\* company.
Required(op, k) ==
    IF op # "create" THEN {k} ELSE IF k \in Standards THEN {CompanyOf[k]} ELSE {}

\* sync_processes and the creation of a company evict nothing.
Evicts(op, k) == op = "update" \/ (op = "create" /\ k \in Standards)

WriteCheck(r) ==
    LET q == req[r] IN
    /\ q.pc = "check"
    /\ IF \E k \in Required(q.op, q.key) : row[Columns(k)] = 0 THEN End(r)
       ELSE Goto(r, IF Evicts(q.op, q.key) THEN "evict" ELSE "commit")
    /\ UNCHANGED <<row, cache, writes>>

\* Mutant: the key is given another name than the one get() uses.
WriteEvict_WrongKey(r, ok) ==
    /\ req[r].pc = "evict"
    /\ req' = [req EXCEPT ![r].pc = "commit", ![r].evicted = ok]
    /\ UNCHANGED <<row, cache, writes>>

\* Mutant: the new data is put in the cache at once.
WriteEvict_WritesThrough(r, ok) ==
    LET q == req[r] IN
    /\ q.pc = "evict"
    /\ cache' = IF ok
                THEN [cache EXCEPT ![q.key] =
                          [seen |-> [x \in Rows |->
                                IF x \in Written(q.op, q.key) THEN row[x] + 1 ELSE row[x]],
                           ttl |-> TTL, raced |-> FALSE, missed |-> FALSE]]
                ELSE cache
    /\ req' = [req EXCEPT ![r].pc = "commit", ![r].evicted = ok]
    /\ UNCHANGED <<row, writes>>

\* evict, whose errors are swallowed.
WriteEvict(r, ok) ==
    /\ req[r].pc = "evict"
    /\ cache' = IF ok THEN [cache EXCEPT ![req[r].key] = None] ELSE cache
    /\ req' = [req EXCEPT ![r].pc = "commit", ![r].evicted = ok]
    /\ UNCHANGED <<row, writes>>

WriteCommit(r) ==
    LET q == req[r]
        W == Written(q.op, q.key)
    IN
    /\ q.pc = "commit"
    /\ row' = [x \in Rows |-> IF x \in W THEN row[x] + 1 ELSE row[x]]
    /\ cache' = [k \in Keys |->
           IF cache[k] # None /\ Shown(k) \cap W # {} /\ ~(q.evicted /\ q.key = k)
           THEN [cache[k] EXCEPT !.missed = TRUE] ELSE cache[k]]
    /\ End(r)
    /\ UNCHANGED writes

-----------------------------------------------------------------------------
\* A request fails, changes nothing or is cut off: it leaves no row behind.
Abort(r) ==
    /\ req[r].pc # "idle"
    /\ End(r)
    /\ UNCHANGED <<row, cache, writes>>

\* Redis counts an expiry down and drops the key at its end; a key without
\* one (ttl 0) stays.
Aged(e) ==
    IF e = None THEN None
    ELSE IF e.ttl = 1 THEN None
    ELSE IF e.ttl = 0 THEN e
    ELSE [e EXCEPT !.ttl = @ - 1]

Tick ==
    /\ cache' = [k \in Keys |-> Aged(cache[k])]
    /\ UNCHANGED <<row, req, writes>>

-----------------------------------------------------------------------------
Advance(r) ==
    \/ \E ok \in BOOLEAN : GetLookup(r, ok) \/ GetSet(r, ok) \/ WriteEvict(r, ok)
    \/ GetRead(r) \/ WriteCheck(r) \/ WriteCommit(r)

Arrivals(r) ==
    \E k \in Keys : GetArrives(r, k) \/ \E op \in {"create", "update", "sync"} : WriteArrives(r, op, k)

Next == Tick \/ \E r \in Requests : Advance(r) \/ Arrivals(r) \/ Abort(r)

Spec == Init /\ [][Next]_vars

\* Time passes in Redis, and a request that is being served goes on.
FairSpec == Spec /\ WF_vars(Tick) /\ \A r \in Requests : WF_vars(Advance(r))

-----------------------------------------------------------------------------
(* Properties.                                                             *)

Stale(k) == \E x \in Shown(k) : cache[k].seen[x] # row[x]

\* The type invariant; a cached response shows rows that exist, and only its
\* own.
TypeOK ==
    /\ row \in [Rows -> Nat]
    /\ cache \in [Keys -> Entry \cup {None}]
    /\ \A k \in Keys : cache[k] # None => Shown(k) = {x \in Rows : cache[k].seen[x] > 0}
    /\ req \in [Requests -> Req]
    /\ writes \in 0 .. MaxWrites

\* The cache never shows what is not committed: with the eviction ahead of
\* the commit, a change that is rolled back afterwards has left no trace.
CacheShowsCommitted ==
    \A k \in Keys : cache[k] # None => \A x \in Shown(k) : cache[k].seen[x] <= row[x]

\* A stale entry has one of two causes: the get that set it was in flight
\* together with a change of what it shows, or that change did not evict it
\* (sync_processes, the renaming of a standard's company, a lost DEL).
StaleOnlyByRaceOrMiss ==
    \A k \in Keys : cache[k] # None /\ Stale(k) => cache[k].raced \/ cache[k].missed

\* Whatever races, however many evictions are lost: once the changes cease,
\* the cache becomes and stays up to date.
EventuallyFresh == <>[](\A k \in Keys : cache[k] # None => ~Stale(k))

=============================================================================
