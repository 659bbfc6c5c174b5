--------------------------- MODULE CacheAsideProofs ---------------------------
(***************************************************************************)
(* Proofs about CacheAside, for every set of companies, standards and      *)
(* request slots, every expiry and every bound on the changes; and, in the *)
(* second half, about JobProcesses, for every number of processes and      *)
(* every list.  Both are about sync_processes: what of a standard the      *)
(* cache shows, and what of the list reaches the table.                    *)
(***************************************************************************)
EXTENDS CacheAside, JobProcesses, FiniteSetTheorems, TLAPS

-----------------------------------------------------------------------------
(* Operators: what a response shows and what a change writes.              *)

\* A company's response shows its row; a standard's shows three.
LEMMA ShowsFacts ==
    ASSUME NEW k \in Keys
    PROVE  /\ Len(shows(k)) \in 1 .. 3 /\ DOMAIN shows(k) = 1 .. Len(shows(k))
           /\ \A i \in 1 .. Len(shows(k)) : shows(k)[i] \in Rows
           /\ Shown(k) = {shows(k)[i] : i \in 1 .. Len(shows(k))}
           /\ Columns(k) \in Shown(k) /\ Shown(k) \subseteq Rows
           /\ k \in Standards => Processes(k) \in Shown(k)
<1>1. CASE k \in Companies
  <2>1. shows(k) = <<Columns(k)>> /\ Columns(k) \in Rows /\ k \notin Standards
    BY <1>1, CompanyAssumption DEF shows, Columns, Rows, Keys
  <2> QED BY <2>1 DEF Shown
<1>2. CASE k \in Standards
  <2>1. /\ shows(k) = <<Columns(k), Processes(k), Columns(CompanyOf[k])>>
        /\ Columns(k) \in Rows /\ Processes(k) \in Rows /\ Columns(CompanyOf[k]) \in Rows
    BY <1>2, CompanyAssumption DEF shows, Columns, Processes, Rows, Keys
  <2> HIDE DEF shows
  <2>2. Len(shows(k)) = 3 /\ DOMAIN shows(k) = 1 .. 3
    BY <2>1
  <2>3. shows(k)[1] = Columns(k) /\ shows(k)[2] = Processes(k) /\ shows(k)[3] = Columns(CompanyOf[k])
    BY <2>1
  <2> QED BY <2>1, <2>2, <2>3 DEF Shown
<1> QED BY <1>1, <1>2 DEF Keys

\* A change writes something that the response of its key shows.
LEMMA WritesShown ==
    ASSUME NEW op \in {"create", "update", "sync"}, NEW k \in Keys, op = "sync" => k \in Standards
    PROVE  Shown(k) \cap Written(op, k) # {}
<1>1. Columns(k) \in Shown(k) /\ (k \in Standards => Processes(k) \in Shown(k))
  BY ShowsFacts
<1>2. CASE op = "create" /\ k \in Standards
  BY <1>1, <1>2 DEF Written
<1>3. CASE op = "sync"
  BY <1>1, <1>3 DEF Written
<1>4. CASE op = "update" \/ (op = "create" /\ k \notin Standards)
  BY <1>1, <1>4 DEF Written
<1> QED BY <1>2, <1>3, <1>4

-----------------------------------------------------------------------------
(* Types.                                                                  *)

Changing(q) == q.op \in {"create", "update", "sync"}

\* Which locals a request has assigned by the time it waits at q.pc.  A get
\* has seen the first n rows that its response shows, and no others.
WellFormed(q) ==
    /\ q.op = "none" => q.pc = "idle"
    /\ q.op # "none" => q.key \in Keys
    /\ q.op = "get" => /\ q.pc \in {"lookup", "read", "set"} /\ q.n <= Len(shows(q.key))
                       /\ {x \in Rows : q.seen[x] > 0} = {shows(q.key)[i] : i \in 1 .. q.n}
    /\ q.op = "get" /\ q.pc = "lookup" => q.n = 0
    /\ q.op = "get" /\ q.pc = "read" => q.n < Len(shows(q.key))
    /\ q.op = "get" /\ q.pc = "set" => q.n = Len(shows(q.key))
    /\ Changing(q) => q.pc \in {"check", "evict", "commit"}
    /\ q.op = "sync" => q.key \in Standards
    /\ q.evicted => Changing(q)

RequestsTyped == \A r \in Requests : WellFormed(req[r])

Typed == TypeOK /\ RequestsTyped

\* The locals a slot starts with.
LEMMA IdleTyped == Idle \in Req /\ WellFormed(Idle) /\ Nothing \in [Rows -> Nat]
  BY DEF Idle, Nothing, Req, WellFormed, Ops, Changing

\* The locals a get starts with.
LEMMA GetTyped ==
    ASSUME NEW k \in Keys
    PROVE  LET q == [Idle EXCEPT !.op = "get", !.pc = "lookup", !.key = k]
           IN  q \in Req /\ WellFormed(q) /\ q.seen = Nothing /\ ~q.evicted
<1> DEFINE q == [Idle EXCEPT !.op = "get", !.pc = "lookup", !.key = k]
<1>1. q \in Req /\ q.seen = Nothing /\ q.n = 0 /\ q.op = "get" /\ q.pc = "lookup"
      /\ q.key = k /\ ~q.evicted
  BY IdleTyped DEF Idle, Req, Ops
<1>2. {x \in Rows : Nothing[x] > 0} = {} /\ {shows(k)[i] : i \in 1 .. 0} = {}
  BY DEF Nothing
<1> HIDE DEF q
<1>3. WellFormed(q)
  BY <1>1, <1>2, ShowsFacts DEF WellFormed, Changing
<1> QED BY <1>1, <1>3 DEF q

\* The locals a change starts with.
LEMMA WriteTyped ==
    ASSUME NEW k \in Keys, NEW op \in {"create", "update", "sync"}, op = "sync" => k \in Standards
    PROVE  LET q == [Idle EXCEPT !.op = op, !.pc = "check", !.key = k]
           IN  q \in Req /\ WellFormed(q) /\ q.seen = Nothing /\ ~q.evicted
  BY IdleTyped DEF Idle, Req, Ops, WellFormed, Changing

\* A step that changes the locals of one slot.
LEMMA SlotTyped ==
    ASSUME NEW r \in Requests, NEW q \in Req, WellFormed(q), Typed, req' = [req EXCEPT ![r] = q]
    PROVE  req' \in [Requests -> Req] /\ RequestsTyped'
  BY DEF Typed, TypeOK, RequestsTyped

\* An arrival changes the history field of the others only.
LEMMA ArriveTyped ==
    ASSUME NEW r \in Requests, NEW q \in Req, WellFormed(q), Typed, Arrive(r, q)
    PROVE  /\ req' \in [Requests -> Req] /\ RequestsTyped'
           /\ req[r].op = "none" 
           /\ \A x \in Requests \ {r} :
                  /\ req'[x].op = req[x].op /\ req'[x].pc = req[x].pc /\ req'[x].key = req[x].key
                  /\ req'[x].seen = req[x].seen /\ req'[x].n = req[x].n
                  /\ req'[x].evicted = req[x].evicted
                  /\ req'[x].raced = (req[x].raced \/ Races(req[x], q))
           /\ req'[r].op = q.op /\ req'[r].pc = q.pc /\ req'[r].key = q.key
           /\ req'[r].seen = q.seen /\ req'[r].n = q.n /\ req'[r].evicted = q.evicted
           /\ req'[r].raced = \E y \in Requests : Races(q, req[y])
<1> DEFINE own == \E y \in Requests : Races(q, req[y])
           met(x) == req[x].raced \/ Races(req[x], q)
<1>1. /\ req[r].pc = "idle"
      /\ req' = [x \in Requests |-> IF x = r THEN [q EXCEPT !.raced = own]
                                    ELSE [req[x] EXCEPT !.raced = met(x)]]
  BY DEF Arrive
<1>2. own \in BOOLEAN /\ \A x \in Requests : met(x) \in BOOLEAN
  BY DEF Typed, TypeOK, Req, Races
<1>3. \A x \in Requests : req[x] \in Req /\ WellFormed(req[x])
  BY DEF Typed, TypeOK, RequestsTyped
<1> HIDE DEF own, met
<1>4. ASSUME NEW p \in Req, WellFormed(p), NEW b \in BOOLEAN
      PROVE  [p EXCEPT !.raced = b] \in Req /\ WellFormed([p EXCEPT !.raced = b])
  BY <1>4 DEF Req, WellFormed, Changing
<1>5. req' \in [Requests -> Req] /\ RequestsTyped'
  <2>1. \A x \in Requests : req'[x] \in Req /\ WellFormed(req'[x])
    BY <1>1, <1>2, <1>3, <1>4
  <2> QED BY <1>1, <2>1 DEF RequestsTyped
<1>6. req[r].op = "none"
  BY <1>1, <1>3 DEF WellFormed, Req, Ops, Changing
<1>7. \A x \in Requests \ {r} :
          /\ req'[x].op = req[x].op /\ req'[x].pc = req[x].pc /\ req'[x].key = req[x].key
          /\ req'[x].seen = req[x].seen /\ req'[x].n = req[x].n
          /\ req'[x].evicted = req[x].evicted /\ req'[x].raced = met(x)
  BY <1>1, <1>3 DEF Req
<1>8. /\ req'[r].op = q.op /\ req'[r].pc = q.pc /\ req'[r].key = q.key
      /\ req'[r].seen = q.seen /\ req'[r].n = q.n /\ req'[r].evicted = q.evicted
      /\ req'[r].raced = own
  BY <1>1 DEF Req
<1> QED BY <1>5, <1>6, <1>7, <1>8 DEF own, met

\* Every step preserves the types.
LEMMA TypeStep == Typed /\ [Next]_vars => Typed'
<1> SUFFICES ASSUME Typed, [Next]_vars PROVE Typed'
  OBVIOUS
<1> USE TTLAssumption, BoundAssumption, NoneAssumption
<1>r. \A r \in Requests : req[r] \in Req /\ WellFormed(req[r])
  BY DEF Typed, TypeOK, RequestsTyped
<1>e. ASSUME NEW r \in Requests, End(r) PROVE req' \in [Requests -> Req] /\ RequestsTyped'
  BY <1>e, IdleTyped, SlotTyped DEF End
<1>1. CASE Tick
  <2>1. ASSUME NEW k \in Keys
        PROVE  /\ cache'[k] \in Entry \cup {None}
               /\ cache'[k] # None => cache[k] # None /\ cache'[k].seen = cache[k].seen
    BY <1>1, <2>1 DEF Tick, Aged, Typed, TypeOK, Entry
  <2> QED BY <1>1, <2>1 DEF Tick, Typed, TypeOK, RequestsTyped
<1>2. ASSUME NEW r \in Requests, NEW ok \in BOOLEAN, GetLookup(r, ok) PROVE Typed'
  <2> DEFINE q == [req[r] EXCEPT !.pc = "read"]
  <2>1. req[r].op = "get" /\ req[r].key \in Keys
    BY <1>2, <1>r DEF GetLookup, WellFormed, Changing, Req, Ops
  <2>2. q \in Req /\ WellFormed(q)
    BY <1>2, <1>r, <2>1, ShowsFacts DEF GetLookup, WellFormed, Changing, Req
  <2>3. End(r) \/ req' = [req EXCEPT ![r] = q]
    BY <1>2 DEF GetLookup, Goto, Typed, TypeOK
  <2> QED BY <1>2, <1>e, <2>2, <2>3, SlotTyped DEF GetLookup, Typed, TypeOK
<1>3. ASSUME NEW r \in Requests, GetRead(r) PROVE Typed'
  <2> DEFINE k == req[r].key
             x == shows(k)[req[r].n + 1]
             seen == [req[r].seen EXCEPT ![x] = row[x]]
             pc == IF req[r].n + 1 = Len(shows(k)) THEN "set" ELSE "read"
             q == [req[r] EXCEPT !.seen = seen, !.n = req[r].n + 1, !.pc = pc]
  <2>1. req[r].op = "get" /\ k \in Keys /\ req[r].n \in 0 .. 3 /\ req[r].n < Len(shows(k))
    BY <1>3, <1>r DEF GetRead, WellFormed, Changing, Req, Ops
  <2>2. Len(shows(k)) \in 1 .. 3 /\ x \in Rows
    BY <2>1, ShowsFacts
  <2>3. CASE row[x] = 0
    BY <1>3, <1>e, <2>3 DEF GetRead, Typed, TypeOK
  <2>4. CASE row[x] # 0
    <3>1. row[x] \in Nat /\ row[x] > 0
      BY <2>2, <2>4 DEF Typed, TypeOK
    <3>2. req[r].seen \in [Rows -> Nat]
      BY <1>r DEF Req
    <3>3. q \in Req
      <4>1. seen \in [Rows -> Nat] /\ req[r].n + 1 \in 0 .. 3 /\ pc \in {"set", "read"}
        BY <2>1, <2>2, <3>1, <3>2
      <4> HIDE DEF seen, pc
      <4> QED BY <1>r, <4>1 DEF Req
    <3>4. {y \in Rows : seen[y] > 0} = {y \in Rows : req[r].seen[y] > 0} \cup {x}
      BY <2>2, <3>1, <3>2
    <3>5. {shows(k)[i] : i \in 1 .. req[r].n + 1} = {shows(k)[i] : i \in 1 .. req[r].n} \cup {x}
      BY <2>1, <2>2
    <3>6. /\ {y \in Rows : req[r].seen[y] > 0} = {shows(k)[i] : i \in 1 .. req[r].n}
          /\ q.op = "get" /\ q.key = k /\ q.n = req[r].n + 1 /\ q.seen = seen /\ q.evicted = req[r].evicted
          /\ q.pc = IF req[r].n + 1 = Len(shows(k)) THEN "set" ELSE "read"
      BY <1>r, <2>1 DEF Req, WellFormed
    <3>7. req' = [req EXCEPT ![r] = q]
      BY <1>3, <2>4 DEF GetRead, Typed, TypeOK
    <3> HIDE DEF q, seen
    <3>8. WellFormed(q)
      BY <1>r, <2>1, <2>2, <3>4, <3>5, <3>6 DEF WellFormed, Changing
    <3>9. UNCHANGED <<row, cache, writes>>
      BY <1>3 DEF GetRead
    <3> QED BY <3>3, <3>7, <3>8, <3>9, SlotTyped DEF Typed, TypeOK
  <2> QED BY <2>3, <2>4
<1>4. ASSUME NEW r \in Requests, NEW ok \in BOOLEAN, GetSet(r, ok) PROVE Typed'
  <2> DEFINE e == [seen |-> req[r].seen, ttl |-> TTL, raced |-> req[r].raced, missed |-> FALSE]
  <2>1. /\ req[r].op = "get" /\ req[r].key \in Keys
        /\ {x \in Rows : req[r].seen[x] > 0} = {shows(req[r].key)[i] : i \in 1 .. Len(shows(req[r].key))}
    BY <1>4, <1>r DEF GetSet, WellFormed, Changing, Req, Ops
  <2>2. Shown(req[r].key) = {x \in Rows : e.seen[x] > 0}
    BY <2>1, ShowsFacts
  <2>3. e \in Entry
    BY <1>r DEF Entry, Req
  <2>4. cache' = cache \/ cache' = [cache EXCEPT ![req[r].key] = e]
    BY <1>4 DEF GetSet
  <2> QED BY <1>4, <1>e, <2>1, <2>2, <2>3, <2>4 DEF GetSet, Typed, TypeOK
<1>5. ASSUME NEW r \in Requests, WriteCheck(r) PROVE Typed'
  <2> DEFINE pc == IF Evicts(req[r].op, req[r].key) THEN "evict" ELSE "commit"
             q == [req[r] EXCEPT !.pc = pc]
  <2>1. q \in Req /\ WellFormed(q)
    BY <1>5, <1>r DEF WriteCheck, WellFormed, Changing, Req, Ops
  <2>2. End(r) \/ req' = [req EXCEPT ![r] = q]
    BY <1>5 DEF WriteCheck, Goto, Typed, TypeOK
  <2> QED BY <1>5, <1>e, <2>1, <2>2, SlotTyped DEF WriteCheck, Typed, TypeOK
<1>6. ASSUME NEW r \in Requests, NEW ok \in BOOLEAN, WriteEvict(r, ok) PROVE Typed'
  <2> DEFINE q == [req[r] EXCEPT !.pc = "commit", !.evicted = ok]
  <2>1. q \in Req /\ WellFormed(q)
    BY <1>6, <1>r DEF WriteEvict, WellFormed, Changing, Req, Ops
  <2>2. req' = [req EXCEPT ![r] = q]
    BY <1>6 DEF WriteEvict, Typed, TypeOK
  <2> QED BY <1>6, <2>1, <2>2, SlotTyped DEF WriteEvict, Typed, TypeOK
<1>7. ASSUME NEW r \in Requests, WriteCommit(r) PROVE Typed'
  <2>1. row' \in [Rows -> Nat]
    BY <1>7 DEF WriteCommit, Typed, TypeOK
  <2>2. ASSUME NEW k \in Keys
        PROVE  /\ cache'[k] \in Entry \cup {None}
               /\ cache'[k] # None => cache[k] # None /\ cache'[k].seen = cache[k].seen
    BY <1>7, <2>2 DEF WriteCommit, Typed, TypeOK, Entry
  <2> QED BY <1>7, <1>e, <2>1, <2>2 DEF WriteCommit, Typed, TypeOK
<1>8. ASSUME NEW r \in Requests, Abort(r) PROVE Typed'
  BY <1>8, <1>e DEF Abort, Typed, TypeOK
<1>9. ASSUME NEW r \in Requests, NEW k \in Keys, GetArrives(r, k) PROVE Typed'
  <2> DEFINE q == [Idle EXCEPT !.op = "get", !.pc = "lookup", !.key = k]
  <2>1. q \in Req /\ WellFormed(q)
    BY GetTyped
  <2>2. Arrive(r, q) /\ UNCHANGED writes
    BY <1>9 DEF GetArrives
  <2> HIDE DEF q
  <2>3. UNCHANGED <<row, cache>>
    BY <2>2 DEF Arrive
  <2> QED BY <2>1, <2>2, <2>3, ArriveTyped DEF Typed, TypeOK
<1>10. ASSUME NEW r \in Requests, NEW k \in Keys, NEW op \in {"create", "update", "sync"},
              WriteArrives(r, op, k)
       PROVE  Typed'
  <2> DEFINE q == [Idle EXCEPT !.op = op, !.pc = "check", !.key = k]
  <2>1. q \in Req /\ WellFormed(q)
    BY <1>10, WriteTyped DEF WriteArrives
  <2>2. Arrive(r, q) /\ writes < MaxWrites /\ writes' = writes + 1
    BY <1>10 DEF WriteArrives
  <2> HIDE DEF q
  <2>3. UNCHANGED <<row, cache>> /\ writes' \in 0 .. MaxWrites
    BY <2>2 DEF Arrive, Typed, TypeOK
  <2>4. req' \in [Requests -> Req] /\ RequestsTyped'
    BY <2>1, <2>2, ArriveTyped
  <2> QED BY <2>3, <2>4 DEF Typed, TypeOK
<1>11. CASE UNCHANGED vars
  BY <1>11 DEF vars, Typed, TypeOK, RequestsTyped
<1> QED BY <1>1, <1>2, <1>3, <1>4, <1>5, <1>6, <1>7, <1>8, <1>9, <1>10, <1>11
        DEF Next, Advance, Arrivals

\* The type invariant holds in every state the server reaches; a cached
\* response shows the rows of its key and nothing else.
THEOREM TypeCorrect == Spec => []TypeOK
<1>1. Init => Typed
  BY IdleTyped, BoundAssumption DEF Init, Typed, TypeOK, RequestsTyped
<1>2. Typed => TypeOK
  BY DEF Typed
<1> QED BY <1>1, <1>2, TypeStep, PTL DEF Spec

-----------------------------------------------------------------------------
(***************************************************************************)
(* What a get is about to put in the cache, and what a change has still to *)
(* commit, decide whether the properties survive: CacheInv says what the   *)
(* requests in flight know.                                                *)
(***************************************************************************)

\* A get in flight together with a change of what it shows is marked.
RaceMarked == \A r, s \in Requests : Races(req[r], req[s]) => req[r].raced

\* What a get has seen was committed, and still is the row unless it raced.
SeenCommitted ==
    \A r \in Requests : req[r].op = "get" =>
        \A x \in Shown(req[r].key) :
            /\ req[r].seen[x] <= row[x]
            /\ req[r].seen[x] > 0 /\ ~req[r].raced => req[r].seen[x] = row[x]

\* Whatever was cached after an eviction, ahead of its commit, is marked.
EvictedOrRaced ==
    \A r \in Requests : req[r].evicted =>
        cache[req[r].key] = None \/ cache[req[r].key].raced

CacheInv ==
    Typed /\ RaceMarked /\ SeenCommitted /\ EvictedOrRaced
    /\ CacheShowsCommitted /\ StaleOnlyByRaceOrMiss

\* A step that leaves the rows and the cache alone, and of the requests at most
\* ends one or moves it on.
LEMMA QuietStep ==
    ASSUME CacheInv, Typed', UNCHANGED <<row, cache>>, NEW r \in Requests,
           \A x \in Requests \ {r} : req'[x] = req[x],
           \/ req'[r] = Idle
           \/ /\ req'[r].op = req[r].op /\ req'[r].key = req[r].key /\ req'[r].raced = req[r].raced
              /\ req'[r].seen = req[r].seen /\ req'[r].evicted = req[r].evicted
    PROVE  CacheInv'
<1>i. Idle.op = "none" /\ ~Idle.evicted
  BY DEF Idle
<1>1. RaceMarked'
  BY <1>i DEF RaceMarked, Races, CacheInv
<1>2. SeenCommitted' /\ EvictedOrRaced'
  BY <1>i DEF SeenCommitted, EvictedOrRaced, CacheInv
<1>3. CacheShowsCommitted' /\ StaleOnlyByRaceOrMiss'
  BY DEF CacheShowsCommitted, StaleOnlyByRaceOrMiss, Stale, CacheInv
<1> QED BY <1>1, <1>2, <1>3 DEF CacheInv

\* A request that enters marks, and is marked by, the changes in flight.
LEMMA ArriveStep ==
    ASSUME CacheInv, Typed', NEW r \in Requests, NEW q \in Req, WellFormed(q), Arrive(r, q),
           q.seen = Nothing, ~q.evicted
    PROVE  CacheInv'
<1>1. /\ req[r].op = "none"
      /\ \A x \in Requests \ {r} :
             /\ req'[x].op = req[x].op /\ req'[x].key = req[x].key /\ req'[x].seen = req[x].seen
             /\ req'[x].evicted = req[x].evicted
             /\ req'[x].raced = (req[x].raced \/ Races(req[x], q))
      /\ req'[r].op = q.op /\ req'[r].key = q.key /\ req'[r].seen = q.seen
      /\ req'[r].evicted = q.evicted
      /\ req'[r].raced = \E y \in Requests : Races(q, req[y])
      /\ UNCHANGED <<row, cache>>
  <2>1. Typed /\ UNCHANGED <<row, cache>>
    BY DEF CacheInv, Arrive
  <2> QED BY <2>1, ArriveTyped
<1>2. RaceMarked'
  <2> SUFFICES ASSUME NEW x \in Requests, NEW y \in Requests, Races(req[x], req[y])'
               PROVE  req'[x].raced
    BY DEF RaceMarked
  <2>1. CASE x = r /\ y = r
    <3>1. Written(q.op, q.key) = {}
      BY <1>1, <2>1 DEF Races, Written
    <3> QED BY <1>1, <2>1, <3>1 DEF Races
  <2>2. CASE x = r /\ y # r
    <3>1. Races(q, req[y])
      BY <1>1, <2>2 DEF Races
    <3> QED BY <1>1, <2>2, <3>1
  <2>3. CASE x # r /\ y = r
    <3>1. Races(req[x], q)
      BY <1>1, <2>3 DEF Races
    <3> QED BY <1>1, <2>3, <3>1
  <2>4. CASE x # r /\ y # r
    <3>1. Races(req[x], req[y])
      BY <1>1, <2>4 DEF Races
    <3> QED BY <1>1, <2>4, <3>1 DEF CacheInv, RaceMarked
  <2> QED BY <2>1, <2>2, <2>3, <2>4
<1>3. SeenCommitted'
  <2>1. ASSUME NEW x \in Rows PROVE Nothing[x] = 0 /\ row[x] \in Nat
    BY <2>1 DEF Nothing, CacheInv, Typed, TypeOK
  <2>2. q.op = "get" => Shown(q.key) \subseteq Rows
    BY ShowsFacts DEF WellFormed
  <2> SUFFICES ASSUME NEW x \in Requests, req'[x].op = "get", NEW y \in Shown(req'[x].key)
               PROVE  /\ req'[x].seen[y] <= row'[y]
                      /\ req'[x].seen[y] > 0 /\ ~req'[x].raced => req'[x].seen[y] = row'[y]
    BY DEF SeenCommitted
  <2>3. CASE x = r
    BY <1>1, <2>1, <2>2, <2>3
  <2>4. CASE x # r
    BY <1>1, <2>4 DEF SeenCommitted, CacheInv
  <2> QED BY <2>3, <2>4
<1>4. EvictedOrRaced' /\ CacheShowsCommitted' /\ StaleOnlyByRaceOrMiss'
  BY <1>1 DEF EvictedOrRaced, CacheShowsCommitted, StaleOnlyByRaceOrMiss, Stale, CacheInv
<1> QED BY <1>2, <1>3, <1>4 DEF CacheInv

\* Every step preserves the invariant.
LEMMA InvStep == CacheInv /\ [Next]_vars => CacheInv'
<1> SUFFICES ASSUME CacheInv, [Next]_vars PROVE CacheInv'
  OBVIOUS
<1>t. Typed /\ Typed'
  BY TypeStep DEF CacheInv
<1>i. Idle.op = "none" /\ ~Idle.evicted
  BY DEF Idle
<1>r. \A r \in Requests : req[r] \in Req /\ WellFormed(req[r])
  BY <1>t DEF Typed, TypeOK, RequestsTyped
<1>e. ASSUME NEW r \in Requests, End(r)
      PROVE  req'[r] = Idle /\ \A x \in Requests \ {r} : req'[x] = req[x]
  BY <1>e, <1>t DEF End, Typed, TypeOK
<1>g. ASSUME NEW r \in Requests, NEW pc, Goto(r, pc)
      PROVE  /\ req'[r].op = req[r].op /\ req'[r].key = req[r].key /\ req'[r].raced = req[r].raced
             /\ req'[r].seen = req[r].seen /\ req'[r].evicted = req[r].evicted
             /\ \A x \in Requests \ {r} : req'[x] = req[x]
  BY <1>g, <1>r, <1>t DEF Goto, Typed, TypeOK, Req
<1>n. \A x \in Rows : row[x] \in Nat
  BY <1>t DEF Typed, TypeOK
<1>s. \A k \in Keys : Shown(k) \subseteq Rows
  BY ShowsFacts
<1>k. \A r \in Requests : req[r].op # "none" => req[r].key \in Keys
  BY <1>r DEF WellFormed
<1>v. \A r \in Requests : req[r].evicted => Changing(req[r])
  BY <1>r DEF WellFormed
<1>1. CASE Tick
  <2>1. ASSUME NEW k \in Keys
        PROVE  \/ cache'[k] = None
               \/ /\ cache[k] # None /\ cache'[k].seen = cache[k].seen
                  /\ cache'[k].raced = cache[k].raced /\ cache'[k].missed = cache[k].missed
    BY <1>1, <1>t, <2>1 DEF Tick, Aged, Typed, TypeOK, Entry
  <2>2. UNCHANGED <<row, req>>
    BY <1>1 DEF Tick
  <2>3. RaceMarked' /\ SeenCommitted'
    BY <2>2 DEF RaceMarked, SeenCommitted, Races, CacheInv
  <2>4. EvictedOrRaced'
    BY <1>k, <1>v, <2>1, <2>2 DEF EvictedOrRaced, CacheInv, Changing
  <2>5. CacheShowsCommitted' /\ StaleOnlyByRaceOrMiss'
    BY <2>1, <2>2 DEF CacheShowsCommitted, StaleOnlyByRaceOrMiss, Stale, CacheInv
  <2> QED BY <1>t, <2>3, <2>4, <2>5 DEF CacheInv
<1>2. ASSUME NEW r \in Requests, NEW ok \in BOOLEAN, GetLookup(r, ok) PROVE CacheInv'
  BY <1>2, <1>e, <1>g, <1>t, QuietStep DEF GetLookup
<1>3. ASSUME NEW r \in Requests, GetRead(r) PROVE CacheInv'
  <2> DEFINE k == req[r].key
             x == shows(k)[req[r].n + 1]
  <2>1. /\ req[r].op = "get" /\ k \in Keys /\ x \in Rows
        /\ UNCHANGED <<row, cache>>
    BY <1>3, <1>r, ShowsFacts DEF GetRead, WellFormed, Changing, Req, Ops
  <2>2. CASE row[x] = 0
    BY <1>3, <1>e, <1>t, <2>1, <2>2, QuietStep DEF GetRead
  <2>3. CASE row[x] # 0
    <3>1. /\ req'[r].op = "get" /\ req'[r].key = k /\ req'[r].raced = req[r].raced
          /\ req'[r].seen = [req[r].seen EXCEPT ![x] = row[x]]
          /\ req'[r].evicted = req[r].evicted
          /\ \A y \in Requests \ {r} : req'[y] = req[y]
      <4> DEFINE seen == [req[r].seen EXCEPT ![x] = row[x]]
                 pc == IF req[r].n + 1 = Len(shows(k)) THEN "set" ELSE "read"
                 q == [req[r] EXCEPT !.seen = seen, !.n = req[r].n + 1, !.pc = pc]
      <4>1. req' = [req EXCEPT ![r] = q] /\ req \in [Requests -> Req]
        BY <1>3, <1>t, <2>3 DEF GetRead, Typed, TypeOK
      <4> HIDE DEF seen, pc
      <4>2. /\ q.op = req[r].op /\ q.key = k /\ q.raced = req[r].raced /\ q.seen = seen
            /\ q.evicted = req[r].evicted
        BY <1>r DEF Req
      <4> HIDE DEF q
      <4> QED BY <2>1, <4>1, <4>2 DEF seen
    <3>2. \A y \in Rows : req'[r].seen[y] = IF y = x THEN row[x] ELSE req[r].seen[y]
      BY <1>r, <2>1, <3>1 DEF Req
    <3>3. RaceMarked'
      BY <2>1, <3>1 DEF RaceMarked, Races, CacheInv
    <3>4. SeenCommitted'
      <4> SUFFICES ASSUME NEW y \in Requests, req'[y].op = "get", NEW z \in Shown(req'[y].key)
                   PROVE  /\ req'[y].seen[z] <= row'[z]
                          /\ req'[y].seen[z] > 0 /\ ~req'[y].raced => req'[y].seen[z] = row'[z]
        BY DEF SeenCommitted
      <4>1. CASE y = r
        <5>1. z \in Rows /\ row[z] \in Nat
          BY <1>n, <1>s, <2>1, <3>1, <4>1
        <5>2. CASE z = x
          <6>1. req'[r].seen[z] = row[z]
            BY <3>2, <5>1, <5>2
          <6>2. row' = row
            BY <2>1
          <6> HIDE DEF k, x
          <6> QED BY <4>1, <5>1, <6>1, <6>2
        <5>3. CASE z # x
          <6>1. /\ req[r].seen[z] <= row[z]
                /\ req[r].seen[z] > 0 /\ ~req[r].raced => req[r].seen[z] = row[z]
            BY <2>1, <3>1, <4>1 DEF SeenCommitted, CacheInv
          <6> QED BY <2>1, <3>1, <3>2, <4>1, <5>1, <5>3, <6>1
        <5> QED BY <5>2, <5>3
      <4>2. CASE y # r
        BY <2>1, <3>1, <4>2 DEF SeenCommitted, CacheInv
      <4> QED BY <4>1, <4>2
    <3>5. EvictedOrRaced' /\ CacheShowsCommitted' /\ StaleOnlyByRaceOrMiss'
      BY <2>1, <3>1 DEF EvictedOrRaced, CacheShowsCommitted, StaleOnlyByRaceOrMiss, Stale, CacheInv
    <3> QED BY <1>t, <3>3, <3>4, <3>5 DEF CacheInv
  <2> QED BY <2>2, <2>3
<1>4. ASSUME NEW r \in Requests, NEW ok \in BOOLEAN, GetSet(r, ok) PROVE CacheInv'
  <2> DEFINE e == [seen |-> req[r].seen, ttl |-> TTL, raced |-> req[r].raced, missed |-> FALSE]
             k == req[r].key
  <2>1. req[r].op = "get" /\ k \in Keys /\ UNCHANGED row
    BY <1>4, <1>r DEF GetSet, WellFormed, Changing, Req, Ops
  <2>2. req'[r] = Idle /\ \A x \in Requests \ {r} : req'[x] = req[x]
    BY <1>4, <1>e DEF GetSet
  <2>3. CASE UNCHANGED cache
    BY <1>t, <2>1, <2>2, <2>3, QuietStep
  <2>4. CASE cache' # cache
    <3>1. cache'[k] = e /\ \A j \in Keys \ {k} : cache'[j] = cache[j]
      BY <1>4, <1>t, <2>1, <2>4 DEF GetSet, Typed, TypeOK
    <3>2. \A x \in Shown(k) : e.seen[x] > 0
      <4>1. {x \in Rows : req[r].seen[x] > 0} = {shows(k)[i] : i \in 1 .. Len(shows(k))}
        BY <1>4, <1>r, <2>1 DEF GetSet, WellFormed
      <4> QED BY <2>1, <4>1, ShowsFacts
    <3>3. RaceMarked' /\ SeenCommitted'
      BY <1>i, <2>1, <2>2 DEF RaceMarked, SeenCommitted, Races, CacheInv
    <3>4. EvictedOrRaced'
      <4> SUFFICES ASSUME NEW y \in Requests, req'[y].evicted, req'[y].key = k
                   PROVE  e.raced
        BY <1>i, <1>k, <1>v, <2>2, <3>1 DEF EvictedOrRaced, CacheInv, Changing
      <4>1. y # r /\ Changing(req[y]) /\ req[y].key = k /\ (req[y].op = "sync" => k \in Standards)
        BY <1>i, <1>r, <1>v, <2>2 DEF WellFormed
      <4>2. Shown(k) \cap Written(req[y].op, k) # {}
        BY <2>1, <4>1, WritesShown DEF Changing
      <4>3. Races(req[r], req[y])
        BY <2>1, <4>1, <4>2 DEF Races, Changing
      <4> QED BY <4>3 DEF RaceMarked, CacheInv
    <3>5. CacheShowsCommitted' /\ StaleOnlyByRaceOrMiss'
      BY <2>1, <3>1, <3>2 DEF CacheShowsCommitted, StaleOnlyByRaceOrMiss, Stale, SeenCommitted, CacheInv
    <3> QED BY <1>t, <3>3, <3>4, <3>5 DEF CacheInv
  <2> QED BY <2>3, <2>4
<1>5. ASSUME NEW r \in Requests, WriteCheck(r) PROVE CacheInv'
  BY <1>5, <1>e, <1>g, <1>t, QuietStep DEF WriteCheck
<1>6. ASSUME NEW r \in Requests, NEW ok \in BOOLEAN, WriteEvict(r, ok) PROVE CacheInv'
  <2>1. /\ req[r].key \in Keys /\ UNCHANGED row
        /\ req'[r].op = req[r].op /\ req'[r].key = req[r].key /\ req'[r].raced = req[r].raced
        /\ req'[r].seen = req[r].seen /\ req'[r].evicted = ok
        /\ \A x \in Requests \ {r} : req'[x] = req[x]
    BY <1>6, <1>r, <1>t DEF WriteEvict, Typed, TypeOK, Req, WellFormed
  <2>2. /\ \A j \in Keys : cache'[j] \in {cache[j], None}
        /\ ok => cache'[req[r].key] = None
    BY <1>6, <1>t, <2>1 DEF WriteEvict, Typed, TypeOK
  <2>3. RaceMarked' /\ SeenCommitted'
    BY <2>1 DEF RaceMarked, SeenCommitted, Races, CacheInv
  <2>4. EvictedOrRaced'
    BY <1>k, <1>v, <2>1, <2>2 DEF EvictedOrRaced, CacheInv, Changing
  <2>5. CacheShowsCommitted' /\ StaleOnlyByRaceOrMiss'
    BY <2>1, <2>2 DEF CacheShowsCommitted, StaleOnlyByRaceOrMiss, Stale, CacheInv
  <2> QED BY <1>t, <2>3, <2>4, <2>5 DEF CacheInv
<1>7. ASSUME NEW r \in Requests, WriteCommit(r) PROVE CacheInv'
  <2> DEFINE q == req[r]
             W == Written(q.op, q.key)
  <2>1. /\ q.op # "none" /\ q.key \in Keys
        /\ q'  = Idle /\ \A x \in Requests \ {r} : req'[x] = req[x]
    BY <1>7, <1>e, <1>r DEF WriteCommit, WellFormed, Changing, Req, Ops
  <2>2. \A x \in Rows : row'[x] = IF x \in W THEN row[x] + 1 ELSE row[x]
    BY <1>7 DEF WriteCommit
  <2>3. ASSUME NEW k \in Keys
        PROVE  \/ cache'[k] = None /\ cache[k] = None
               \/ /\ cache[k] # None /\ cache'[k].seen = cache[k].seen
                  /\ cache'[k].raced = cache[k].raced
                  /\ cache[k].missed => cache'[k].missed
                  /\ Shown(k) \cap W # {} => cache'[k].missed \/ (q.evicted /\ q.key = k)
    BY <1>7, <1>t, <2>3 DEF WriteCommit, Typed, TypeOK, Entry
  <2>4. RaceMarked'
    BY <1>i, <2>1 DEF RaceMarked, Races, CacheInv
  <2>5. SeenCommitted'
    <3> SUFFICES ASSUME NEW y \in Requests, req'[y].op = "get", NEW x \in Shown(req'[y].key)
                 PROVE  /\ req'[y].seen[x] <= row'[x]
                        /\ req'[y].seen[x] > 0 /\ ~req'[y].raced => req'[y].seen[x] = row'[x]
      BY DEF SeenCommitted
    <3>1. y # r /\ req'[y] = req[y] /\ x \in Rows /\ req[y].seen[x] \in Nat
      BY <1>i, <1>k, <1>r, <1>s, <2>1 DEF Req
    <3>2. x \in W => req[y].raced
      BY <2>1, <3>1 DEF Races, RaceMarked, CacheInv
    <3> QED BY <1>n, <2>2, <3>1, <3>2 DEF SeenCommitted, CacheInv
  <2>6. EvictedOrRaced'
    BY <1>i, <1>k, <1>v, <2>1, <2>3 DEF EvictedOrRaced, CacheInv, Changing
  <2>7. CacheShowsCommitted'
    <3> SUFFICES ASSUME NEW k \in Keys, cache'[k] # None, NEW x \in Shown(k)
                 PROVE  cache'[k].seen[x] <= row'[x]
      BY DEF CacheShowsCommitted
    <3>1. cache[k] # None /\ cache'[k].seen = cache[k].seen /\ x \in Rows
      BY <1>s, <2>3
    <3>2. cache[k].seen[x] \in Nat /\ cache[k].seen[x] <= row[x]
      BY <1>t, <3>1 DEF Typed, TypeOK, Entry, CacheShowsCommitted, CacheInv
    <3> QED BY <1>n, <2>2, <3>1, <3>2
  <2>8. StaleOnlyByRaceOrMiss'
    <3> SUFFICES ASSUME NEW k \in Keys, cache'[k] # None, NEW x \in Shown(k),
                        cache'[k].seen[x] # row'[x], ~cache'[k].missed
                 PROVE  cache'[k].raced
      BY DEF StaleOnlyByRaceOrMiss, Stale
    <3>1. CASE x \in W
      BY <2>3, <3>1 DEF EvictedOrRaced, CacheInv
    <3>2. CASE x \notin W
      BY <1>s, <2>2, <2>3, <3>2 DEF StaleOnlyByRaceOrMiss, Stale, CacheInv
    <3> QED BY <3>1, <3>2
  <2> QED BY <1>t, <2>4, <2>5, <2>6, <2>7, <2>8 DEF CacheInv
<1>8. ASSUME NEW r \in Requests, Abort(r) PROVE CacheInv'
  BY <1>8, <1>e, <1>t, QuietStep DEF Abort
<1>9. ASSUME NEW r \in Requests, NEW k \in Keys, GetArrives(r, k) PROVE CacheInv'
  <2> DEFINE q == [Idle EXCEPT !.op = "get", !.pc = "lookup", !.key = k]
  <2>1. q \in Req /\ WellFormed(q) /\ q.seen = Nothing /\ ~q.evicted
    BY GetTyped
  <2>2. Arrive(r, q)
    BY <1>9 DEF GetArrives
  <2> QED BY <1>t, <2>1, <2>2, ArriveStep
<1>10. ASSUME NEW r \in Requests, NEW k \in Keys, NEW op \in {"create", "update", "sync"},
              WriteArrives(r, op, k)
       PROVE  CacheInv'
  <2> DEFINE q == [Idle EXCEPT !.op = op, !.pc = "check", !.key = k]
  <2>1. q \in Req /\ WellFormed(q) /\ q.seen = Nothing /\ ~q.evicted
    BY <1>10, WriteTyped DEF WriteArrives
  <2>2. Arrive(r, q)
    BY <1>10 DEF WriteArrives
  <2> QED BY <1>t, <2>1, <2>2, ArriveStep
<1>11. CASE UNCHANGED vars
  BY <1>11, <1>t DEF vars, CacheInv, RaceMarked, Races, SeenCommitted, EvictedOrRaced,
     CacheShowsCommitted, StaleOnlyByRaceOrMiss, Stale
<1> QED BY <1>1, <1>2, <1>3, <1>4, <1>5, <1>6, <1>7, <1>8, <1>9, <1>10, <1>11
        DEF Next, Advance, Arrivals

\* The invariant holds in every state the server reaches.
LEMMA Invariance == Spec => []CacheInv
<1>1. Init => CacheInv
  <2> SUFFICES ASSUME Init PROVE CacheInv
    OBVIOUS
  <2>1. Typed
    BY IdleTyped, BoundAssumption DEF Init, Typed, TypeOK, RequestsTyped
  <2>2. \A r \in Requests : req[r].op = "none" /\ ~req[r].evicted
    BY DEF Init, Idle
  <2> QED BY <2>1, <2>2 DEF Init, CacheInv, RaceMarked, Races, SeenCommitted, EvictedOrRaced,
             CacheShowsCommitted, StaleOnlyByRaceOrMiss
<1> QED BY <1>1, InvStep, PTL DEF Spec

\* The cache never shows what is not committed: neither a change that is rolled
\* back after its eviction nor a get that races it leaves a trace.
THEOREM CacheIsCommitted == Spec => []CacheShowsCommitted
<1>1. CacheInv => CacheShowsCommitted
  BY DEF CacheInv
<1> QED BY <1>1, Invariance, PTL

\* A stale entry comes from a get that raced the change or from a change that
\* did not evict it; eviction ahead of the commit has no other hole.
THEOREM StalenessExplained == Spec => []StaleOnlyByRaceOrMiss
<1>1. CacheInv => StaleOnlyByRaceOrMiss
  BY DEF CacheInv
<1> QED BY <1>1, Invariance, PTL

-----------------------------------------------------------------------------
(***************************************************************************)
(* What EventuallyFresh rests on: without changes in flight no entry       *)
(* becomes stale, and the stale ones run out.                              *)
(***************************************************************************)

\* No change is in flight, and no get is about to cache what is not so.  With
\* no further arrivals of changes, this is so when those in flight are over.
Settled ==
    \A r \in Requests :
        /\ ~Changing(req[r])
        /\ req[r].op = "get" => \A x \in Rows : req[r].seen[x] > 0 => req[r].seen[x] = row[x]

\* Until the next change arrives, what is stale was stale before, and each
\* tick takes it nearer to its expiry (set_model, with ttl_seconds).
OnlyAges(k) ==
    cache'[k] # None /\ Stale(k)' =>
        /\ cache[k] # None /\ Stale(k)
        /\ cache'[k].ttl <= cache[k].ttl /\ (Tick => cache'[k].ttl < cache[k].ttl)

StaleOnlyAges ==
    [][Settled /\ writes' = writes => Settled' /\ \A k \in Keys : OnlyAges(k)]_vars

LEMMA SettledStep ==
    ASSUME Typed, Settled, [Next]_vars, writes' = writes
    PROVE  Settled' /\ \A k \in Keys : OnlyAges(k)
<1>r. \A r \in Requests : req[r] \in Req /\ WellFormed(req[r]) /\ ~Changing(req[r])
  BY DEF Typed, TypeOK, RequestsTyped, Settled
<1>i. ~Changing(Idle) /\ Idle.op = "none"
  BY DEF Idle, Changing
<1>k. ASSUME NEW k \in Keys, cache[k] # None
      PROVE  cache[k].ttl \in 1 .. TTL /\ TTL \in Nat /\ cache[k] \in Entry
  BY <1>k, TTLAssumption DEF Typed, TypeOK, Entry
\* An entry that a step leaves alone, with its rows.
<1>c. ASSUME NEW k \in Keys, row' = row, cache'[k] = cache[k], ~Tick PROVE OnlyAges(k)
  BY <1>c, <1>k DEF OnlyAges, Stale
<1>1. CASE Tick
  <2>1. row' = row /\ req' = req
    BY <1>1 DEF Tick
  <2>2. ASSUME NEW k \in Keys PROVE OnlyAges(k)
    <3> SUFFICES ASSUME cache'[k] # None, Stale(k)' PROVE OnlyAges(k)
      BY DEF OnlyAges
    <3>1. cache'[k] = Aged(cache[k])
      BY <1>1 DEF Tick
    <3>2. cache[k] # None /\ cache[k].ttl # 1
      BY <3>1 DEF Aged
    <3>3. cache'[k] = [cache[k] EXCEPT !.ttl = @ - 1]
      BY <1>k, <3>1, <3>2 DEF Aged
    <3>4. cache'[k].seen = cache[k].seen /\ cache'[k].ttl = cache[k].ttl - 1
      BY <1>k, <3>2, <3>3 DEF Entry
    <3> QED BY <1>k, <2>1, <3>2, <3>4 DEF OnlyAges, Stale
  <2> QED BY <2>1, <2>2 DEF Settled
<1> SUFFICES ASSUME ~Tick PROVE Settled' /\ \A k \in Keys : OnlyAges(k)
  BY <1>1
\* A step that leaves the rows and the cache, and moves a get on or ends it.
<1>s. ASSUME NEW r \in Requests, row' = row, cache' = cache,
             \A x \in Requests \ {r} : req'[x] = req[x],
             req'[r] = Idle \/ (req'[r].op = req[r].op /\ req'[r].seen = req[r].seen)
      PROVE  Settled' /\ \A k \in Keys : OnlyAges(k)
  <2>1. Settled'
    BY <1>i, <1>s DEF Settled, Changing
  <2> QED BY <1>c, <1>s, <2>1
<1>e. ASSUME NEW r \in Requests, End(r)
      PROVE  req'[r] = Idle /\ \A x \in Requests \ {r} : req'[x] = req[x]
  BY <1>e DEF End, Typed, TypeOK
<1>2. ASSUME NEW r \in Requests, NEW ok \in BOOLEAN, GetLookup(r, ok)
      PROVE  Settled' /\ \A k \in Keys : OnlyAges(k)
  <2>1. row' = row /\ cache' = cache
    BY <1>2 DEF GetLookup
  <2>2. End(r) \/ (req'[r].op = req[r].op /\ req'[r].seen = req[r].seen
                   /\ \A x \in Requests \ {r} : req'[x] = req[x])
    BY <1>2, <1>r DEF GetLookup, Goto, Typed, TypeOK, Req
  <2> QED BY <1>e, <1>s, <2>1, <2>2
<1>3. ASSUME NEW r \in Requests, GetRead(r) PROVE Settled' /\ \A k \in Keys : OnlyAges(k)
  <2> DEFINE x == shows(req[r].key)[req[r].n + 1]
  <2>1. row' = row /\ cache' = cache
    BY <1>3 DEF GetRead
  <2>2. CASE End(r)
    BY <1>e, <1>s, <2>1, <2>2
  <2>3. CASE row[x] # 0
    <3> DEFINE seen == [req[r].seen EXCEPT ![x] = row[x]]
               pc == IF req[r].n + 1 = Len(shows(req[r].key)) THEN "set" ELSE "read"
               q == [req[r] EXCEPT !.seen = seen, !.n = req[r].n + 1, !.pc = pc]
    <3>a. req' = [req EXCEPT ![r] = q]
      BY <1>3, <2>3 DEF GetRead, Typed, TypeOK
    <3>b. q.op = req[r].op /\ q.seen = seen
      BY <1>r DEF Req
    <3>1. /\ req'[r].op = req[r].op /\ req'[r].seen = seen
          /\ \A y \in Requests \ {r} : req'[y] = req[y]
      <4> HIDE DEF q, seen
      <4> QED BY <3>a, <3>b DEF Typed, TypeOK
    <3>2. req[r].op = "get" /\ req[r].seen \in [Rows -> Nat]
      BY <1>3, <1>r DEF GetRead, WellFormed, Req, Changing, Ops
    <3>3. ASSUME NEW y \in Rows, req'[r].seen[y] > 0 PROVE req'[r].seen[y] = row[y]
      BY <3>1, <3>2, <3>3 DEF Settled
    <3>4. Settled'
      BY <1>r, <2>1, <3>1, <3>2, <3>3 DEF Settled, Changing
    <3> QED BY <1>c, <2>1, <3>4
  <2> QED BY <1>3, <2>2, <2>3 DEF GetRead
<1>4. ASSUME NEW r \in Requests, NEW ok \in BOOLEAN, GetSet(r, ok)
      PROVE  Settled' /\ \A k \in Keys : OnlyAges(k)
  <2> DEFINE key == req[r].key
             e == [seen |-> req[r].seen, ttl |-> TTL, raced |-> req[r].raced, missed |-> FALSE]
  <2>1. row' = row /\ End(r) /\ cache' \in {cache, [cache EXCEPT ![key] = e]}
    BY <1>4 DEF GetSet
  <2>2. /\ req[r].op = "get" /\ key \in Keys
        /\ {x \in Rows : req[r].seen[x] > 0} = {shows(key)[i] : i \in 1 .. Len(shows(key))}
    BY <1>4, <1>r DEF GetSet, WellFormed, Changing, Req, Ops
  <2>3. \A x \in Shown(key) : req[r].seen[x] = row[x]
    BY <2>2, ShowsFacts DEF Settled
  <2>4. Settled'
    BY <1>e, <1>i, <2>1 DEF Settled
  <2>5. ASSUME NEW k \in Keys PROVE OnlyAges(k)
    <3>1. CASE cache'[k] = cache[k]
      BY <1>c, <2>1, <3>1
    <3>2. CASE cache'[k] # cache[k]
      <4>1. k = key /\ cache'[k] = e
        BY <2>1, <2>2, <3>2 DEF Typed, TypeOK
      <4>2. ~Stale(k)'
        BY <2>1, <2>3, <4>1 DEF Stale
      <4> QED BY <4>2 DEF OnlyAges
    <3> QED BY <3>1, <3>2
  <2> QED BY <2>4, <2>5
<1>5. ASSUME NEW r \in Requests, NEW ok \in BOOLEAN,
             WriteCheck(r) \/ WriteEvict(r, ok) \/ WriteCommit(r)
      PROVE  FALSE
  BY <1>5, <1>r DEF WriteCheck, WriteEvict, WriteCommit, WellFormed, Req, Ops, Changing
<1>6. ASSUME NEW r \in Requests, Abort(r) PROVE Settled' /\ \A k \in Keys : OnlyAges(k)
  BY <1>6, <1>e, <1>s DEF Abort
<1>7. ASSUME NEW r \in Requests, NEW k \in Keys, GetArrives(r, k)
      PROVE  Settled' /\ \A j \in Keys : OnlyAges(j)
  <2> DEFINE q == [Idle EXCEPT !.op = "get", !.pc = "lookup", !.key = k]
  <2>1. q \in Req /\ WellFormed(q) /\ q.seen = Nothing /\ q.op = "get"
    BY GetTyped DEF Idle
  <2>2. Arrive(r, q)
    BY <1>7 DEF GetArrives
  <2> HIDE DEF q
  <2>3. /\ \A x \in Requests \ {r} : req'[x].op = req[x].op /\ req'[x].seen = req[x].seen
        /\ req'[r].op = "get" /\ req'[r].seen = Nothing
    BY <2>1, <2>2, ArriveTyped
  <2>4. row' = row /\ cache' = cache
    BY <2>2 DEF Arrive
  <2>5. Settled'
    BY <2>3, <2>4 DEF Settled, Changing, Nothing
  <2> QED BY <1>c, <2>4, <2>5
<1>8. ASSUME NEW r \in Requests, NEW op, NEW k \in Keys, WriteArrives(r, op, k) PROVE FALSE
  BY <1>8 DEF WriteArrives, Typed, TypeOK
<1>9. CASE UNCHANGED vars
  <2>1. row' = row /\ cache' = cache /\ req' = req
    BY <1>9 DEF vars
  <2>2. Settled'
    BY <2>1 DEF Settled
  <2> QED BY <1>c, <2>1, <2>2
<1> QED BY <1>1, <1>2, <1>3, <1>4, <1>5, <1>6, <1>7, <1>8, <1>9 DEF Next, Advance, Arrivals

\* An action property: once no change is in flight and what every get in flight
\* has seen is still so, it stays so until the next change arrives, and no entry
\* goes stale, however gets, failing calls and expiries interleave; each tick
\* takes the stale ones nearer to their expiry.
THEOREM StaleRunsOut == Spec => StaleOnlyAges
<1>1. Typed /\ [Next]_vars => (Settled /\ writes' = writes => Settled' /\ \A k \in Keys : OnlyAges(k))
  BY SettledStep
<1>2. CacheInv => Typed
  BY DEF CacheInv
<1> QED BY <1>1, <1>2, Invariance, PTL DEF Spec, StaleOnlyAges

-----------------------------------------------------------------------------
(* JobProcesses: its parameters, and a fact on sets of places.             *)

\* What the assumptions come to.
LEMMA ParameterFacts ==
    /\ MaxId \in Nat /\ MaxLength \in Nat /\ MaxSyncs \in Nat
    /\ MaxLength * MaxSyncs \in Nat /\ 2 + MaxLength * MaxSyncs <= MaxId
    /\ Ids = 1 .. MaxId /\ Numbers \subseteq Nat
    /\ Absent \notin Numbers /\ Absent \notin Ids
<1>1. MaxLength * MaxSyncs \in Nat
  BY SyncBounds
<1> QED BY <1>1, SyncBounds, SequenceAssumption, EnoughIds, AbsentAssumption DEF Ids

\* A set of places has a last one.
LEMMA LastPlace ==
    ASSUME NEW n \in Nat, NEW S \in SUBSET (1 .. n), S # {}
    PROVE  Max(S) \in S
<1> DEFINE R == OpToRel(<, Nat)
           T == {n - x : x \in S}
<1>1. IsWellFoundedOn(R, Nat)
  BY NatLessThanWellFounded
<1>2. T \subseteq Nat /\ T # {}
  <2>1. \A x \in S : n - x \in Nat
    OBVIOUS
  <2> QED BY <2>1
<1>3. \A x, y \in Nat : <<x, y>> \in R <=> x < y
  BY DEF OpToRel
<1> HIDE DEF R, T
<1>4. PICK m \in T : \A y \in T : ~(<<y, m>> \in R)
  BY <1>1, <1>2, WFMin
<1>5. ASSUME NEW y \in T PROVE m <= y
  <2>1. m \in Nat /\ y \in Nat /\ ~(<<y, m>> \in R)
    BY <1>2, <1>4
  <2>2. ~(y < m)
    BY <1>3, <2>1
  <2> QED BY <2>1, <2>2
<1>6. PICK x \in S : \A y \in S : x >= y
  <2>1. PICK x \in S : m = n - x
    BY <1>4 DEF T
  <2>2. ASSUME NEW y \in S PROVE n - x <= n - y
    BY <1>5, <2>1, <2>2 DEF T
  <2> QED BY <2>1, <2>2
<1> QED BY <1>6 DEF Max

\* Multiplication, as far as the room for ids needs it.
LEMMA Products ==
    ASSUME NEW a \in Nat, NEW b \in Nat, NEW c \in Nat, b <= c
    PROVE  /\ a * b \in Nat /\ a * c \in Nat /\ a * b <= a * c
           /\ a * (b + 1) = a * b + a
  OBVIOUS

-----------------------------------------------------------------------------
(* The list of a sync.                                                     *)

Syncing == [busy : {TRUE}, loaded : [Ids -> Numbers \cup {Absent}],
            list : Items, raced : BOOLEAN]

\* A list has places, each with an id or none and a number.
LEMMA ListFacts ==
    ASSUME NEW q \in Syncing
    PROVE  /\ \E n \in 0 .. MaxLength : DOMAIN q.list = 1 .. n
           /\ \A k \in DOMAIN q.list :
                  q.list[k].id \in Ids \cup {Absent} /\ q.list[k].sequence \in Numbers
           /\ New(q) \subseteq DOMAIN q.list
           /\ IsFiniteSet(New(q)) /\ Cardinality(New(q)) \in 0 .. MaxLength
<1>1. PICK n \in 0 .. MaxLength : q.list \in [1 .. n -> Item]
  BY ParameterFacts DEF Syncing, Items
<1>2. n \in Nat /\ n <= MaxLength
  BY ParameterFacts
<1>3. New(q) \in SUBSET (1 .. n)
  BY <1>1 DEF New
<1>4. IsFiniteSet(1 .. n) /\ Cardinality(1 .. n) = n
  BY <1>2, FS_Interval
<1>5. IsFiniteSet(New(q)) /\ Cardinality(New(q)) <= n
  BY <1>3, <1>4, FS_Subset
<1>6. Cardinality(New(q)) \in 0 .. MaxLength
  BY <1>2, <1>5, ParameterFacts, FS_CardinalityType
<1>7. \A k \in DOMAIN q.list :
          q.list[k].id \in Ids \cup {Absent} /\ q.list[k].sequence \in Numbers
  BY <1>1 DEF Item
<1> QED BY <1>1, <1>3, <1>5, <1>6, <1>7

\* An id that the list names gets one of the list's numbers.
LEMMA TargetIsNumber ==
    ASSUME NEW q \in Syncing, NEW i, Places(q, i) # {}
    PROVE  Target(q, i) \in Numbers
<1>1. PICK n \in 0 .. MaxLength : DOMAIN q.list = 1 .. n
  BY ListFacts
<1>2. n \in Nat /\ Places(q, i) \in SUBSET (1 .. n)
  BY <1>1, ParameterFacts DEF Places
<1>3. Max(Places(q, i)) \in DOMAIN q.list
  BY <1>1, <1>2, LastPlace
<1> QED BY <1>3, ListFacts DEF Target

\* The new processes get ids of their own, the next ones, in the order of the
\* list.
LEMMA NewIdFacts ==
    ASSUME next \in Nat, NEW q \in Syncing
    PROVE  /\ \A k \in New(q) :
                  NewId(q, k) \in next .. next + Cardinality(New(q)) - 1
           /\ \A j, k \in New(q) : NewId(q, j) = NewId(q, k) => j = k
           /\ IsFiniteSet(NewIds(q)) /\ Cardinality(NewIds(q)) = Cardinality(New(q))
<1> DEFINE N == New(q)
           Before(k) == {j \in N : j < k}
<1>1. IsFiniteSet(N) /\ Cardinality(N) \in Nat /\ N \subseteq Nat
  <2>1. PICK n \in 0 .. MaxLength : DOMAIN q.list = 1 .. n
    BY ListFacts
  <2>2. N \subseteq Nat
    BY <2>1, ListFacts, ParameterFacts
  <2> QED BY <2>2, ListFacts, FS_CardinalityType
<1>2. ASSUME NEW k PROVE NewId(q, k) = next + Cardinality(Before(k))
  BY DEF NewId
<1>3. ASSUME NEW k \in N, NEW S \in SUBSET N, Before(k) \cup {k} \subseteq S
      PROVE  Cardinality(Before(k)) \in Nat /\ Cardinality(Before(k)) < Cardinality(S)
  <2>1. IsFiniteSet(Before(k)) /\ IsFiniteSet(S)
    BY <1>1, FS_Subset
  <2>2. k \notin Before(k)
    BY <1>1
  <2>3. Cardinality(Before(k) \cup {k}) = Cardinality(Before(k)) + 1
    BY <2>1, <2>2, FS_AddElement
  <2>4. Cardinality(Before(k) \cup {k}) <= Cardinality(S)
    BY <2>1, <1>3, FS_Subset
  <2> QED BY <2>1, <2>3, <2>4, FS_CardinalityType
<1>4. ASSUME NEW k \in N PROVE NewId(q, k) \in next .. next + Cardinality(N) - 1
  <2>1. Cardinality(Before(k)) \in Nat /\ Cardinality(Before(k)) < Cardinality(N)
    BY <1>3
  <2> QED BY <1>1, <1>2, <2>1
<1>5. ASSUME NEW j \in N, NEW k \in N, j < k PROVE NewId(q, j) < NewId(q, k)
  <2>1. Before(j) \cup {j} \subseteq Before(k) /\ Before(k) \in SUBSET N
    BY <1>1, <1>5
  <2>2. Cardinality(Before(j)) \in Nat /\ Cardinality(Before(j)) < Cardinality(Before(k))
    BY <1>3, <2>1
  <2>3. Cardinality(Before(k)) \in Nat
    BY <1>3
  <2> QED BY <1>2, <2>2, <2>3
<1>6. ASSUME NEW j \in N, NEW k \in N, NewId(q, j) = NewId(q, k) PROVE j = k
  <2>1. NewId(q, j) \in Nat
    BY <1>1, <1>4
  <2>2. ~(j < k) /\ ~(k < j)
    BY <1>5, <1>6, <2>1
  <2> QED BY <1>1, <2>2
<1>7. ExistsBijection(N, NewIds(q))
  <2> DEFINE f == [k \in N |-> NewId(q, k)]
  <2>1. f \in Bijection(N, NewIds(q))
    BY <1>6 DEF Bijection, Injection, Surjection, IsInjective, NewIds
  <2> QED BY <2>1 DEF ExistsBijection
<1> QED BY <1>1, <1>4, <1>6, <1>7, FS_Bijection
-----------------------------------------------------------------------------
(* The flush.                                                              *)

ProcessTable == [Ids -> Numbers \cup {Absent}]

\* No two processes of a table have one number.
Apart(t) == \A i, j \in Present(t) : t[i] = t[j] => i = j

\* UPDATEs move numbers of rows that are there, and keep the numbers apart: of
\* two rows that would meet, the UPDATE sent last is refused.
LEMMA UpdatedTable ==
    ASSUME table \in ProcessTable, Apart(table), NEW q \in Syncing, UpdatesAccepted(q)
    PROVE  /\ Updated(q) \in ProcessTable /\ Apart(Updated(q))
           /\ Present(Updated(q)) = Present(table)
           /\ \A i \in Ids : Updated(q)[i] =
                  IF i \in Dirty(q) THEN Target(q, i) ELSE table[i]
<1> DEFINE U == Updated(q)
           D == Dirty(q)
<1>1. /\ U = [i \in Ids |-> U[i]]
      /\ \A i \in Ids : U[i] = IF i \in D THEN Target(q, i) ELSE table[i]
  BY ParameterFacts DEF Updated, UpdatedBelow
<1>2. \A i \in D : i \in Present(table) /\ Target(q, i) \in Numbers
  BY TargetIsNumber DEF UpdatesAccepted, Dirty, Kept
<1>3. U \in ProcessTable
  BY <1>1, <1>2 DEF ProcessTable
<1>4. Present(U) = Present(table)
  BY <1>1, <1>2, ParameterFacts DEF Present
\* At the UPDATE of i, rows below i that are dirty have their new number.
<1>5. ASSUME NEW i \in D, NEW j \in Ids \ {i}, j \notin D \/ j < i
      PROVE  U[j] # U[i]
  <2>1. i \in Ids
    BY <1>2 DEF Present
  <2>2. UpdatedBelow(q, i)[j] # Target(q, i)
    BY DEF UpdatesAccepted
  <2>3. UpdatedBelow(q, i)[j] = U[j]
    BY <1>1, <1>5 DEF UpdatedBelow
  <2> QED BY <1>1, <2>1, <2>2, <2>3
<1>6. ASSUME NEW i \in Present(table), NEW j \in Present(table), i # j PROVE U[i] # U[j]
  <2>1. i \in Nat /\ j \in Nat /\ i \in Ids /\ j \in Ids
    BY ParameterFacts DEF Present
  <2>2. CASE i \notin D /\ j \notin D
    BY <1>1, <1>6, <2>1, <2>2 DEF Apart
  <2>3. CASE i \in D /\ (j \notin D \/ j < i)
    BY <1>5, <1>6, <2>1, <2>3
  <2>4. CASE j \in D /\ (i \notin D \/ i < j)
    BY <1>5, <1>6, <2>1, <2>4
  <2> QED BY <1>6, <2>1, <2>2, <2>3, <2>4
<1> QED BY <1>1, <1>3, <1>4, <1>6 DEF Apart

\* What the flush leaves: the rows that were not dropped, with their numbers,
\* and the new ones.
LEMMA FlushedTable ==
    ASSUME table \in ProcessTable, Apart(table), next \in Nat \ {0},
           NEW q \in Syncing, Accepted(q),
           next + Cardinality(New(q)) <= MaxId + 1,
           \A i \in Present(table) : i < next, \A i \in Present(q.loaded) : i < next
    PROVE  /\ Flushed(q) \in ProcessTable /\ Apart(Flushed(q))
           /\ Present(Flushed(q)) = (Present(table) \ Dropped(q)) \cup NewIds(q)
           /\ \A i \in Present(table) \ Dropped(q) : Flushed(q)[i] = Updated(q)[i]
           /\ \A k \in New(q) : Flushed(q)[NewId(q, k)] = q.list[k].sequence
           /\ \A i \in NewIds(q) : i >= next /\ i < next + Cardinality(New(q))
<1> DEFINE F == Flushed(q)
           U == Updated(q)
           D == Dropped(q)
           N == New(q)
<1>1. /\ U \in ProcessTable /\ Apart(U) /\ Present(U) = Present(table)
  BY UpdatedTable DEF Accepted
<1>2. Cardinality(N) \in Nat /\ \A k \in N : q.list[k].sequence \in Numbers /\ k \in Nat
  BY ListFacts, ParameterFacts
<1>3. \A k \in N : NewId(q, k) \in next .. next + Cardinality(N) - 1
  BY NewIdFacts
<1>4. ASSUME NEW i \in NewIds(q)
      PROVE  i \in Ids /\ i >= next /\ i < next + Cardinality(N) /\ i \notin Present(U) /\ i \notin D
  <2>1. i \in next .. next + Cardinality(N) - 1
    BY <1>3, <1>4 DEF NewIds
  <2>2. i \in Ids /\ i >= next /\ i < next + Cardinality(N)
    BY <1>2, <2>1, ParameterFacts
  <2>3. ~(i < next)
    BY <2>2, ParameterFacts
  <2> QED BY <1>1, <2>2, <2>3 DEF Dropped
<1>5. \A i \in Ids :
          F[i] = IF i \in D THEN Absent
                 ELSE IF i \in NewIds(q)
                      THEN q.list[CHOOSE k \in N : NewId(q, k) = i].sequence
                      ELSE U[i]
  BY DEF Flushed
<1>6. ASSUME NEW k \in N PROVE F[NewId(q, k)] = q.list[k].sequence
  <2>1. NewId(q, k) \in NewIds(q)
    BY DEF NewIds
  <2>2. \A j \in N : NewId(q, j) = NewId(q, k) => j = k
    BY NewIdFacts
  <2>3. (CHOOSE j \in N : NewId(q, j) = NewId(q, k)) = k
    BY <2>2
  <2> QED BY <1>4, <1>5, <2>1, <2>3
<1>7. \A i \in NewIds(q) : \E k \in N : i = NewId(q, k) /\ F[i] = q.list[k].sequence
  BY <1>6 DEF NewIds
<1>8. \A i \in Ids \ NewIds(q) : F[i] = IF i \in D THEN Absent ELSE U[i]
  BY <1>5
<1>9. F \in ProcessTable
  <2>1. F = [i \in Ids |-> F[i]]
    BY DEF Flushed
  <2>2. \A i \in Ids : F[i] \in Numbers \cup {Absent}
    BY <1>1, <1>2, <1>7, <1>8 DEF ProcessTable
  <2> HIDE DEF F
  <2> QED BY <2>1, <2>2 DEF ProcessTable
<1>10. Present(F) = (Present(table) \ D) \cup NewIds(q)
  <2>1. ASSUME NEW i \in NewIds(q) PROVE i \in Ids /\ F[i] # Absent
    BY <1>2, <1>4, <1>7, ParameterFacts
  <2>2. ASSUME NEW i \in Ids \ NewIds(q) PROVE F[i] # Absent <=> i \in Present(U) \ D
    BY <1>8 DEF Present
  <2>3. Present(F) = {i \in Ids : F[i] # Absent} /\ Present(U) \subseteq Ids
    BY DEF Present
  <2> HIDE DEF F, U, D
  <2> QED BY <1>1, <1>4, <2>1, <2>2, <2>3
<1>11. \A i \in Present(table) \ D : i \in Present(U) /\ i \notin NewIds(q) /\ F[i] = U[i]
  BY <1>1, <1>4, <1>8 DEF Present
<1>12. ASSUME NEW k \in N, NEW j \in Ids PROVE U[j] # q.list[k].sequence
  BY DEF Accepted, InsertsAccepted
<1>13. ASSUME NEW j \in N, NEW k \in N, q.list[j].sequence = q.list[k].sequence PROVE j = k
  BY <1>2, <1>13 DEF Accepted, InsertsAccepted
<1>14. ASSUME NEW i \in Present(F), NEW j \in Present(F), F[i] = F[j] PROVE i = j
  <2>1. CASE i \in NewIds(q) /\ j \in NewIds(q)
    BY <1>7, <1>13, <1>14, <2>1
  <2>2. CASE i \in NewIds(q) /\ j \notin NewIds(q)
    BY <1>7, <1>10, <1>11, <1>12, <1>14, <2>2 DEF Present
  <2>3. CASE i \notin NewIds(q) /\ j \in NewIds(q)
    BY <1>7, <1>10, <1>11, <1>12, <1>14, <2>3 DEF Present
  <2>4. CASE i \notin NewIds(q) /\ j \notin NewIds(q)
    BY <1>1, <1>10, <1>11, <1>14, <2>4 DEF Apart
  <2> QED BY <2>1, <2>2, <2>3, <2>4
<1> HIDE DEF F, U, D, N
<1>15. Apart(F)
  BY <1>14 DEF Apart
<1> USE DEF F, U, D, N
<1> QED BY <1>4, <1>6, <1>9, <1>10, <1>11, <1>15
-----------------------------------------------------------------------------
(* The invariant.                                                          *)

InFlight == {s \in Slots : sync[s].busy}

\* A list names processes of the copy it was checked against, and that copy is
\* the table t until another sync changes it; n is the next id.
CopyKnown(q, t, n) ==
    /\ q \in Syncing
    /\ \A i \in Present(q.loaded) : i < n
    /\ \A k \in DOMAIN q.list : q.list[k].id \in Present(q.loaded) \cup {Absent}
    /\ ~q.raced => q.loaded = t

SyncsKnow ==
    /\ sync = [s \in Slots |-> sync[s]]
    /\ \A s \in Slots : sync[s] = NoSync \/ CopyKnown(sync[s], table, next)

\* An id in use was drawn, and every sync started still has room for its ids.
IdsLeft ==
    /\ next \in Nat \ {0, 1, 2} /\ started \in 0 .. MaxSyncs
    /\ \A i \in Present(table) : i < next
    /\ IsFiniteSet(InFlight)
    /\ next + MaxLength * Cardinality(InFlight) <= 3 + MaxLength * started

ProcessesInv ==
    /\ table \in ProcessTable /\ Apart(table) /\ recorded \subseteq Ids /\ refused \in BOOLEAN
    /\ SyncsKnow /\ IdsLeft /\ RecordedKept

\* A slot is free or holds a sync.
LEMMA IdleOrSyncing == ~NoSync.busy /\ \A q \in Syncing : q.busy
  BY DEF NoSync, Syncing

\* There is room for the ids of a sync in flight.
LEMMA RoomForIds ==
    ASSUME ProcessesInv
    PROVE  /\ next <= MaxId + 1
           /\ \A s \in InFlight : next + MaxLength <= MaxId + 1
<1> DEFINE c == Cardinality(InFlight)
<1>1. c \in Nat /\ next \in Nat /\ started \in Nat /\ started <= MaxSyncs
      /\ MaxLength \in Nat /\ MaxSyncs \in Nat /\ MaxId \in Nat
      /\ 2 + MaxLength * MaxSyncs <= MaxId
      /\ next + MaxLength * c <= 3 + MaxLength * started
  BY ParameterFacts, FS_CardinalityType DEF ProcessesInv, IdsLeft
<1>2. \A s \in InFlight : c # 0
  BY FS_EmptySet DEF ProcessesInv, IdsLeft
<1> HIDE DEF c
<1>3. MaxLength * started \in Nat /\ MaxLength * started <= MaxLength * MaxSyncs
      /\ MaxLength * MaxSyncs \in Nat
  BY <1>1, Products
<1>4. MaxLength * c \in Nat
  BY <1>1
<1>5. \A s \in InFlight : MaxLength <= MaxLength * c
  <2>1. c # 0 => MaxLength * 1 <= MaxLength * c
    <3>1. c # 0 => 1 <= c
      BY <1>1
    <3> QED BY <1>1, <3>1, Products
  <2> QED BY <1>1, <1>2, <2>1
<1> QED BY <1>1, <1>3, <1>4, <1>5

\* The invariant holds the types.
LEMMA ProcessesTypes == ASSUME ProcessesInv PROVE ProcessesTypeOK
<1>1. next \in 3 .. MaxId + 1
  BY RoomForIds, ParameterFacts DEF ProcessesInv, IdsLeft
<1>2. \A s \in Slots : sync[s].busy => sync[s].loaded \in ProcessTable /\ sync[s].list \in Items
  BY IdleOrSyncing DEF ProcessesInv, SyncsKnow, CopyKnown, Syncing, ProcessTable
<1> QED BY <1>1, <1>2 DEF ProcessesInv, IdsLeft, ProcessesTypeOK, ProcessTable, Apart

\* A standard created with two processes.
LEMMA ProcessesInit == ASSUME SyncInit PROVE ProcessesInv
<1>1. PICK a \in Numbers, b \in Numbers :
          a # b /\ table = [i \in Ids |-> CASE i = 1 -> a [] i = 2 -> b [] OTHER -> Absent]
  BY DEF SyncInit
<1>2. \A i \in Ids : i \in Nat /\ table[i] = IF i = 1 THEN a ELSE IF i = 2 THEN b ELSE Absent
  BY <1>1, ParameterFacts
<1>3. table \in ProcessTable
  BY <1>1, <1>2 DEF ProcessTable
<1>4. \A i \in Present(table) : i \in {1, 2} /\ table[i] = IF i = 1 THEN a ELSE b
  BY <1>2 DEF Present
<1>5. Apart(table) /\ \A i \in Present(table) : i < 3
  BY <1>1, <1>4 DEF Apart
<1>6. next = 3 /\ recorded = {} /\ started = 0 /\ refused = FALSE /\ sync = [s \in Slots |-> NoSync]
  BY DEF SyncInit
<1>7. InFlight = {}
  BY <1>6, IdleOrSyncing DEF InFlight
<1>8. IdsLeft
  <2>1. MaxLength * 0 = 0
    BY ParameterFacts
  <2> QED BY <1>5, <1>6, <1>7, <2>1, ParameterFacts, FS_EmptySet DEF IdsLeft
<1>9. SyncsKnow /\ RecordedKept
  BY <1>6 DEF SyncsKnow, RecordedKept
<1> QED BY <1>3, <1>5, <1>6, <1>8, <1>9 DEF ProcessesInv

\* A sync is started: it has room for as many ids as a list has places.
LEMMA SyncStep ==
    ASSUME ProcessesInv, NEW s \in Slots, NEW list \in Items, Sync(s, list)
    PROVE  ProcessesInv'
<1> DEFINE q == [busy |-> TRUE, loaded |-> table, list |-> list, raced |-> FALSE]
<1>1. /\ ~sync[s].busy /\ sync' = [sync EXCEPT ![s] = q]
      /\ started < MaxSyncs /\ started' = started + 1
      /\ \A k \in DOMAIN list : list[k].id \in Present(table) \cup {Absent}
      /\ UNCHANGED <<table, next, recorded, refused>>
  BY DEF Sync
<1>2. q \in Syncing /\ CopyKnown(q, table', next')
  BY <1>1 DEF ProcessesInv, IdsLeft, Syncing, ProcessTable, CopyKnown
<1> HIDE DEF q
<1>3. SyncsKnow'
  BY <1>1, <1>2 DEF ProcessesInv, SyncsKnow
<1>4. InFlight' = InFlight \cup {s} /\ s \notin InFlight
  BY <1>1, <1>2, IdleOrSyncing DEF InFlight, ProcessesInv, SyncsKnow
<1>5. IsFiniteSet(InFlight') /\ Cardinality(InFlight') = Cardinality(InFlight) + 1
  BY <1>4, FS_AddElement DEF ProcessesInv, IdsLeft
<1>6. next' + MaxLength * Cardinality(InFlight') <= 3 + MaxLength * started'
  <2>1. Cardinality(InFlight) \in Nat /\ started \in Nat /\ MaxLength \in Nat /\ next \in Nat
        /\ next + MaxLength * Cardinality(InFlight) <= 3 + MaxLength * started
    BY ParameterFacts, FS_CardinalityType DEF ProcessesInv, IdsLeft
  <2>2. /\ MaxLength * (Cardinality(InFlight) + 1) = MaxLength * Cardinality(InFlight) + MaxLength
        /\ MaxLength * (started + 1) = MaxLength * started + MaxLength
        /\ MaxLength * Cardinality(InFlight) \in Nat /\ MaxLength * started \in Nat
    BY <2>1, Products
  <2> QED BY <1>1, <1>5, <2>1, <2>2
<1>7. started' \in 0 .. MaxSyncs
  BY <1>1, ParameterFacts DEF ProcessesInv, IdsLeft
<1> QED BY <1>1, <1>3, <1>5, <1>6, <1>7 DEF ProcessesInv, IdsLeft, RecordedKept

\* A slot becomes free, and of its room n ids are used.
LEMMA RoomKept ==
    ASSUME ProcessesInv, NEW s \in InFlight, InFlight' = InFlight \ {s},
           NEW n \in 0 .. MaxLength, next' = next + n, started' = started
    PROVE  IsFiniteSet(InFlight') /\ next' + MaxLength * Cardinality(InFlight') <= 3 + MaxLength * started'
<1> DEFINE c == Cardinality(InFlight')
<1>1. IsFiniteSet(InFlight') /\ c = Cardinality(InFlight) - 1
  BY FS_RemoveElement DEF ProcessesInv, IdsLeft
<1>2. c \in Nat /\ Cardinality(InFlight) = c + 1
  BY <1>1, FS_CardinalityType DEF ProcessesInv, IdsLeft
<1> HIDE DEF c
<1>3. MaxLength \in Nat /\ next \in Nat /\ started \in Nat
      /\ next + MaxLength * (c + 1) <= 3 + MaxLength * started
  BY <1>2, ParameterFacts DEF ProcessesInv, IdsLeft
<1>4. MaxLength * (c + 1) = MaxLength * c + MaxLength /\ MaxLength * c \in Nat /\ MaxLength * started \in Nat
  BY <1>2, <1>3, Products
<1>5. next' + MaxLength * c <= 3 + MaxLength * started'
  BY <1>3, <1>4
<1> QED BY <1>1, <1>5 DEF c

\* A commit puts its list in the table, and tells the other syncs.
LEMMA ApplyStep ==
    ASSUME ProcessesInv, NEW s \in Slots, Apply(s)
    PROVE  ProcessesInv'
<1> DEFINE q == sync[s]
           n == Cardinality(New(q))
<1>1. /\ q.busy /\ Accepted(q) /\ table' = Flushed(q) /\ next' = next + n
      /\ sync' = [t \in Slots |->
             IF t = s \/ ~sync[t].busy THEN NoSync
             ELSE [sync[t] EXCEPT !.raced = @ \/ table' # table]]
      /\ UNCHANGED <<recorded, started, refused>>
  BY DEF Apply
<1>2. CopyKnown(q, table, next) /\ q \in Syncing /\ s \in InFlight
  BY <1>1, IdleOrSyncing DEF ProcessesInv, SyncsKnow, CopyKnown, InFlight
<1>3. n \in 0 .. MaxLength /\ n \in Nat /\ next \in Nat \ {0, 1, 2}
  BY <1>2, ListFacts, ParameterFacts DEF ProcessesInv, IdsLeft
<1>4. next + n <= MaxId + 1
  BY <1>2, <1>3, RoomForIds, ParameterFacts
<1> HIDE DEF q, n
<1>5. /\ table' \in ProcessTable /\ Apart(table')
      /\ Present(table') = (Present(table) \ Dropped(q)) \cup NewIds(q)
      /\ \A i \in NewIds(q) : i >= next /\ i < next'
  BY <1>1, <1>2, <1>3, <1>4, FlushedTable DEF n, ProcessesInv, IdsLeft, CopyKnown
<1>6. \A i \in Present(table') : i \in Ids /\ i < next'
  <2>1. \A i \in Present(table') : i \in Ids
    BY DEF Present
  <2> QED BY <1>1, <1>3, <1>5, <2>1, ParameterFacts DEF ProcessesInv, IdsLeft
<1>7. recorded' \subseteq Present(table')
  <2>1. recorded \cap Dropped(q) = {}
    BY <1>1 DEF Accepted, DeletesAccepted
  <2> QED BY <1>1, <1>5, <2>1 DEF ProcessesInv, RecordedKept
\* The other syncs keep their copies, and know when the table has changed.
<1>8. SyncsKnow'
  <2>1. ASSUME NEW t \in Slots, sync'[t] # NoSync
        PROVE  CopyKnown(sync'[t], table', next')
    <3>1. sync[t].busy /\ sync'[t] = [sync[t] EXCEPT !.raced = @ \/ table' # table]
      BY <1>1, <2>1
    <3>2. CopyKnown(sync[t], table, next)
      BY <3>1, IdleOrSyncing DEF ProcessesInv, SyncsKnow
    <3>3. \A i \in Present(sync[t].loaded) : i \in Nat
      BY ParameterFacts DEF Present
    <3> DEFINE b == sync[t].raced \/ table' # table
    <3>4. b \in BOOLEAN /\ (~b => ~sync[t].raced /\ table' = table)
      BY <3>2 DEF CopyKnown, Syncing
    <3>5. sync'[t] = [sync[t] EXCEPT !.raced = b]
      BY <3>1
    <3> HIDE DEF b
    <3>6. sync'[t] \in Syncing /\ sync'[t].loaded = sync[t].loaded /\ sync'[t].list = sync[t].list
          /\ sync'[t].raced = b
      BY <3>2, <3>4, <3>5 DEF CopyKnown, Syncing
    <3> QED BY <1>1, <1>3, <3>2, <3>3, <3>4, <3>6 DEF CopyKnown
  <2>2. sync' = [t \in Slots |-> sync'[t]]
    BY <1>1
  <2> QED BY <2>1, <2>2 DEF SyncsKnow
<1>9. InFlight' = InFlight \ {s}
  <2>1. \A t \in Slots : sync'[t].busy <=> t # s /\ sync[t].busy
    BY <1>1, IdleOrSyncing DEF ProcessesInv, SyncsKnow, CopyKnown, Syncing
  <2> QED BY <2>1 DEF InFlight
<1>10. IsFiniteSet(InFlight') /\ next' + MaxLength * Cardinality(InFlight') <= 3 + MaxLength * started'
  BY <1>1, <1>2, <1>3, <1>9, RoomKept
<1>11. IdsLeft'
  BY <1>1, <1>3, <1>6, <1>10 DEF ProcessesInv, IdsLeft
<1> QED BY <1>1, <1>5, <1>7, <1>8, <1>11 DEF ProcessesInv, RecordedKept

\* A refused flush frees its slot and leaves the table.
LEMMA RefuseStep ==
    ASSUME ProcessesInv, NEW s \in Slots, Refuse(s)
    PROVE  ProcessesInv'
<1>1. /\ sync[s].busy /\ sync' = [sync EXCEPT ![s] = NoSync]
      /\ refused' \in BOOLEAN
      /\ UNCHANGED <<table, next, recorded, started>>
  BY DEF Refuse, ProcessesInv
<1>2. SyncsKnow'
  BY <1>1 DEF ProcessesInv, SyncsKnow
<1>3. s \in InFlight /\ InFlight' = InFlight \ {s}
  BY <1>1, IdleOrSyncing DEF InFlight, ProcessesInv, SyncsKnow
<1>4. 0 \in 0 .. MaxLength /\ next' = next + 0
  BY <1>1, ParameterFacts DEF ProcessesInv, IdsLeft
<1>5. IsFiniteSet(InFlight') /\ next' + MaxLength * Cardinality(InFlight') <= 3 + MaxLength * started'
  BY <1>1, <1>3, <1>4, RoomKept
<1> QED BY <1>1, <1>2, <1>5 DEF ProcessesInv, IdsLeft, RecordedKept

\* Every step preserves the invariant.
LEMMA ProcessesStep == ProcessesInv /\ [SyncNext]_syncVars => ProcessesInv'
<1> SUFFICES ASSUME ProcessesInv, [SyncNext]_syncVars PROVE ProcessesInv'
  OBVIOUS
<1>1. ASSUME NEW s \in Slots, NEW list \in Items, Sync(s, list) PROVE ProcessesInv'
  BY <1>1, SyncStep
<1>2. ASSUME NEW s \in Slots, Apply(s) PROVE ProcessesInv'
  BY <1>2, ApplyStep
<1>3. ASSUME NEW s \in Slots, Refuse(s) PROVE ProcessesInv'
  BY <1>3, RefuseStep
<1>4. ASSUME NEW i \in Ids, BeginProcess(i) PROVE ProcessesInv'
  BY <1>4 DEF BeginProcess, ProcessesInv, SyncsKnow, IdsLeft, InFlight, RecordedKept
<1>5. CASE UNCHANGED syncVars
  BY <1>5 DEF syncVars, ProcessesInv, SyncsKnow, IdsLeft, InFlight, RecordedKept
<1> QED BY <1>1, <1>2, <1>3, <1>4, <1>5 DEF SyncNext, Get

-----------------------------------------------------------------------------
(* Theorems.                                                               *)

\* The columns of job_processes keep their types, no two processes of the
\* standard share a number, and the ids drawn stay within the table, however
\* many syncs overlap (uq_job_process_seq, checked at every statement).
THEOREM ProcessesTyped == SyncSpec => []ProcessesTypeOK
<1>1. SyncInit => ProcessesInv
  BY ProcessesInit
<1>2. ProcessesInv /\ [SyncNext]_syncVars => ProcessesInv'
  BY ProcessesStep
<1>3. ProcessesInv => ProcessesTypeOK
  BY ProcessesTypes
<1> QED BY <1>1, <1>2, <1>3, PTL DEF SyncSpec

\* No sync drops a process that work was recorded on, though it may have
\* checked its list before the record was there (ON DELETE RESTRICT of
\* work_process_records).
THEOREM RecordedProcessesStay == SyncSpec => []RecordedKept
<1>1. SyncInit => ProcessesInv
  BY ProcessesInit
<1>2. ProcessesInv /\ [SyncNext]_syncVars => ProcessesInv'
  BY ProcessesStep
<1>3. ProcessesInv => RecordedKept
  BY DEF ProcessesInv
<1> QED BY <1>1, <1>2, <1>3, PTL DEF SyncSpec

\* The table that the commit of a sync leaves when nobody else changed it.
LEMMA ExactTable ==
    ASSUME ProcessesInv, NEW s \in Slots, Apply(s), ~sync[s].raced
    PROVE  LET q == sync[s] IN
           /\ Present(table') \cap Present(table) = {i \in Ids : Places(q, i) # {}}
           /\ \A i \in Present(table') \cap Present(table) : table'[i] = Target(q, i)
           /\ Cardinality(Present(table') \ Present(table)) = Cardinality(New(q))
           /\ {table'[i] : i \in Present(table') \ Present(table)} = {q.list[k].sequence : k \in New(q)}
<1> DEFINE q == sync[s]
           n == Cardinality(New(q))
           named == {i \in Ids : Places(q, i) # {}}
<1>1. q.busy /\ Accepted(q) /\ table' = Flushed(q)
  BY DEF Apply
<1>2. CopyKnown(q, table, next) /\ q \in Syncing /\ s \in InFlight /\ q.loaded = table
  BY <1>1, IdleOrSyncing DEF ProcessesInv, SyncsKnow, CopyKnown, InFlight
<1>3. n \in 0 .. MaxLength /\ next \in Nat \ {0, 1, 2}
  BY <1>2, ListFacts DEF ProcessesInv, IdsLeft
<1>4. next + n <= MaxId + 1
  BY <1>2, <1>3, RoomForIds, ParameterFacts
<1> HIDE DEF q, n
<1>5. /\ Present(table') = (Present(table) \ Dropped(q)) \cup NewIds(q)
      /\ \A i \in Present(table) \ Dropped(q) : table'[i] = Updated(q)[i]
      /\ \A k \in New(q) : table'[NewId(q, k)] = q.list[k].sequence
      /\ \A i \in NewIds(q) : i >= next
  BY <1>1, <1>2, <1>3, <1>4, FlushedTable DEF n, ProcessesInv, IdsLeft
<1>6. \A i \in NewIds(q) : i \notin Present(table)
  <2>1. \A i \in Present(table) : i < next /\ i \in Nat
    BY ParameterFacts DEF ProcessesInv, IdsLeft, Present
  <2> QED BY <1>3, <1>5, <2>1
<1>7. Present(table') \cap Present(table) = Kept(q) /\ Present(table') \ Present(table) = NewIds(q)
  BY <1>2, <1>5, <1>6 DEF Dropped, Kept
<1>8. Kept(q) = named
  <2>1. ASSUME NEW i \in Ids, Places(q, i) # {} PROVE i \in Present(q.loaded)
    <3>1. PICK k \in DOMAIN q.list : q.list[k].id = i
      BY <2>1 DEF Places
    <3> QED BY <1>2, <3>1, ParameterFacts DEF CopyKnown
  <2> QED BY <2>1 DEF Kept, Present
<1>9. ASSUME NEW i \in Kept(q) PROVE table'[i] = Target(q, i)
  <2>1. table'[i] = Updated(q)[i]
    BY <1>2, <1>5, <1>9 DEF Kept, Dropped
  <2>2. i \in Ids /\ Updated(q)[i] = IF i \in Dirty(q) THEN Target(q, i) ELSE table[i]
    BY <1>1, <1>2, <1>9, UpdatedTable DEF ProcessesInv, Accepted, Kept, Present
  <2> QED BY <1>2, <1>9, <2>1, <2>2 DEF Dirty
<1>10. Cardinality(NewIds(q)) = Cardinality(New(q))
  BY <1>2, <1>3, NewIdFacts
<1>11. {table'[i] : i \in NewIds(q)} = {q.list[k].sequence : k \in New(q)}
  BY <1>5 DEF NewIds
<1> QED BY <1>7, <1>8, <1>9, <1>10, <1>11 DEF q

\* An action property: the commit of sync_processes leaves exactly its list,
\* unless another sync changed the table since this one loaded it.
THEOREM SyncsExact == SyncSpec => SyncExactUnlessRaced
<1>1. SyncInit => ProcessesInv
  BY ProcessesInit
<1>2. ProcessesInv /\ [SyncNext]_syncVars => ProcessesInv'
  BY ProcessesStep
<1> DEFINE Exact(s) ==
      LET q == sync[s] IN
         q.busy /\ ~sync'[s].busy /\ table' # table /\ ~q.raced =>
           /\ Present(table') \cap Present(table) = {i \in Ids : Places(q, i) # {}}
           /\ \A i \in Present(table') \cap Present(table) : table'[i] = Target(q, i)
           /\ Cardinality(Present(table') \ Present(table)) = Cardinality(New(q))
           /\ {table'[i] : i \in Present(table') \ Present(table)} = {q.list[k].sequence : k \in New(q)}
<1>3. ASSUME ProcessesInv, [SyncNext]_syncVars, NEW s \in Slots PROVE Exact(s)
  <2> SUFFICES ASSUME sync[s].busy, ~sync'[s].busy, table' # table, ~sync[s].raced
               PROVE  Exact(s)
    OBVIOUS
  <2> HIDE DEF Exact
  \* Only a commit changes the table, and it ends its own sync alone.
  <2>1. PICK t \in Slots : Apply(t)
    BY <1>3 DEF SyncNext, syncVars, Sync, Refuse, BeginProcess, Get
  <2>2. t = s
    <3>1. t # s => sync'[s] = [sync[s] EXCEPT !.raced = @ \/ table' # table]
      BY <2>1 DEF Apply
    <3>2. sync[s] \in Syncing
      BY <1>3, IdleOrSyncing DEF ProcessesInv, SyncsKnow, CopyKnown
    <3>3. t # s => sync'[s].busy = sync[s].busy
      BY <3>1, <3>2 DEF Syncing
    <3> QED BY <3>3
  <2> QED BY <1>3, <2>1, <2>2, ExactTable DEF Exact
<1>4. ProcessesInv /\ [SyncNext]_syncVars => \A s \in Slots : Exact(s)
  BY <1>3
<1> QED BY <1>1, <1>2, <1>4, PTL DEF SyncSpec, SyncExactUnlessRaced
-----------------------------------------------------------------------------
(* Which lists are applied.                                                *)

\* The numbers that a list hands out, to new processes and to those that it
\* moves, are nobody's yet.
NumbersFree(q) ==
    \A k \in DOMAIN q.list : LET item == q.list[k] IN
        item.id = Absent \/ q.loaded[item.id] # item.sequence
            => \A i \in Present(q.loaded) : q.loaded[i] # item.sequence

\* The flush of such a list meets no number on its way.
LEMMA FreeListAccepted ==
    ASSUME NEW q, CopyKnown(q, table, next), q.loaded = table,
           Applicable(q), NumbersFree(q)
    PROVE  Accepted(q)
<1>1. /\ \A k \in DOMAIN q.list : q.list[k].sequence \in Numbers /\ k \in Nat
      /\ New(q) \subseteq DOMAIN q.list
      /\ q \in Syncing /\ DOMAIN q.list \subseteq Nat
  BY ListFacts, ParameterFacts DEF CopyKnown
<1>2. \A j, k \in DOMAIN q.list : q.list[j].sequence = q.list[k].sequence => j = k
  BY DEF Applicable, IsInjective
\* A process that moves has one place in the list, with a free number.
<1>3. ASSUME NEW i \in Dirty(q)
      PROVE  /\ i \in Ids /\ i # Absent /\ i \in Present(table)
             /\ \E k \in DOMAIN q.list :
                    q.list[k].id = i /\ Target(q, i) = q.list[k].sequence
             /\ Target(q, i) \in Numbers
             /\ \A j \in Ids : table[j] # Target(q, i)
  <2>1. i \in Ids /\ i # Absent /\ i \in Present(table) /\ Places(q, i) # {}
        /\ Target(q, i) # table[i]
    BY ParameterFacts DEF Dirty, Kept, Present
  <2>2. PICK n \in 0 .. MaxLength : DOMAIN q.list = 1 .. n
    BY <1>1, ListFacts
  <2>3. n \in Nat /\ Places(q, i) \in SUBSET (1 .. n)
    BY <2>2, ParameterFacts DEF Places
  <2>4. PICK k \in Places(q, i) : k = Max(Places(q, i))
    BY <2>1, <2>3, LastPlace
  <2>5. k \in DOMAIN q.list /\ q.list[k].id = i /\ Target(q, i) = q.list[k].sequence
    BY <2>4 DEF Places, Target
  <2>6. \A j \in Present(table) : table[j] # Target(q, i)
    BY <2>1, <2>5 DEF NumbersFree
  <2> QED BY <1>1, <2>1, <2>5, <2>6, ParameterFacts DEF Present
<1>4. ASSUME NEW k \in New(q), NEW j \in Ids PROVE table[j] # q.list[k].sequence
  <2>1. k \in DOMAIN q.list /\ q.list[k].id = Absent /\ q.list[k].sequence # Absent
    BY <1>1, ParameterFacts DEF New
  <2>2. \A i \in Present(table) : table[i] # q.list[k].sequence
    BY <2>1 DEF NumbersFree
  <2> QED BY <2>1, <2>2 DEF Present
<1>5. UpdatesAccepted(q)
  <2> SUFFICES ASSUME NEW i \in Dirty(q), NEW j \in Ids \ {i}
               PROVE  UpdatedBelow(q, i)[j] # Target(q, i)
    BY <1>3 DEF UpdatesAccepted
  <2>1. UpdatedBelow(q, i)[j] = IF j \in Dirty(q) /\ j < i THEN Target(q, j) ELSE table[j]
    BY DEF UpdatedBelow
  <2>2. j \in Dirty(q) => Target(q, j) # Target(q, i)
    BY <1>2, <1>3
  <2> QED BY <1>3, <2>1, <2>2
<1>6. InsertsAccepted(q)
  <2>1. ASSUME NEW k \in New(q), NEW j \in Ids PROVE Updated(q)[j] # q.list[k].sequence
    <3>1. Updated(q)[j] = table[j] \/ (j \in Dirty(q) /\ Updated(q)[j] = Target(q, j))
      BY DEF Updated, UpdatedBelow
    <3>2. j \in Dirty(q) => Target(q, j) # q.list[k].sequence
      BY <1>1, <1>2, <1>3 DEF New
    <3> QED BY <1>4, <3>1, <3>2
  <2>2. ASSUME NEW j \in New(q), NEW k \in New(q), j < k
        PROVE  q.list[j].sequence # q.list[k].sequence
    BY <1>1, <1>2, <2>2
  <2> QED BY <2>1, <2>2 DEF InsertsAccepted
<1> QED BY <1>5, <1>6 DEF Accepted, Applicable

\* A list that stands by itself is refused only because of the way to it: some
\* number that it hands out is still another process's in the table it was
\* checked against, or another sync has changed that table.
\* (sync_processes flushes once: UPDATEs, INSERTs, DELETEs.)
FreeListsApplied ==
    [][\A s \in Slots : Refuse(s) /\ ~sync[s].raced /\ Applicable(sync[s])
           => ~NumbersFree(sync[s])]_syncVars

\* The lists that processes_order shows refused all hand out a number that is
\* still taken: nothing else refuses a list that stands by itself.
THEOREM FreeNumbersSuffice == SyncSpec => FreeListsApplied
<1>1. SyncInit => ProcessesInv
  BY ProcessesInit
<1>2. ProcessesInv /\ [SyncNext]_syncVars => ProcessesInv'
  BY ProcessesStep
<1> DEFINE Collided(s) ==
      Refuse(s) /\ ~sync[s].raced /\ Applicable(sync[s]) => ~NumbersFree(sync[s])
<1>3. ASSUME ProcessesInv, NEW s \in Slots PROVE Collided(s)
  <2> SUFFICES ASSUME Refuse(s), ~sync[s].raced, Applicable(sync[s]), NumbersFree(sync[s])
               PROVE  FALSE
    OBVIOUS
  <2>1. sync[s].busy /\ ~Accepted(sync[s])
    BY DEF Refuse
  <2>2. CopyKnown(sync[s], table, next) /\ sync[s].loaded = table
    BY <1>3, <2>1, IdleOrSyncing DEF ProcessesInv, SyncsKnow, CopyKnown
  <2> QED BY <2>1, <2>2, FreeListAccepted
<1>4. ProcessesInv /\ [SyncNext]_syncVars => \A s \in Slots : Collided(s)
  BY <1>3
<1> QED BY <1>1, <1>2, <1>4, PTL DEF SyncSpec, FreeListsApplied

=============================================================================
