--------------------------- MODULE WorkRecordsProofs ---------------------------
(***************************************************************************)
(* Proofs about WorkRecords, for every set of schedules, types, processes, *)
(* instants and request slots, and every bound on the records.             *)
(***************************************************************************)
EXTENDS WorkRecords, FiniteSetTheorems, TLAPS

-----------------------------------------------------------------------------
(***************************************************************************)
(* The inductive invariant.  A request decides at its read and writes at   *)
(* its commit; the parts say what it still knows in between.               *)
(***************************************************************************)

\* Which locals a request has assigned by the time it waits at q.pc.
WellFormed(q) ==
    /\ q.op = "none" <=> q.pc = "idle"
    /\ q.op # "none" => q.sched \in Schedules
    /\ q.op \in {"begin", "end"} => q.what \in Types \cup Processes
    /\ q.op \in {"end", "close"} => q.at \in Times

RequestsTyped == \A r \in Requests : WellFormed(req[r])

\* What a request has found is still there when it commits.
FoundStays ==
    \A r \in Requests :
        /\ req[r].op = "begin" /\ req[r].pc = "commit" => sched[req[r].sched].exists
        /\ req[r].op = "end" /\ req[r].pc = "commit" =>
               /\ req[r].rec \in 1 .. last
               /\ recs[req[r].rec].sched = req[r].sched /\ recs[req[r].rec].what = req[r].what

Typed == TypeOK /\ RequestsTyped /\ FoundStays

\* Two requests of one operation on one key that are in flight together are
\* both marked.
RaceMarked ==
    \A r, s \in Requests :
        r # s /\ req[r].op # "none" /\ Same(req[r], req[s]) => req[r].raced

\* An open record that a begin did not see when it looked is that of a racing
\* begin.
BeginKnows ==
    \A r \in Requests, i \in DOMAIN recs :
        /\ req[r].op = "begin" /\ req[r].pc = "commit" /\ req[r].what \in Types
        /\ recs[i].sched = req[r].sched /\ recs[i].what = req[r].what /\ recs[i].end = None
        => req[r].raced /\ recs[i].raced

\* A record that was open when an end looked was closed by a racing end.
EndKnows ==
    \A r \in Requests :
        req[r].op = "end" /\ req[r].pc = "commit" /\ recs[req[r].rec].end # None => req[r].raced

\* An end of OFF that need not write the schedule has found it closed.
OffKnows ==
    \A r \in Requests :
        req[r].op = "end" /\ req[r].pc = "commit" /\ req[r].what = OFF /\ ~req[r].dirty
        => sched[req[r].sched].end # None

RecordsInv ==
    Typed /\ RaceMarked /\ BeginKnows /\ EndKnows /\ OffKnows
    /\ SecondOpenOnlyByRace /\ OffClosesSchedule

-----------------------------------------------------------------------------
(* Types.                                                                  *)

\* Nothing is ever removed: a schedule stays, a record keeps its key.
Kept ==
    /\ \A s \in Schedules : sched[s].exists => sched'[s].exists
    /\ last <= last'
    /\ \A i \in 1 .. last : recs'[i].sched = recs[i].sched /\ recs'[i].what = recs[i].what

\* The locals a slot starts with.
LEMMA IdleTyped == Idle \in Req /\ WellFormed(Idle) /\ Idle.op = "none"
  BY BoundAssumption DEF Idle, Req, WellFormed

\* A step that keeps everything and moves one request on.
LEMMA SlotTyped ==
    ASSUME Typed, NEW r \in Requests, NEW q \in Req, WellFormed(q), req' = [req EXCEPT ![r] = q],
           last' \in Nat, Kept,
           q.op = "begin" /\ q.pc = "commit" => sched'[q.sched].exists,
           q.op = "end" /\ q.pc = "commit" =>
               q.rec \in 1 .. last' /\ recs'[q.rec].sched = q.sched /\ recs'[q.rec].what = q.what
    PROVE  req' \in [Requests -> Req] /\ RequestsTyped' /\ FoundStays'
<1>1. req' \in [Requests -> Req] /\ req'[r] = q /\ \A x \in Requests \ {r} : req'[x] = req[x]
  BY DEF Typed, TypeOK
<1>2. RequestsTyped'
  BY <1>1 DEF Typed, RequestsTyped
<1>3. FoundStays'
  <2> SUFFICES ASSUME NEW x \in Requests \ {r}
               PROVE  /\ req[x].op = "begin" /\ req[x].pc = "commit" => sched'[req[x].sched].exists
                      /\ req[x].op = "end" /\ req[x].pc = "commit" =>
                             /\ req[x].rec \in 1 .. last'
                             /\ recs'[req[x].rec].sched = req[x].sched
                             /\ recs'[req[x].rec].what = req[x].what
    BY <1>1 DEF FoundStays
  <2>1. req[x] \in Req /\ WellFormed(req[x]) /\ last \in Nat
    BY BoundAssumption DEF Typed, TypeOK, RequestsTyped
  <2> QED BY <2>1 DEF Typed, FoundStays, Kept, WellFormed
<1> QED BY <1>1, <1>2, <1>3

\* An arrival changes the history field of the others only.
LEMMA ArriveTyped ==
    ASSUME Typed, NEW r \in Requests, NEW q \in Req, WellFormed(q), q.op # "none", q.pc = "read",
           Arrive(r, q)
    PROVE  /\ req' \in [Requests -> Req] /\ RequestsTyped' /\ FoundStays'
           /\ UNCHANGED <<sched, recs, last>>
           /\ \A x \in Requests \ {r} :
                  /\ req'[x].op = req[x].op /\ req'[x].pc = req[x].pc
                  /\ req'[x].sched = req[x].sched /\ req'[x].what = req[x].what
                  /\ req'[x].rec = req[x].rec /\ req'[x].dirty = req[x].dirty
                  /\ req'[x].raced = (req[x].raced \/ Same(req[x], q))
           /\ req'[r].op = q.op /\ req'[r].pc = "read"
           /\ req'[r].sched = q.sched /\ req'[r].what = q.what
           /\ req'[r].raced = \E y \in Requests : Same(req[y], q)
<1> DEFINE own == \E y \in Requests : Same(req[y], q)
           met(x) == req[x].raced \/ Same(req[x], q)
<1>1. /\ req' = [x \in Requests |-> IF x = r THEN [q EXCEPT !.raced = own]
                                    ELSE [req[x] EXCEPT !.raced = met(x)]]
      /\ UNCHANGED <<sched, recs, last>>
  BY DEF Arrive
<1>2. own \in BOOLEAN /\ \A x \in Requests : met(x) \in BOOLEAN
  BY DEF Typed, TypeOK, Req, Same
<1>3. \A x \in Requests : req[x] \in Req /\ WellFormed(req[x])
  BY DEF Typed, TypeOK, RequestsTyped
<1> HIDE DEF own, met
<1>4. ASSUME NEW p \in Req, WellFormed(p), NEW b \in BOOLEAN
      PROVE  [p EXCEPT !.raced = b] \in Req /\ WellFormed([p EXCEPT !.raced = b])
  BY <1>4 DEF Req, WellFormed
<1>5. req' \in [Requests -> Req] /\ RequestsTyped'
  <2>1. \A x \in Requests : req'[x] \in Req /\ WellFormed(req'[x])
    BY <1>1, <1>2, <1>3, <1>4
  <2> QED BY <1>1, <2>1 DEF RequestsTyped
<1>6. \A x \in Requests \ {r} :
          /\ req'[x].op = req[x].op /\ req'[x].pc = req[x].pc
          /\ req'[x].sched = req[x].sched /\ req'[x].what = req[x].what
          /\ req'[x].rec = req[x].rec /\ req'[x].dirty = req[x].dirty
          /\ req'[x].raced = met(x)
  BY <1>1, <1>3 DEF Req
<1>7. /\ req'[r].op = q.op /\ req'[r].pc = "read"
      /\ req'[r].sched = q.sched /\ req'[r].what = q.what /\ req'[r].raced = own
  BY <1>1 DEF Req
<1>8. FoundStays'
  BY <1>1, <1>6, <1>7 DEF FoundStays, Typed
<1> QED BY <1>1, <1>5, <1>6, <1>7, <1>8 DEF own, met

\* The locals with which the requests arrive.
Fresh(q) == q \in Req /\ WellFormed(q) /\ q.op # "none" /\ q.pc = "read"

\* A begin, of a type or a process.
LEMMA BeginFresh ==
    ASSUME NEW s \in Schedules, NEW k \in Types \cup Processes
    PROVE  Fresh([Idle EXCEPT !.op = "begin", !.pc = "read", !.sched = s, !.what = k])
<1> DEFINE q == [Idle EXCEPT !.op = "begin", !.pc = "read", !.sched = s, !.what = k]
<1>1. q \in Req /\ q.op = "begin" /\ q.pc = "read" /\ q.sched = s /\ q.what = k
  BY IdleTyped DEF Req
<1> HIDE DEF q
<1>2. Fresh(q)
  BY <1>1 DEF Fresh, WellFormed
<1> QED BY <1>2 DEF q

\* An end.
LEMMA EndFresh ==
    ASSUME NEW s \in Schedules, NEW k \in Types \cup Processes, NEW at \in Times
    PROVE  Fresh([Idle EXCEPT !.op = "end", !.pc = "read", !.sched = s, !.what = k, !.at = at])
<1> DEFINE q == [Idle EXCEPT !.op = "end", !.pc = "read", !.sched = s, !.what = k, !.at = at]
<1>1. q \in Req /\ q.op = "end" /\ q.pc = "read" /\ q.sched = s /\ q.what = k /\ q.at = at
  BY IdleTyped DEF Req
<1> HIDE DEF q
<1>2. Fresh(q)
  BY <1>1 DEF Fresh, WellFormed
<1> QED BY <1>2 DEF q

\* A close of a schedule.
LEMMA CloseFresh ==
    ASSUME NEW s \in Schedules, NEW at \in Times
    PROVE  Fresh([Idle EXCEPT !.op = "close", !.pc = "read", !.sched = s, !.at = at])
<1> DEFINE q == [Idle EXCEPT !.op = "close", !.pc = "read", !.sched = s, !.at = at]
<1>1. q \in Req /\ q.op = "close" /\ q.pc = "read" /\ q.sched = s /\ q.at = at
  BY IdleTyped DEF Req
<1> HIDE DEF q
<1>2. Fresh(q)
  BY <1>1 DEF Fresh, WellFormed
<1> QED BY <1>2 DEF q

\* The committed schedules.
SchedTyped == sched \in [Schedules -> [exists : BOOLEAN, end : Times \cup {None}]]

\* An end, or a close, writes the end of a schedule and nothing else of it.
LEMMA CloseTyped ==
    ASSUME SchedTyped, NEW s \in Schedules, NEW at \in Times,
           sched' = sched \/ sched' = [sched EXCEPT ![s].end = at]
    PROVE  SchedTyped' /\ \A x \in Schedules : sched'[x].exists = sched[x].exists
<1>1. CASE sched' = sched
  BY <1>1 DEF SchedTyped
<1>2. CASE sched' = [sched EXCEPT ![s].end = at]
  BY <1>2 DEF SchedTyped
<1> QED BY <1>1, <1>2

\* Every step preserves the types and keeps schedules and records.
LEMMA TypeStep == Typed /\ [Next]_vars => Typed' /\ Kept
<1> SUFFICES ASSUME Typed, [Next]_vars PROVE Typed' /\ Kept
  OBVIOUS
<1> USE BoundAssumption
<1>t. /\ SchedTyped
      /\ last \in Nat /\ last <= MaxRecords /\ recs \in [1 .. last -> Record]
      /\ \A i \in 1 .. last : recs[i].sched \in Schedules /\ sched[recs[i].sched].exists
  BY DEF Typed, TypeOK, SchedTyped, Record
<1>r. \A r \in Requests : req[r] \in Req /\ WellFormed(req[r])
  BY DEF Typed, TypeOK, RequestsTyped
<1>u. UNCHANGED <<sched, recs, last>> => Kept
  BY <1>t DEF Kept
<1>s. ASSUME NEW r \in Requests, NEW q \in Req, WellFormed(q), req' = [req EXCEPT ![r] = q],
             q.op = "begin" /\ q.pc = "commit" => sched[q.sched].exists,
             q.op = "end" /\ q.pc = "commit" =>
                 q.rec \in 1 .. last /\ recs[q.rec].sched = q.sched /\ recs[q.rec].what = q.what,
             UNCHANGED <<sched, recs, last>>
      PROVE  Typed' /\ Kept
  <2>1. Kept /\ last' \in Nat
    BY <1>t, <1>s, <1>u
  <2>2. req' \in [Requests -> Req] /\ RequestsTyped' /\ FoundStays'
    BY <1>s, <2>1, SlotTyped
  <2> QED BY <1>s, <2>1, <2>2 DEF Typed, TypeOK
<1>e. ASSUME NEW r \in Requests, End(r), UNCHANGED <<sched, recs, last>> PROVE Typed' /\ Kept
  BY <1>e, <1>s, IdleTyped DEF End
<1>a. ASSUME NEW r \in Requests, NEW q, Fresh(q), Arrive(r, q)
      PROVE  Typed' /\ Kept
  <2>1. /\ req' \in [Requests -> Req] /\ RequestsTyped' /\ FoundStays'
        /\ UNCHANGED <<sched, recs, last>>
    BY <1>a, ArriveTyped DEF Fresh
  <2> QED BY <1>u, <2>1 DEF Typed, TypeOK
<1>1. ASSUME NEW s \in Schedules, NEW end \in Times \cup {None}, CreateSchedule(s, end)
      PROVE  Typed' /\ Kept
  <2>1. /\ sched' = [sched EXCEPT ![s] = [exists |-> TRUE, end |-> end]]
        /\ UNCHANGED <<recs, last, req>>
    BY <1>1 DEF CreateSchedule
  <2>2. SchedTyped' /\ \A x \in Schedules : sched[x].exists => sched'[x].exists
    BY <1>t, <2>1 DEF SchedTyped
  <2>3. Kept
    BY <1>t, <2>1, <2>2 DEF Kept
  <2>4. RequestsTyped' /\ FoundStays'
    BY <1>r, <2>1, <2>2 DEF Typed, RequestsTyped, FoundStays, WellFormed
  <2>5. \A i \in 1 .. last : sched'[recs[i].sched].exists
    BY <1>t, <2>2
  <2> QED BY <2>1, <2>2, <2>3, <2>4, <2>5 DEF Typed, TypeOK, SchedTyped
<1>2. ASSUME NEW r \in Requests, NEW s \in Schedules, NEW k \in Types \cup Processes,
             BeginArrives(r, s, k)
      PROVE  Typed' /\ Kept
  BY <1>2, <1>a, BeginFresh DEF BeginArrives
<1>3. ASSUME NEW r \in Requests, BeginRead(r) PROVE Typed' /\ Kept
  <2> DEFINE q == [req[r] EXCEPT !.pc = "commit"]
  <2>1. /\ UNCHANGED <<sched, recs, last>>
        /\ End(r) \/ (sched[req[r].sched].exists /\ req' = [req EXCEPT ![r] = q])
    BY <1>3, <1>t DEF BeginRead, Typed, TypeOK
  <2>2. q \in Req /\ WellFormed(q) /\ q.op = "begin" /\ q.sched = req[r].sched
    BY <1>3, <1>r DEF BeginRead, WellFormed, Req
  <2> HIDE DEF q
  <2> QED BY <1>s, <1>e, <2>1, <2>2
<1>4. ASSUME NEW r \in Requests, BeginCommit(r) PROVE Typed' /\ Kept
  <2> DEFINE n == [sched |-> req[r].sched, what |-> req[r].what, end |-> None, raced |-> req[r].raced]
  <2>1. n \in Record /\ sched[n.sched].exists
    BY <1>4, <1>r DEF BeginCommit, WellFormed, Record, Req, Typed, FoundStays
  <2>2. /\ last < MaxRecords /\ last' = last + 1 /\ sched' = sched
        /\ recs' = [i \in 1 .. last + 1 |-> IF i = last + 1 THEN n ELSE recs[i]]
        /\ req' = [req EXCEPT ![r] = Idle]
    BY <1>4 DEF BeginCommit, End
  <2> HIDE DEF n
  <2>3. recs' \in [1 .. last' -> Record] /\ \A i \in 1 .. last' : sched[recs'[i].sched].exists
    BY <1>t, <2>1, <2>2
  <2>4. Kept /\ last' \in 0 .. MaxRecords
    BY <1>t, <2>2 DEF Kept
  <2>5. req' \in [Requests -> Req] /\ RequestsTyped' /\ FoundStays'
    <3>1. last' \in Nat
      BY <2>4
    <3> QED BY <2>2, <2>4, <3>1, IdleTyped, SlotTyped
  <2> QED BY <1>t, <2>2, <2>3, <2>4, <2>5 DEF Typed, TypeOK, SchedTyped
<1>5. ASSUME NEW r \in Requests, EndRead(r) PROVE Typed' /\ Kept
  <2> DEFINE dirty == req[r].what = OFF /\ sched[req[r].sched].end # req[r].at
             q(i) == [req[r] EXCEPT !.pc = "commit", !.rec = i, !.dirty = dirty]
  <2>1. /\ UNCHANGED <<sched, recs, last>> /\ req[r].op = "end"
        /\ \/ End(r)
           \/ \E i \in OpenRecords(req[r].sched, req[r].what) : req' = [req EXCEPT ![r] = q(i)]
    BY <1>5, <1>t DEF EndRead, Typed, TypeOK
  <2>2. ASSUME NEW i \in OpenRecords(req[r].sched, req[r].what)
        PROVE  /\ q(i) \in Req /\ WellFormed(q(i)) /\ q(i).op = "end" /\ q(i).rec = i
               /\ q(i).sched = req[r].sched /\ q(i).what = req[r].what
               /\ i \in 1 .. last /\ recs[i].sched = req[r].sched /\ recs[i].what = req[r].what
    <3>1. i \in 1 .. last /\ recs[i].sched = req[r].sched /\ recs[i].what = req[r].what
      BY <1>t, <2>2 DEF OpenRecords
    <3>2. i \in 0 .. MaxRecords /\ dirty \in BOOLEAN
      BY <1>t, <3>1
    <3> HIDE DEF dirty
    <3> QED BY <1>r, <2>1, <3>1, <3>2 DEF WellFormed, Req
  <2> HIDE DEF q
  <2> QED BY <1>s, <1>e, <2>1, <2>2
<1>6. ASSUME NEW r \in Requests, EndCommit(r) PROVE Typed' /\ Kept
  <2> DEFINE s == req[r].sched
             i == req[r].rec
             at == req[r].at
  <2>1. at \in Times /\ s \in Schedules /\ i \in 1 .. last
    BY <1>6, <1>r DEF EndCommit, WellFormed, Typed, FoundStays
  <2>2. /\ recs' = [recs EXCEPT ![i].end = at]
        /\ sched' = sched \/ sched' = [sched EXCEPT ![s].end = at]
        /\ req' = [req EXCEPT ![r] = Idle] /\ last' = last
    BY <1>6 DEF EndCommit, End
  <2> HIDE DEF s, i, at
  <2>3. SchedTyped' /\ \A x \in Schedules : sched'[x].exists = sched[x].exists
    BY <1>t, <2>1, <2>2, CloseTyped
  <2>4. /\ recs' \in [1 .. last -> Record]
        /\ \A x \in 1 .. last : recs'[x].sched = recs[x].sched /\ recs'[x].what = recs[x].what
    <3>1. recs \in [1 .. last -> Record] /\ i \in 1 .. last /\ at \in Times
      BY <1>t, <2>1
    <3>2. recs' = [recs EXCEPT ![i].end = at]
      BY <2>2
    <3> QED BY ONLY <3>1, <3>2 DEF Record
  <2>5. Kept
    BY <1>t, <2>2, <2>3, <2>4 DEF Kept
  <2>6. req' \in [Requests -> Req] /\ RequestsTyped' /\ FoundStays'
    BY <1>t, <2>2, <2>5, IdleTyped, SlotTyped
  <2>7. \A x \in 1 .. last : sched'[recs'[x].sched].exists
    BY <1>t, <2>3, <2>4
  <2> QED BY <2>2, <2>3, <2>4, <2>5, <2>6, <2>7 DEF Typed, TypeOK, SchedTyped
<1>7. ASSUME NEW r \in Requests, CloseRead(r) PROVE Typed' /\ Kept
  <2> DEFINE q == [req[r] EXCEPT !.pc = "commit", !.dirty = sched[req[r].sched].end # req[r].at]
  <2>1. UNCHANGED <<sched, recs, last>> /\ (End(r) \/ req' = [req EXCEPT ![r] = q])
    BY <1>7, <1>t DEF CloseRead, Typed, TypeOK
  <2>2. q \in Req /\ WellFormed(q) /\ q.op = "close"
    BY <1>7, <1>r DEF CloseRead, WellFormed, Req
  <2> HIDE DEF q
  <2> QED BY <1>s, <1>e, <2>1, <2>2
<1>8. ASSUME NEW r \in Requests, CloseCommit(r) PROVE Typed' /\ Kept
  <2> DEFINE s == req[r].sched
             at == req[r].at
  <2>1. at \in Times /\ s \in Schedules
    BY <1>8, <1>r DEF CloseCommit, WellFormed
  <2>2. /\ sched' = sched \/ sched' = [sched EXCEPT ![s].end = at]
        /\ req' = [req EXCEPT ![r] = Idle] /\ last' = last /\ recs' = recs
    BY <1>8 DEF CloseCommit, End
  <2> HIDE DEF s, at
  <2>3. SchedTyped' /\ \A x \in Schedules : sched'[x].exists = sched[x].exists
    BY <1>t, <2>1, <2>2, CloseTyped
  <2>4. Kept
    BY <1>t, <2>2, <2>3 DEF Kept
  <2>5. req' \in [Requests -> Req] /\ RequestsTyped' /\ FoundStays'
    BY <1>t, <2>2, <2>4, IdleTyped, SlotTyped
  <2>6. \A x \in 1 .. last : sched'[recs[x].sched].exists
    BY <1>t, <2>3
  <2> QED BY <2>2, <2>3, <2>4, <2>5, <2>6 DEF Typed, TypeOK, SchedTyped
<1>9. ASSUME NEW r \in Requests, Abort(r) PROVE Typed' /\ Kept
  BY <1>9, <1>e DEF Abort
<1>10. CASE UNCHANGED vars
  BY <1>10, <1>u DEF vars, Typed, TypeOK, RequestsTyped, FoundStays
<1>11. ASSUME NEW r \in Requests, NEW s \in Schedules, NEW k \in Types \cup Processes,
              NEW at \in Times, EndArrives(r, s, k, at)
       PROVE  Typed' /\ Kept
  BY <1>11, <1>a, EndFresh DEF EndArrives
<1>12. ASSUME NEW r \in Requests, NEW s \in Schedules, NEW at \in Times, CloseArrives(r, s, at)
       PROVE  Typed' /\ Kept
  BY <1>12, <1>a, CloseFresh DEF CloseArrives
<1> QED BY <1>1, <1>2, <1>3, <1>4, <1>5, <1>6, <1>7, <1>8, <1>9, <1>10, <1>11, <1>12 DEF Next

\* The type invariant holds in every state the server reaches; a record always
\* belongs to a schedule that exists.
THEOREM TypeCorrect == Spec => []TypeOK
<1>1. Init => Typed
  BY IdleTyped, BoundAssumption DEF Init, Typed, TypeOK, RequestsTyped, FoundStays
<1>2. Typed => TypeOK
  BY DEF Typed
<1> QED BY <1>1, <1>2, TypeStep, PTL DEF Spec

-----------------------------------------------------------------------------
(* Safety.                                                                 *)

\* A step that leaves the tables alone and moves one request on: what it
\* knows, if it waits for its commit then, has to be shown of it alone.
LEMMA MoveStep ==
    ASSUME RecordsInv, Typed', UNCHANGED <<sched, recs, last>>, NEW r \in Requests,
           \A x \in Requests \ {r} : req'[x] = req[x],
           \/ req'[r].op = "none"
           \/ /\ req'[r].op = req[r].op /\ req'[r].sched = req[r].sched
              /\ req'[r].what = req[r].what /\ req'[r].raced = req[r].raced
              /\ req[r].op = "begin" /\ req[r].what \in Types =>
                     OpenRecords(req[r].sched, req[r].what) = {}
              /\ req[r].op = "end" =>
                     /\ recs[req'[r].rec].end = None
                     /\ req[r].what = OFF /\ ~req'[r].dirty => sched[req[r].sched].end # None
    PROVE  RecordsInv'
<1>1. RaceMarked'
  BY DEF RaceMarked, Same, RecordsInv
<1>2. BeginKnows'
  <2>1. ASSUME NEW x \in Requests, x # r
        PROVE  \A i \in DOMAIN recs :
                   /\ req'[x].op = "begin" /\ req'[x].pc = "commit" /\ req'[x].what \in Types
                   /\ recs[i].sched = req'[x].sched /\ recs[i].what = req'[x].what
                   /\ recs[i].end = None
                   => req'[x].raced /\ recs[i].raced
    BY <2>1 DEF BeginKnows, RecordsInv
  <2>2. ASSUME NEW i \in DOMAIN recs, req'[r].op = "begin", req'[r].what \in Types,
               recs[i].sched = req'[r].sched, recs[i].what = req'[r].what, recs[i].end = None
        PROVE  FALSE
    <3>1. i \in OpenRecords(req[r].sched, req[r].what)
      BY <2>2 DEF OpenRecords
    <3> QED BY <2>2, <3>1
  <2> QED BY <2>1, <2>2 DEF BeginKnows
<1>3. EndKnows' /\ OffKnows'
  BY DEF EndKnows, OffKnows, RecordsInv
<1>4. SecondOpenOnlyByRace' /\ OffClosesSchedule'
  BY DEF SecondOpenOnlyByRace, OffClosesSchedule, RecordsInv
<1> QED BY <1>1, <1>2, <1>3, <1>4 DEF RecordsInv

\* A request that enters marks, and is marked by, its likes in flight.
LEMMA ArriveStep ==
    ASSUME RecordsInv, Typed', NEW r \in Requests, NEW q, Fresh(q), Arrive(r, q)
    PROVE  RecordsInv'
<1>1. /\ UNCHANGED <<sched, recs, last>>
      /\ \A x \in Requests \ {r} :
             /\ req'[x].op = req[x].op /\ req'[x].pc = req[x].pc
             /\ req'[x].sched = req[x].sched /\ req'[x].what = req[x].what
             /\ req'[x].rec = req[x].rec /\ req'[x].dirty = req[x].dirty
             /\ req'[x].raced = (req[x].raced \/ Same(req[x], q))
      /\ req'[r].op = q.op /\ req'[r].pc = "read"
      /\ req'[r].sched = q.sched /\ req'[r].what = q.what
      /\ req'[r].raced = \E y \in Requests : Same(req[y], q)
  BY ArriveTyped DEF Fresh, RecordsInv
<1>2. RaceMarked'
  <2> SUFFICES ASSUME NEW x \in Requests, NEW y \in Requests, x # y, req'[x].op # "none",
                      Same(req[x], req[y])'
               PROVE  req'[x].raced
    BY DEF RaceMarked
  <2>1. CASE x = r
    BY <1>1, <2>1 DEF Same
  <2>2. CASE y = r
    BY <1>1, <2>2 DEF Same
  <2>3. CASE x # r /\ y # r
    <3>1. req[x].op # "none" /\ Same(req[x], req[y])
      BY <1>1, <2>3 DEF Same
    <3>2. req[x].raced
      BY <3>1 DEF RaceMarked, RecordsInv
    <3> QED BY <1>1, <2>3, <3>2
  <2> QED BY <2>1, <2>2, <2>3
<1>3. BeginKnows' /\ EndKnows' /\ OffKnows'
  <2>1. \A x \in Requests : req'[x].pc = "commit" =>
            /\ req'[x].op = req[x].op /\ req[x].pc = "commit"
            /\ req'[x].sched = req[x].sched /\ req'[x].what = req[x].what
            /\ req'[x].rec = req[x].rec /\ req'[x].dirty = req[x].dirty
            /\ req[x].raced => req'[x].raced
    BY <1>1
  <2>2. UNCHANGED <<sched, recs, last>>
    BY <1>1
  <2>3. BeginKnows'
    BY <2>1, <2>2 DEF BeginKnows, RecordsInv
  <2>4. EndKnows' /\ OffKnows'
    BY <2>1, <2>2 DEF EndKnows, OffKnows, RecordsInv
  <2> QED BY <2>3, <2>4
<1>4. SecondOpenOnlyByRace' /\ OffClosesSchedule'
  BY <1>1 DEF SecondOpenOnlyByRace, OffClosesSchedule, RecordsInv
<1> QED BY <1>2, <1>3, <1>4 DEF RecordsInv

\* Every step preserves the invariant.
LEMMA InvStep == RecordsInv /\ [Next]_vars => RecordsInv'
<1> SUFFICES ASSUME RecordsInv, [Next]_vars PROVE RecordsInv'
  OBVIOUS
<1>t. Typed /\ Typed' /\ Kept
  BY TypeStep DEF RecordsInv
<1>n. /\ last \in Nat /\ recs \in [1 .. last -> Record] /\ DOMAIN recs = 1 .. last
      /\ \A i \in 1 .. last : recs[i].sched \in Schedules /\ sched[recs[i].sched].exists
      /\ sched \in [Schedules -> [exists : BOOLEAN, end : Times \cup {None}]]
  BY BoundAssumption, <1>t DEF Typed, TypeOK, Record
<1>r. \A r \in Requests : req[r] \in Req /\ WellFormed(req[r])
  BY <1>t DEF Typed, TypeOK, RequestsTyped
<1>e. ASSUME NEW r \in Requests, End(r)
      PROVE  req'[r].op = "none" /\ \A x \in Requests \ {r} : req'[x] = req[x]
  BY <1>e, <1>t DEF End, Typed, TypeOK, Idle
<1>q. ASSUME NEW r \in Requests, End(r), UNCHANGED <<sched, recs, last>> PROVE RecordsInv'
  BY <1>q, <1>e, <1>t, MoveStep
<1>m. ASSUME NEW r \in Requests, End(r) PROVE RaceMarked'
  BY <1>m, <1>e DEF RaceMarked, Same, RecordsInv
<1>1. ASSUME NEW s \in Schedules, NEW end \in Times \cup {None}, CreateSchedule(s, end)
      PROVE  RecordsInv'
  <2>1. /\ ~sched[s].exists /\ UNCHANGED <<recs, last, req>>
        /\ \A x \in Schedules \ {s} : sched'[x] = sched[x]
    BY <1>1, <1>n DEF CreateSchedule
  <2>2. RaceMarked' /\ BeginKnows' /\ EndKnows' /\ SecondOpenOnlyByRace'
    BY <2>1 DEF RaceMarked, BeginKnows, EndKnows, SecondOpenOnlyByRace, RecordsInv
  <2>3. OffClosesSchedule'
    BY <1>n, <2>1 DEF OffClosesSchedule, RecordsInv
  <2>4. OffKnows'
    <3>1. ASSUME NEW x \in Requests, req[x].op = "end", req[x].pc = "commit"
          PROVE  req[x].sched \in Schedules \ {s}
      BY <1>n, <1>r, <1>t, <2>1, <3>1 DEF Typed, FoundStays
    <3> QED BY <2>1, <3>1 DEF OffKnows, RecordsInv
  <2> QED BY <1>t, <2>2, <2>3, <2>4 DEF RecordsInv
<1>2. ASSUME NEW r \in Requests, NEW s \in Schedules, NEW k \in Types \cup Processes,
             BeginArrives(r, s, k)
      PROVE  RecordsInv'
  BY <1>2, <1>t, BeginFresh, ArriveStep DEF BeginArrives
<1>3. ASSUME NEW r \in Requests, BeginRead(r) PROVE RecordsInv'
  <2>1. /\ UNCHANGED <<sched, recs, last>> /\ req[r].op = "begin"
        /\ \/ End(r)
           \/ /\ req' = [req EXCEPT ![r].pc = "commit"]
              /\ req[r].what \in Types => OpenRecords(req[r].sched, req[r].what) = {}
    BY <1>3 DEF BeginRead, NoneFound
  <2>2. CASE req' = [req EXCEPT ![r].pc = "commit"]
              /\ (req[r].what \in Types => OpenRecords(req[r].sched, req[r].what) = {})
    <3>1. /\ req'[r].op = req[r].op /\ req'[r].sched = req[r].sched
          /\ req'[r].what = req[r].what /\ req'[r].raced = req[r].raced
          /\ \A x \in Requests \ {r} : req'[x] = req[x]
      BY <1>r, <1>t, <2>2 DEF Typed, TypeOK, Req
    <3> QED BY <1>t, <2>1, <2>2, <3>1, MoveStep
  <2> QED BY <1>q, <2>1, <2>2
<1>4. ASSUME NEW r \in Requests, BeginCommit(r) PROVE RecordsInv'
  <2>1. /\ req[r].op = "begin" /\ req[r].pc = "commit"
        /\ last' = last + 1 /\ sched' = sched /\ DOMAIN recs' = 1 .. last + 1
        /\ \A i \in 1 .. last : recs'[i] = recs[i]
        /\ recs'[last + 1].sched = req[r].sched /\ recs'[last + 1].what = req[r].what
        /\ recs'[last + 1].end = None /\ recs'[last + 1].raced = req[r].raced
        /\ req'[r].op = "none" /\ \A x \in Requests \ {r} : req'[x] = req[x]
    BY <1>4, <1>e, <1>n DEF BeginCommit
  <2>2. RaceMarked'
    BY <1>4, <1>m DEF BeginCommit
  <2>3. \A i \in 1 .. last + 1 : i \in 1 .. last \/ i = last + 1
    BY <1>n
  <2>4. BeginKnows'
    <3> SUFFICES ASSUME NEW x \in Requests \ {r}, NEW i \in 1 .. last + 1,
                        req[x].op = "begin", req[x].pc = "commit", req[x].what \in Types,
                        recs'[i].sched = req[x].sched, recs'[i].what = req[x].what,
                        recs'[i].end = None
                 PROVE  req[x].raced /\ recs'[i].raced
      BY <2>1 DEF BeginKnows
    <3>1. CASE i \in 1 .. last
      BY <1>n, <2>1, <3>1 DEF BeginKnows, RecordsInv
    <3>2. CASE i = last + 1
      BY <2>1, <3>2 DEF RaceMarked, Same, RecordsInv
    <3> QED BY <2>3, <3>1, <3>2
  <2>5. \A x \in Requests : req[x].op = "end" /\ req[x].pc = "commit" =>
            x # r /\ req[x].rec \in 1 .. last
    BY <1>t, <2>1 DEF Typed, FoundStays
  <2>6. EndKnows' /\ OffKnows'
    BY <2>1, <2>5 DEF EndKnows, OffKnows, RecordsInv
  <2>7. SecondOpenOnlyByRace'
    <3> SUFFICES ASSUME NEW i \in 1 .. last + 1, NEW j \in 1 .. last + 1, i # j,
                        recs'[i].sched = recs'[j].sched, recs'[i].what = recs'[j].what,
                        recs'[i].end = None, recs'[j].end = None, recs'[i].what \in Types
                 PROVE  recs'[i].raced /\ recs'[j].raced
      BY <2>1 DEF SecondOpenOnlyByRace
    <3>1. CASE i \in 1 .. last /\ j \in 1 .. last
      BY <1>n, <2>1, <3>1 DEF SecondOpenOnlyByRace, RecordsInv
    <3>2. CASE i = last + 1 /\ j \in 1 .. last
      BY <1>n, <2>1, <3>2 DEF BeginKnows, RecordsInv
    <3>3. CASE i \in 1 .. last /\ j = last + 1
      BY <1>n, <2>1, <3>3 DEF BeginKnows, RecordsInv
    <3> QED BY <2>3, <3>1, <3>2, <3>3
  <2>8. OffClosesSchedule'
    BY <1>n, <2>1, <2>3 DEF OffClosesSchedule, RecordsInv
  <2> QED BY <1>t, <2>2, <2>4, <2>6, <2>7, <2>8 DEF RecordsInv
<1>5. ASSUME NEW r \in Requests, NEW s \in Schedules, NEW k \in Types \cup Processes,
             NEW at \in Times, EndArrives(r, s, k, at)
      PROVE  RecordsInv'
  BY <1>5, <1>t, EndFresh, ArriveStep DEF EndArrives
<1>6. ASSUME NEW r \in Requests, EndRead(r) PROVE RecordsInv'
  <2> DEFINE dirty == req[r].what = OFF /\ sched[req[r].sched].end # req[r].at
  <2>1. /\ UNCHANGED <<sched, recs, last>> /\ req[r].op = "end"
        /\ \/ End(r)
           \/ \E i \in OpenRecords(req[r].sched, req[r].what) :
                  req' = [req EXCEPT ![r].pc = "commit", ![r].rec = i, ![r].dirty = dirty]
    BY <1>6 DEF EndRead
  <2>2. ASSUME NEW i \in OpenRecords(req[r].sched, req[r].what),
               req' = [req EXCEPT ![r].pc = "commit", ![r].rec = i, ![r].dirty = dirty]
        PROVE  RecordsInv'
    <3>1. recs[i].end = None
      BY DEF OpenRecords
    <3>2. dirty \in BOOLEAN /\ (req[r].what = OFF /\ ~dirty => sched[req[r].sched].end # None)
      BY <1>r, <2>1, NullAssumption DEF WellFormed
    <3> HIDE DEF dirty
    <3>3. /\ req'[r].op = req[r].op /\ req'[r].sched = req[r].sched
          /\ req'[r].what = req[r].what /\ req'[r].raced = req[r].raced
          /\ req'[r].rec = i /\ req'[r].dirty = dirty
          /\ \A x \in Requests \ {r} : req'[x] = req[x]
      BY <1>r, <1>t, <2>2 DEF Typed, TypeOK, Req
    <3> QED BY <1>t, <2>1, <3>1, <3>2, <3>3, MoveStep
  <2> QED BY <1>q, <2>1, <2>2
<1>7. ASSUME NEW r \in Requests, EndCommit(r) PROVE RecordsInv'
  <2> DEFINE n == req[r].rec
             s == req[r].sched
  <2>1. /\ req[r].op = "end" /\ req[r].pc = "commit" /\ req[r].at \in Times
        /\ n \in 1 .. last /\ s \in Schedules /\ recs[n].sched = s /\ recs[n].what = req[r].what
    BY <1>7, <1>r, <1>t DEF EndCommit, WellFormed, Typed, FoundStays
  <2>2. /\ req'[r].op = "none" /\ \A x \in Requests \ {r} : req'[x] = req[x]
    BY <1>7, <1>e DEF EndCommit
  <2>3. /\ last' = last /\ DOMAIN recs' = 1 .. last
        /\ \A i \in 1 .. last \ {n} : recs'[i] = recs[i]
        /\ recs'[n].sched = s /\ recs'[n].what = req[r].what /\ recs'[n].raced = recs[n].raced
        /\ recs'[n].end = req[r].at
    BY <1>7, <1>n, <2>1 DEF EndCommit, Record
  <2>4. /\ \A x \in Schedules : sched[x].end # None => sched'[x].end # None
        /\ req[r].dirty => sched'[s].end # None
    BY <1>7, <1>n, <2>1, NullAssumption DEF EndCommit
  <2>5. RaceMarked'
    BY <1>7, <1>m DEF EndCommit
  <2>6. BeginKnows' /\ SecondOpenOnlyByRace'
    BY <1>n, <2>1, <2>2, <2>3, NullAssumption DEF BeginKnows, SecondOpenOnlyByRace, RecordsInv
  <2>7. ASSUME NEW x \in Requests, req'[x].op = "end", req'[x].pc = "commit"
        PROVE  /\ x # r /\ req'[x] = req[x] /\ req[x].rec \in 1 .. last
               /\ req[x].sched \in Schedules
               /\ req[x].rec = n => Same(req[x], req[r])
    BY <1>r, <1>t, <2>1, <2>2, <2>7 DEF Typed, FoundStays, Same, WellFormed
  <2>8. EndKnows'
    BY <2>1, <2>3, <2>7 DEF EndKnows, RaceMarked, RecordsInv
  <2>9. OffKnows'
    BY <2>4, <2>7 DEF OffKnows, RecordsInv
  <2>10. OffClosesSchedule'
    <3> SUFFICES ASSUME NEW i \in 1 .. last, recs'[i].what = OFF, recs'[i].end # None
                 PROVE  sched'[recs'[i].sched].end # None
      BY <2>3 DEF OffClosesSchedule
    <3>1. CASE i = n
      BY <2>1, <2>3, <2>4, <3>1 DEF OffKnows, RecordsInv
    <3>2. CASE i # n
      BY <1>n, <2>3, <2>4, <3>2 DEF OffClosesSchedule, RecordsInv
    <3> QED BY <3>1, <3>2
  <2> QED BY <1>t, <2>5, <2>6, <2>8, <2>9, <2>10 DEF RecordsInv
<1>8. ASSUME NEW r \in Requests, NEW s \in Schedules, NEW at \in Times, CloseArrives(r, s, at)
      PROVE  RecordsInv'
  BY <1>8, <1>t, CloseFresh, ArriveStep DEF CloseArrives
<1>9. ASSUME NEW r \in Requests, CloseRead(r) PROVE RecordsInv'
  <2>1. /\ UNCHANGED <<sched, recs, last>> /\ req[r].op = "close"
        /\ \/ End(r)
           \/ req' = [req EXCEPT ![r].pc = "commit", ![r].dirty = sched[req[r].sched].end # req[r].at]
    BY <1>9 DEF CloseRead
  <2>2. CASE req' = [req EXCEPT ![r].pc = "commit",
                                ![r].dirty = sched[req[r].sched].end # req[r].at]
    <3>1. /\ req'[r].op = req[r].op /\ req'[r].sched = req[r].sched
          /\ req'[r].what = req[r].what /\ req'[r].raced = req[r].raced
          /\ \A x \in Requests \ {r} : req'[x] = req[x]
      BY <1>r, <1>t, <2>2 DEF Typed, TypeOK, Req
    <3> QED BY <1>t, <2>1, <3>1, MoveStep
  <2> QED BY <1>q, <2>1, <2>2
<1>10. ASSUME NEW r \in Requests, CloseCommit(r) PROVE RecordsInv'
  <2>1. /\ req[r].at \in Times /\ req[r].sched \in Schedules /\ UNCHANGED <<recs, last>>
        /\ req'[r].op = "none" /\ \A x \in Requests \ {r} : req'[x] = req[x]
    BY <1>10, <1>e, <1>r DEF CloseCommit, WellFormed
  <2>2. \A x \in Schedules : sched[x].end # None => sched'[x].end # None
    BY <1>10, <1>n, <2>1, NullAssumption DEF CloseCommit
  <2>3. RaceMarked'
    BY <1>10, <1>m DEF CloseCommit
  <2>4. BeginKnows' /\ EndKnows' /\ SecondOpenOnlyByRace'
    BY <2>1 DEF BeginKnows, EndKnows, SecondOpenOnlyByRace, RecordsInv
  <2>5. OffKnows' /\ OffClosesSchedule'
    BY <1>n, <1>r, <2>1, <2>2 DEF OffKnows, OffClosesSchedule, WellFormed, RecordsInv
  <2> QED BY <1>t, <2>3, <2>4, <2>5 DEF RecordsInv
<1>11. ASSUME NEW r \in Requests, Abort(r) PROVE RecordsInv'
  BY <1>11, <1>q DEF Abort
<1>12. CASE UNCHANGED vars
  BY <1>12, <1>t DEF vars, RecordsInv, RaceMarked, BeginKnows, EndKnows, OffKnows,
     SecondOpenOnlyByRace, OffClosesSchedule
<1> QED BY <1>1, <1>2, <1>3, <1>4, <1>5, <1>6, <1>7, <1>8, <1>9, <1>10, <1>11, <1>12 DEF Next

\* The invariant holds in every state the server reaches.
LEMMA Invariance == Spec => []RecordsInv
<1>1. Init => RecordsInv
  <2> SUFFICES ASSUME Init PROVE RecordsInv
    OBVIOUS
  <2>1. Typed
    BY IdleTyped, BoundAssumption DEF Init, Typed, TypeOK, RequestsTyped, FoundStays
  <2>2. (\A r \in Requests : req[r].op = "none") /\ DOMAIN recs = {}
    BY DEF Init, Idle
  <2> QED BY <2>1, <2>2 DEF RecordsInv, RaceMarked, BeginKnows, EndKnows, OffKnows,
             SecondOpenOnlyByRace, OffClosesSchedule
<1> QED BY <1>1, InvStep, PTL DEF Spec

\* The look of begin() at the open records keeps a second one out; only a begin
\* that looked at the same time gets past it.
THEOREM SecondOpenNeedsRace == Spec => []SecondOpenOnlyByRace
<1>1. RecordsInv => SecondOpenOnlyByRace
  BY DEF RecordsInv
<1> QED BY <1>1, Invariance, PTL

\* end() closes the schedule together with its OFF record, and no writer of
\* schedules reopens one.
THEOREM OffClosesItsSchedule == Spec => []OffClosesSchedule
<1>1. RecordsInv => OffClosesSchedule
  BY DEF RecordsInv
<1> QED BY <1>1, Invariance, PTL

\* The end of a record, once written, is overwritten by no one but an end that
\* read the record while another one was about to close it.
THEOREM EndsStand == Spec => EndRewrittenOnlyByRace
<1>1. RecordsInv /\ [Next]_vars =>
          [\A i \in DOMAIN recs :
              recs[i].end # None /\ recs'[i].end # recs[i].end
                  => \E r \in Requests : req[r].op = "end" /\ req[r].rec = i /\ req[r].raced]_vars
  <2> SUFFICES ASSUME RecordsInv, Next, NEW i \in DOMAIN recs, recs[i].end # None,
                      recs'[i].end # recs[i].end
               PROVE  \E r \in Requests : req[r].op = "end" /\ req[r].rec = i /\ req[r].raced
    OBVIOUS
  <2>1. last \in Nat /\ recs \in [1 .. last -> Record]
    BY BoundAssumption DEF RecordsInv, Typed, TypeOK
  <2>2. ASSUME NEW r \in Requests, BeginCommit(r) PROVE recs'[i] = recs[i]
    BY <2>1, <2>2 DEF BeginCommit
  <2>3. ASSUME NEW r \in Requests, EndCommit(r)
        PROVE  req[r].op = "end" /\ req[r].rec = i /\ req[r].raced
    <3>1. req[r].rec = i
      BY <2>1, <2>3 DEF EndCommit
    <3> QED BY <2>3, <3>1 DEF EndCommit, EndKnows, RecordsInv
  <2> QED BY <2>2, <2>3 DEF Next, CreateSchedule, BeginArrives, EndArrives, CloseArrives, Arrive,
             BeginRead, EndRead, CloseRead, CloseCommit, Abort
<1> QED BY <1>1, Invariance, PTL DEF Spec, EndRewrittenOnlyByRace

-----------------------------------------------------------------------------
(* What a second open record leads to.                                     *)

\* Two open records of one key, and no end that is about to close either.
Stuck(i, j) ==
    /\ i \in DOMAIN recs /\ j \in DOMAIN recs /\ i # j
    /\ recs[i].sched = recs[j].sched /\ recs[i].what = recs[j].what
    /\ recs[i].end = None /\ recs[j].end = None
    /\ \A r \in Requests :
           req[r].op = "end" /\ req[r].pc = "commit" => req[r].rec # i /\ req[r].rec # j

\* Two records that are stuck stay stuck: no call ends either of them.
StuckForGood ==
    [][\A i \in DOMAIN recs, j \in DOMAIN recs : Stuck(i, j) => Stuck(i, j)']_vars

\* An end() or end_process() finds both, and fails.
LEMMA EndFindsNeither ==
    ASSUME Typed, NEW i, NEW j, Stuck(i, j), NEW r \in Requests, EndRead(r)
    PROVE  \/ req'[r].op = "none"
           \/ req'[r].rec # i /\ req'[r].rec # j
<1> DEFINE found == OpenRecords(req[r].sched, req[r].what)
<1>1. req \in [Requests -> Req] /\ last \in Nat /\ DOMAIN recs = 1 .. last
  BY BoundAssumption DEF Typed, TypeOK
<1>2. IsFiniteSet(found)
  <2>1. found \in SUBSET (1 .. last) /\ IsFiniteSet(1 .. last)
    BY <1>1, FS_Interval DEF OpenRecords
  <2> QED BY <2>1, FS_Subset
<1>3. CASE OneFound(found)
  <2>1. PICK x : found = {x}
    BY <1>2, <1>3, FS_Singleton DEF OneFound
  <2>2. x # i /\ x # j
    BY <2>1 DEF OpenRecords, Stuck
  <2>3. req'[r].rec = x
    <3>1. req' = [req EXCEPT ![r].pc = "commit", ![r].rec = x,
                    ![r].dirty = req[r].what = OFF /\ sched[req[r].sched].end # req[r].at]
      BY <1>3, <2>1 DEF EndRead
    <3> QED BY <1>1, <3>1 DEF Req
  <2> QED BY <2>2, <2>3
<1>4. CASE ~OneFound(found)
  BY <1>1, <1>4 DEF EndRead, End, Idle
<1> QED BY <1>3, <1>4

LEMMA StuckStep ==
    ASSUME Typed, [Next]_vars, NEW i, NEW j, Stuck(i, j)
    PROVE  Stuck(i, j)'
<1>t. /\ req \in [Requests -> Req] /\ last \in Nat /\ DOMAIN recs = 1 .. last
      /\ recs \in [1 .. last -> Record] /\ i \in 1 .. last /\ j \in 1 .. last
  BY BoundAssumption DEF Typed, TypeOK, Stuck
\* A step that leaves the records alone, and makes no end about to close them.
<1>s. ASSUME recs' = recs, NEW r \in Requests,
             \A x \in Requests \ {r} :
                 req'[x].op = req[x].op /\ req'[x].pc = req[x].pc /\ req'[x].rec = req[x].rec,
             \/ req'[r].op # "end" \/ req'[r].pc # "commit"
             \/ req'[r].rec # i /\ req'[r].rec # j
      PROVE  Stuck(i, j)'
  BY <1>s DEF Stuck
<1>e. ASSUME NEW r \in Requests, End(r)
      PROVE  req'[r].op = "none" /\ \A x \in Requests \ {r} : req'[x] = req[x]
  BY <1>e, <1>t DEF End, Idle
<1>a. ASSUME NEW r \in Requests, NEW q \in Req, q.pc = "read", Arrive(r, q) PROVE Stuck(i, j)'
  <2>1. /\ recs' = recs /\ req'[r].pc = "read"
        /\ \A x \in Requests \ {r} :
               req'[x].op = req[x].op /\ req'[x].pc = req[x].pc /\ req'[x].rec = req[x].rec
    BY <1>a, <1>t DEF Arrive, Req
  <2> QED BY <1>s, <2>1
<1>1. ASSUME NEW s \in Schedules, NEW end \in Times \cup {None}, CreateSchedule(s, end)
      PROVE  Stuck(i, j)'
  BY <1>1 DEF CreateSchedule, Stuck
<1>2. ASSUME NEW r \in Requests, NEW s \in Schedules, NEW k \in Types \cup Processes,
             BeginArrives(r, s, k)
      PROVE  Stuck(i, j)'
  BY <1>2, <1>a, BeginFresh DEF BeginArrives, Fresh
<1>3. ASSUME NEW r \in Requests, NEW s \in Schedules, NEW k \in Types \cup Processes,
             NEW at \in Times, EndArrives(r, s, k, at)
      PROVE  Stuck(i, j)'
  BY <1>3, <1>a, EndFresh DEF EndArrives, Fresh
<1>4. ASSUME NEW r \in Requests, NEW s \in Schedules, NEW at \in Times, CloseArrives(r, s, at)
      PROVE  Stuck(i, j)'
  BY <1>4, <1>a, CloseFresh DEF CloseArrives, Fresh
<1>5. ASSUME NEW r \in Requests, BeginRead(r) \/ CloseRead(r) PROVE Stuck(i, j)'
  <2>1. /\ recs' = recs
        /\ End(r) \/ (req'[r].op # "end" /\ \A x \in Requests \ {r} : req'[x] = req[x])
    BY <1>5, <1>t DEF BeginRead, CloseRead, Req
  <2> QED BY <1>e, <1>s, <2>1
<1>6. ASSUME NEW r \in Requests, EndRead(r) PROVE Stuck(i, j)'
  <2>1. recs' = recs /\ \A x \in Requests \ {r} : req'[x] = req[x]
    BY <1>6, <1>e, <1>t DEF EndRead
  <2> QED BY <1>6, <1>s, <2>1, EndFindsNeither
<1>7. ASSUME NEW r \in Requests, BeginCommit(r) PROVE Stuck(i, j)'
  <2>1. i \in DOMAIN recs' /\ j \in DOMAIN recs' /\ recs'[i] = recs[i] /\ recs'[j] = recs[j]
    BY <1>7, <1>t DEF BeginCommit
  <2>2. End(r)
    BY <1>7 DEF BeginCommit
  <2> QED BY <1>e, <2>1, <2>2 DEF Stuck
<1>8. ASSUME NEW r \in Requests, EndCommit(r) PROVE Stuck(i, j)'
  <2>1. req[r].rec # i /\ req[r].rec # j
    BY <1>8 DEF EndCommit, Stuck
  <2>2. DOMAIN recs' = DOMAIN recs /\ recs'[i] = recs[i] /\ recs'[j] = recs[j]
    BY <1>8, <1>t, <2>1 DEF EndCommit
  <2>3. End(r)
    BY <1>8 DEF EndCommit
  <2> QED BY <1>e, <2>2, <2>3 DEF Stuck
<1>9. ASSUME NEW r \in Requests, CloseCommit(r) \/ Abort(r) PROVE Stuck(i, j)'
  <2>1. recs' = recs /\ End(r)
    BY <1>9 DEF CloseCommit, Abort
  <2> QED BY <1>e, <1>s, <2>1
<1>10. CASE UNCHANGED vars
  BY <1>10 DEF vars, Stuck
<1> QED BY <1>1, <1>2, <1>3, <1>4, <1>5, <1>6, <1>7, <1>8, <1>9, <1>10 DEF Next

\* An action property: begin_process does not look for an open record, so two
\* calls leave two; from then on end_process (scalar_one_or_none) fails for
\* good, as end does after two begins that raced.
THEOREM TwoOpenRecordsStuck == Spec => StuckForGood
<1>1. Typed /\ [Next]_vars => \A i \in DOMAIN recs, j \in DOMAIN recs : Stuck(i, j) => Stuck(i, j)'
  BY StuckStep
<1>2. RecordsInv => Typed
  BY DEF RecordsInv
<1> QED BY <1>1, <1>2, Invariance, PTL DEF Spec, StuckForGood

=============================================================================
