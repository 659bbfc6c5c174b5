----------------------------- MODULE WorkRecords -----------------------------
(***************************************************************************)
(* Attendance: the records of a work schedule (ON, WORK, REST, OFF and one *)
(* kind per job process) and the schedule they belong to.  Translated from *)
(* app/services/workrecord.py and the writers of app/services/schedule.py. *)
(*                                                                         *)
(* Each request is a transaction of its own at READ COMMITTED: it reads    *)
(* what is committed, and what it writes is visible after its commit.  The *)
(* tables have no constraint on open records.                              *)
(***************************************************************************)
EXTENDS Naturals, FiniteSets

CONSTANTS
    Schedules,   \* schedule ids
    Types,       \* WorkRecordType
    OFF,         \* the type that closes the schedule
    Processes,   \* job processes
    Times,       \* instants a client may give
    Requests,    \* slots for requests in flight
    MaxRecords,  \* bound on the records ever inserted
    None         \* NULL

ASSUME KindAssumption == OFF \in Types /\ Types \cap Processes = {}
ASSUME BoundAssumption == MaxRecords \in Nat
ASSUME NullAssumption == None \notin Times /\ None \notin Schedules

Ids == 1 .. MaxRecords

VARIABLES
    sched,  \* work_schedules: whether the row exists, and its end_at
    recs,   \* work_records and work_process_records, by id
    last,   \* the last id given
    req     \* the requests in flight

vars == <<sched, recs, last, req>>

\* raced is history: the request that wrote the row (or is to write it) was
\* in flight together with another one of the same operation on the same key.
Record == [sched : Schedules, what : Types \cup Processes, end : Times \cup {None}, raced : BOOLEAN]

Req == [op : {"none", "begin", "end", "close"}, pc : {"idle", "read", "commit"},
        sched : Schedules \cup {None}, what : Types \cup Processes \cup {None},
        at : Times \cup {None}, rec : 0 .. MaxRecords, dirty : BOOLEAN, raced : BOOLEAN]

Idle == [op |-> "none", pc |-> "idle", sched |-> None, what |-> None, at |-> None,
         rec |-> 0, dirty |-> FALSE, raced |-> FALSE]

Init ==
    /\ sched = [s \in Schedules |-> [exists |-> FALSE, end |-> None]]
    /\ recs = [i \in {} |-> Idle]
    /\ last = 0
    /\ req = [r \in Requests |-> Idle]

-----------------------------------------------------------------------------
(* Queries.                                                                *)

\* Mutant: closed records are found too.
OpenRecords_All(s, k) == {i \in DOMAIN recs : recs[i].sched = s /\ recs[i].what = k}

\* The rows of _find_open_record and of the query in end_process.
OpenRecords(s, k) ==
    {i \in DOMAIN recs : recs[i].sched = s /\ recs[i].what = k /\ recs[i].end = None}

\* scalar_one_or_none: no row, the row, or MultipleResultsFound.
NoneFound(S) == S = {}
OneFound(S) == Cardinality(S) = 1

-----------------------------------------------------------------------------
(* Requests.                                                               *)

Same(q, p) == q.op = p.op /\ q.sched = p.sched /\ q.what = p.what

Arrive(r, q) ==
    /\ req[r].pc = "idle"
    /\ req' = [x \in Requests |->
           IF x = r THEN [q EXCEPT !.raced = \E y \in Requests : Same(req[y], q)]
           ELSE [req[x] EXCEPT !.raced = @ \/ Same(req[x], q)]]
    /\ UNCHANGED <<sched, recs, last>>

End(r) == req' = [req EXCEPT ![r] = Idle]

\* schedule.create and batch_make: a row, open or with the end given.
CreateSchedule(s, end) ==
    /\ ~sched[s].exists
    /\ sched' = [sched EXCEPT ![s] = [exists |-> TRUE, end |-> end]]
    /\ UNCHANGED <<recs, last, req>>

BeginArrives(r, s, k) ==
    Arrive(r, [Idle EXCEPT !.op = "begin", !.pc = "read", !.sched = s, !.what = k])

\* Mutant: the open record is not looked for.
BeginRead_NoCheck(r) ==
    LET q == req[r] IN
    /\ q.op = "begin" /\ q.pc = "read"
    /\ IF sched[q.sched].exists THEN req' = [req EXCEPT ![r].pc = "commit"] ELSE End(r)
    /\ UNCHANGED <<sched, recs, last>>

\* Mutant: the schedule is not looked for.
BeginRead_AnySchedule(r) ==
    LET q == req[r] IN
    /\ q.op = "begin" /\ q.pc = "read"
    /\ IF q.what \in Types => NoneFound(OpenRecords(q.sched, q.what))
       THEN req' = [req EXCEPT ![r].pc = "commit"]
       ELSE End(r)
    /\ UNCHANGED <<sched, recs, last>>

\* begin refuses when a record of the type is open (and fails when several
\* are); begin_process does not look.
BeginRead(r) ==
    LET q == req[r] IN
    /\ q.op = "begin" /\ q.pc = "read"
    /\ IF sched[q.sched].exists /\ (q.what \in Types => NoneFound(OpenRecords(q.sched, q.what)))
       THEN req' = [req EXCEPT ![r].pc = "commit"]
       ELSE End(r)
    /\ UNCHANGED <<sched, recs, last>>

BeginCommit(r) ==
    LET q == req[r] IN
    /\ q.op = "begin" /\ q.pc = "commit"
    /\ last < MaxRecords
    /\ last' = last + 1
    /\ recs' = [i \in 1 .. last + 1 |->
           IF i = last + 1
           THEN [sched |-> q.sched, what |-> q.what, end |-> None, raced |-> q.raced]
           ELSE recs[i]]
    /\ End(r)
    /\ UNCHANGED sched

EndArrives(r, s, k, at) ==
    Arrive(r, [Idle EXCEPT !.op = "end", !.pc = "read", !.sched = s, !.what = k, !.at = at])

\* end and end_process: the open record, which must be alone.  For OFF the
\* schedule is read too; an end_at that is already there writes nothing.
EndRead(r) ==
    LET q == req[r]
        found == OpenRecords(q.sched, q.what)
    IN
    /\ q.op = "end" /\ q.pc = "read"
    /\ IF OneFound(found)
       THEN \E i \in found :
                req' = [req EXCEPT ![r].pc = "commit", ![r].rec = i,
                                   ![r].dirty = q.what = OFF /\ sched[q.sched].end # q.at]
       ELSE End(r)
    /\ UNCHANGED <<sched, recs, last>>

\* Mutant: OFF leaves the schedule open.
EndCommit_ScheduleLeftOpen(r) ==
    LET q == req[r] IN
    /\ q.op = "end" /\ q.pc = "commit"
    /\ recs' = [recs EXCEPT ![q.rec].end = q.at]
    /\ End(r)
    /\ UNCHANGED <<sched, last>>

EndCommit(r) ==
    LET q == req[r] IN
    /\ q.op = "end" /\ q.pc = "commit"
    /\ recs' = [recs EXCEPT ![q.rec].end = q.at]
    /\ sched' = IF q.dirty THEN [sched EXCEPT ![q.sched].end = q.at] ELSE sched
    /\ End(r)
    /\ UNCHANGED last

\* schedule.close
CloseArrives(r, s, at) ==
    Arrive(r, [Idle EXCEPT !.op = "close", !.pc = "read", !.sched = s, !.at = at])

CloseRead(r) ==
    LET q == req[r] IN
    /\ q.op = "close" /\ q.pc = "read"
    /\ IF sched[q.sched].exists
       THEN req' = [req EXCEPT ![r].pc = "commit", ![r].dirty = sched[q.sched].end # q.at]
       ELSE End(r)
    /\ UNCHANGED <<sched, recs, last>>

CloseCommit(r) ==
    LET q == req[r] IN
    /\ q.op = "close" /\ q.pc = "commit"
    /\ sched' = IF q.dirty THEN [sched EXCEPT ![q.sched].end = q.at] ELSE sched
    /\ End(r)
    /\ UNCHANGED <<recs, last>>

\* The request dies before its commit and is rolled back.
Abort(r) ==
    /\ req[r].pc # "idle"
    /\ End(r)
    /\ UNCHANGED <<sched, recs, last>>

Next ==
    \/ \E s \in Schedules, end \in Times \cup {None} : CreateSchedule(s, end)
    \/ \E r \in Requests :
           \/ \E s \in Schedules, k \in Types \cup Processes : BeginArrives(r, s, k)
           \/ \E s \in Schedules, k \in Types \cup Processes, at \in Times : EndArrives(r, s, k, at)
           \/ \E s \in Schedules, at \in Times : CloseArrives(r, s, at)
           \/ BeginRead(r) \/ BeginCommit(r) \/ EndRead(r) \/ EndCommit(r)
           \/ CloseRead(r) \/ CloseCommit(r) \/ Abort(r)

Spec == Init /\ [][Next]_vars

-----------------------------------------------------------------------------
(* Properties.                                                             *)

\* The type invariant; a record always belongs to a schedule that exists.
TypeOK ==
    /\ sched \in [Schedules -> [exists : BOOLEAN, end : Times \cup {None}]]
    /\ last \in 0 .. MaxRecords
    /\ recs \in [1 .. last -> Record]
    /\ \A i \in 1 .. last : sched[recs[i].sched].exists
    /\ req \in [Requests -> Req]

\* begin refuses a second open record of a type: two records of one schedule
\* and type are open together only if both begins were in flight together
\* with another begin for that type.
SecondOpenOnlyByRace ==
    \A i, j \in DOMAIN recs :
        /\ i # j /\ recs[i].sched = recs[j].sched /\ recs[i].what = recs[j].what
        /\ recs[i].end = None /\ recs[j].end = None /\ recs[i].what \in Types
        => recs[i].raced /\ recs[j].raced

\* Ending OFF closes the schedule with it, and nothing reopens a schedule.
OffClosesSchedule ==
    \A i \in DOMAIN recs :
        recs[i].what = OFF /\ recs[i].end # None => sched[recs[i].sched].end # None

\* The end of a closed record is never written again, except by an end that
\* was in flight together with another end of the same schedule and type.
EndRewrittenOnlyByRace ==
    [][\A i \in DOMAIN recs :
          recs[i].end # None /\ recs'[i].end # recs[i].end
              => \E r \in Requests : req[r].op = "end" /\ req[r].rec = i /\ req[r].raced]_vars

=============================================================================
