---------------------------- MODULE JobProcesses ----------------------------
(***************************************************************************)
(* The processes of one job standard, replaced as a list by                *)
(* JobStandardService.sync_processes while other requests replace them or  *)
(* record work on them.  A process is its sequence number: its other       *)
(* columns are written the way the number is.                              *)
(*                                                                         *)
(* A sync loads the processes, edits them, and flushes: the session sends  *)
(* the UPDATEs in the order of the ids, then the INSERTs, then the         *)
(* DELETEs, and uq_job_process_seq is checked at every statement.          *)
(***************************************************************************)
EXTENDS Naturals, FiniteSetsExt, Functions

CONSTANTS
    MaxId,        \* process ids are 1 .. MaxId
    Numbers,   \* sequence numbers
    MaxLength,    \* bound on the length of a list
    MaxSyncs,     \* bound on the syncs ever started
    Slots,        \* syncs in flight
    Absent

ASSUME SyncBounds == MaxId \in Nat /\ MaxLength \in Nat /\ MaxSyncs \in Nat
ASSUME SequenceAssumption == Numbers \subseteq Nat
\* Every id that the syncs can use exists.
ASSUME EnoughIds == 2 + MaxLength * MaxSyncs <= MaxId

VARIABLES
    table,    \* job_processes: the sequence number of each id, or Absent
    next,     \* the next id of job_processes
    recorded, \* ids that work_process_records refer to
    sync,     \* the syncs in flight
    started,  \* how many were started
    refused   \* history: a sync of a list that could be applied was refused

syncVars == <<table, next, recorded, sync, started, refused>>

Ids == 1 .. MaxId

ASSUME AbsentAssumption == Absent \notin Numbers /\ Absent \notin Ids

Item == [id : Ids \cup {Absent}, sequence : Numbers]
Items == UNION {[1 .. n -> Item] : n \in 0 .. MaxLength}
NoSync == [busy |-> FALSE]

\* A standard created with two processes.
SyncInit ==
    /\ \E a, b \in Numbers :
         a # b /\ table = [i \in Ids |-> CASE i = 1 -> a [] i = 2 -> b [] OTHER -> Absent]
    /\ next = 3 /\ recorded = {}
    /\ sync = [s \in Slots |-> NoSync]
    /\ started = 0 /\ refused = FALSE

Present(t) == {i \in Ids : t[i] # Absent}

-----------------------------------------------------------------------------
(* What a sync asks for.                                                   *)

Places(q, i) == {k \in DOMAIN q.list : q.list[k].id = i}

\* The processes that the list names stay; the others are dropped.
Kept(q) == {i \in Present(q.loaded) : Places(q, i) # {}}

\* Mutant: what is missing from the list stays.
Dropped_None(q) == {}

Dropped(q) == Present(q.loaded) \ Kept(q)

\* An id given twice takes the last of its numbers.
Target(q, i) == q.list[Max(Places(q, i))].sequence

\* The places of the processes to be added, which get ids in their order.
New(q) == {k \in DOMAIN q.list : q.list[k].id = Absent}
NewId(q, k) == next + Cardinality({j \in New(q) : j < k})
NewIds(q) == {NewId(q, k) : k \in New(q)}

Dirty(q) == {i \in Kept(q) : Target(q, i) # q.loaded[i]}

-----------------------------------------------------------------------------
(* The flush.                                                              *)

\* The table when the ids below k have been updated.
UpdatedBelow(q, k) == [i \in Ids |-> IF i \in Dirty(q) /\ i < k THEN Target(q, i) ELSE table[i]]

\* Each UPDATE needs its row, and a number that no other row has at that moment.
UpdatesAccepted(q) ==
    \A i \in Dirty(q) :
        /\ i \in Present(table)
        /\ \A j \in Ids \ {i} : UpdatedBelow(q, i)[j] # Target(q, i)

Updated(q) == UpdatedBelow(q, MaxId + 1)

\* Mutant: the constraint is not there.
InsertsAccepted_Any(q) == TRUE

\* The dropped rows are still there when the new ones are inserted.
InsertsAccepted(q) ==
    \A k \in New(q) :
        /\ \A j \in Ids : Updated(q)[j] # q.list[k].sequence
        /\ \A j \in New(q) : j < k => q.list[j].sequence # q.list[k].sequence

\* Mutant: the records do not hold their process.
DeletesAccepted_Any(q) == TRUE

\* ON DELETE RESTRICT of work_process_records.
DeletesAccepted(q) == Dropped(q) \cap recorded = {}

Flushed(q) ==
    [i \in Ids |->
        IF i \in Dropped(q) THEN Absent
        ELSE IF i \in NewIds(q) THEN q.list[CHOOSE k \in New(q) : NewId(q, k) = i].sequence
        ELSE Updated(q)[i]]

-----------------------------------------------------------------------------
(* sync_processes: an id that the standard does not have is refused.       *)
Sync(s, list) ==
    /\ ~sync[s].busy /\ started < MaxSyncs
    /\ \A k \in DOMAIN list : list[k].id \in Present(table) \cup {Absent}
    /\ sync' = [sync EXCEPT ![s] = [busy |-> TRUE, loaded |-> table, list |-> list, raced |-> FALSE]]
    /\ started' = started + 1
    /\ UNCHANGED <<table, next, recorded, refused>>

Accepted(q) == UpdatesAccepted(q) /\ InsertsAccepted(q) /\ DeletesAccepted(q)

Apply(s) ==
    LET q == sync[s] IN
    /\ q.busy /\ Accepted(q)
    /\ table' = Flushed(q)
    /\ next' = next + Cardinality(New(q))
    /\ sync' = [t \in Slots |->
         IF t = s \/ ~sync[t].busy THEN NoSync
         ELSE [sync[t] EXCEPT !.raced = @ \/ table' # table]]
    /\ UNCHANGED <<recorded, started, refused>>

\* The list as a table of its own: every id once, every number once, and no
\* process dropped that has records.
Applicable(q) ==
    /\ IsInjective([k \in DOMAIN q.list |-> q.list[k].sequence])
    /\ \A j, k \in DOMAIN q.list : q.list[j].id = q.list[k].id => j = k \/ q.list[j].id = Absent
    /\ DeletesAccepted(q)

\* A refused flush undoes the whole sync.
Refuse(s) ==
    LET q == sync[s] IN
    /\ q.busy /\ ~Accepted(q)
    /\ refused' = (refused \/ (~q.raced /\ Applicable(q)))
    /\ sync' = [sync EXCEPT ![s] = NoSync]
    /\ UNCHANGED <<table, next, recorded, started>>

\* begin_process inserts a record of a process that is there.
BeginProcess(i) ==
    /\ i \in Present(table)
    /\ recorded' = recorded \cup {i}
    /\ UNCHANGED <<table, next, sync, started, refused>>

\* Reading the standard changes nothing.
Get == UNCHANGED syncVars

SyncNext ==
    \/ \E s \in Slots : (\E list \in Items : Sync(s, list)) \/ Apply(s) \/ Refuse(s)
    \/ \E i \in Ids : BeginProcess(i)
    \/ Get

SyncSpec == SyncInit /\ [][SyncNext]_syncVars

-----------------------------------------------------------------------------
(* Properties.                                                             *)

\* The table is one that the standard can be played from: its processes have
\* sequence numbers, each its own, whatever syncs overlap.
ProcessesTypeOK ==
    /\ table \in [Ids -> Numbers \cup {Absent}] /\ next \in 3 .. MaxId + 1
    /\ \A i, j \in Present(table) : table[i] = table[j] => i = j
    /\ recorded \subseteq Ids /\ started \in 0 .. MaxSyncs /\ refused \in BOOLEAN
    /\ \A s \in Slots : LET q == sync[s] IN
         q.busy => q.loaded \in [Ids -> Numbers \cup {Absent}] /\ q.list \in Items

\* A process with records is never dropped.
RecordedKept == recorded \subseteq Present(table)

\* A sync that changes the table leaves exactly its list: the named processes
\* with their numbers, the new ones, and nothing else; unless another sync
\* changed the table since it was loaded.
SyncExactUnlessRaced ==
    [][\A s \in Slots : LET q == sync[s] IN
         q.busy /\ ~sync'[s].busy /\ table' # table /\ ~q.raced =>
           /\ Present(table') \cap Present(table) = {i \in Ids : Places(q, i) # {}}
           /\ \A i \in Present(table') \cap Present(table) : table'[i] = Target(q, i)
           /\ Cardinality(Present(table') \ Present(table)) = Cardinality(New(q))
           /\ {table'[i] : i \in Present(table') \ Present(table)} = {q.list[k].sequence : k \in New(q)}]_syncVars

\* A list that stands by itself is applied: what it names is updated, what is
\* new is added and what is missing is dropped.
ListApplied == ~refused

=============================================================================
