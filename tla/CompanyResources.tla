-------------------------- MODULE CompanyResources --------------------------
(***************************************************************************)
(* The rows that belong to a company and are edited by its charger or by   *)
(* an administrator: leaves, kiosks and the schedules of journal e-mails;  *)
(* the chargers' own rows; and the board posts edited by their author.     *)
(* Translated from the leave, kiosk, journal schedule, charger and board   *)
(* services, their routes, and the tenant scope they share.                *)
(*                                                                         *)
(* A request loads a row, checks it, edits its copy, answers, and writes   *)
(* at its commit the columns that differ from the ones it loaded.  Other   *)
(* requests commit in between.  A refused request changes nothing.         *)
(***************************************************************************)
EXTENDS Naturals, OrmRow, TenantScope

CONSTANTS
    Companies,    \* company ids
    Admins, Chargers,  \* users; a charger's id is also its row's
    CompanyOf,    \* the company of each charger (or None), job and journal
    Leaves, Kiosks, Schedules, Boards, Jobs, Journals,  \* row ids
    Codes,        \* kiosk codes
    Names,        \* assignees
    Comments,     \* comments on a decision, each given once
    Weekdays, Days,    \* of a schedule
    Texts,        \* texts of posts
    Slots,        \* requests in flight
    MaxRequests   \* bound on the requests ever started

ASSUME CompanyAssumption ==
    /\ CompanyOf \in [Chargers \cup Jobs \cup Journals -> Companies \cup {None}]
    /\ \A i \in Jobs \cup Journals : CompanyOf[i] # None
\* An id is of one table.
ASSUME TableAssumption ==
    /\ Leaves \cap (Kiosks \cup Schedules \cup Boards \cup Chargers \cup Jobs \cup Journals) = {}
    /\ Kiosks \cap (Schedules \cup Boards \cup Chargers \cup Jobs \cup Journals) = {}
    /\ Schedules \cap (Boards \cup Chargers \cup Jobs \cup Journals) = {}
    /\ Boards \cap (Chargers \cup Jobs \cup Journals) = {}
    /\ Chargers \cap (Jobs \cup Journals) = {}
    /\ Jobs \cap Journals = {}
ASSUME DefaultAssumption == "MON" \in Weekdays /\ 1 \in Days
ASSUME NoneAssumption ==
    None \notin Weekdays /\ None \notin Days /\ None \notin {"DAILY", "WEEKLY", "MONTHLY"}
ASSUME RequestAssumption == MaxRequests \in Nat

VARIABLES
    db,      \* the committed rows, by id
    req,     \* the requests in flight
    started, \* how many requests were started
    given,   \* comments given so far
    answer,  \* what the last step listed: the caller's scope and the companies
    sure     \* history: what nobody has overwritten from a stale copy

vars == <<db, req, started, given, answer, sure>>

Users == Admins \cup Chargers
Ids == Leaves \cup Kiosks \cup Schedules \cup Boards \cup Chargers \cup Jobs \cup Journals

Status == {"PENDING", "APPROVED", "REJECTED"}
Leave == [company : Companies, status : Status, reason : SUBSET Comments]
CompanyKiosk == [company : Companies, code : Codes, assignee : Names \cup {None}]
JournalEmailSchedule ==
    [company : Companies, frequency : {"DAILY", "WEEKLY", "MONTHLY"},
     weekday : Weekdays \cup {None}, day : Days \cup {None}]
CaregiverBoard == [author : Users, text : Texts]
CompanyCharger == [company : Companies, hired : BOOLEAN]
BulkEmailJob == [company : Companies]
\* A schedule, with the company of the membership its assignment is for.
WorkSchedule == [company : Companies]

NoRow == [none |-> None]
Idle == [op |-> "none", id |-> None, actor |-> None, loaded |-> NoRow, edited |-> NoRow]

\* For a leave, the comments of committed decisions and the last decision;
\* for a schedule, whether an update shaped it.
Sure == [comments : SUBSET Comments, decision : Status \cup {None}, whole : BOOLEAN]
Unsure == [comments |-> {}, decision |-> None, whole |-> FALSE]

Init ==
    /\ db = [i \in Ids |->
         IF i \notin DOMAIN CompanyOf \/ CompanyOf[i] = None THEN NoRow
         ELSE IF i \in Chargers THEN [company |-> CompanyOf[i], hired |-> TRUE]
         ELSE [company |-> CompanyOf[i]]]
    /\ req = [s \in Slots |-> Idle]
    /\ started = 0 /\ given = {}
    /\ answer = NoRow
    /\ sure = [i \in Ids |-> Unsure]

-----------------------------------------------------------------------------
(* The caller's scope, and the start of a request.                         *)

RequireAdmin(u) == u \in Admins

\* get_company_scope: an administrator, or a charger with a company.
HasScope(u) == u \in Chargers => db[u] # NoRow
ScopeOf(u) == IF RequireAdmin(u) THEN None ELSE db[u].company

Exists(i) == db[i] # NoRow
MayTouch(u, i) == Exists(i) /\ HasScope(u) /\ assert_company(ScopeOf(u), db[i].company)
MayMake(u, c) == HasScope(u) /\ assert_company(ScopeOf(u), c)

Start(s, op, u, i, edited) ==
    /\ req[s] = Idle /\ started < MaxRequests /\ answer = NoRow
    /\ req' = [req EXCEPT ![s] =
         [op |-> op, id |-> i, actor |-> u, loaded |-> db[i], edited |-> edited]]
    /\ started' = started + 1
    /\ UNCHANGED <<db, answer, sure>>

\* A new row takes a fresh id: one without a row that no request holds.
Fresh(i) == ~Exists(i) /\ sure[i] = Unsure /\ \A s \in Slots : req[s].id # i

-----------------------------------------------------------------------------
(* Leaves.                                                                 *)

\* create: pending, or approved at once.
CreateLeave(s, u, i, c, auto) ==
    /\ Fresh(i) /\ MayMake(u, c)
    /\ Start(s, "insert", u, i,
             [company |-> c, status |-> IF auto THEN "APPROVED" ELSE "PENDING", reason |-> {}])
    /\ UNCHANGED given

\* Mutant: the comment replaces the reason.
DecideLeave_Replace(s, u, i, status, C) ==
    /\ MayTouch(u, i) /\ C \cap given = {}
    /\ Start(s, "update", u, i, [db[i] EXCEPT !.status = status, !.reason = IF C = {} THEN @ ELSE C])
    /\ given' = given \cup C

\* decide: any status at any time; a comment (C holds one or none) is
\* appended to the reason that was loaded.
DecideLeave(s, u, i, status, C) ==
    /\ MayTouch(u, i) /\ C \cap given = {}
    /\ Start(s, "update", u, i, [db[i] EXCEPT !.status = status, !.reason = @ \cup C])
    /\ given' = given \cup C

-----------------------------------------------------------------------------
(* Kiosks and chargers.                                                    *)

Bound(c, code) == \E i \in Kiosks : Exists(i) /\ db[i].company = c /\ db[i].code = code

\* bind reads first; uq_company_kiosk decides at the INSERT.
BindKiosk(s, u, i, c, code) ==
    /\ Fresh(i) /\ MayMake(u, c) /\ ~Bound(c, code)
    /\ Start(s, "insert", u, i, [company |-> c, code |-> code, assignee |-> None])
    /\ UNCHANGED given

SetAssignee(s, u, i, name) ==
    /\ MayTouch(u, i)
    /\ Start(s, "update", u, i, [db[i] EXCEPT !.assignee = name])
    /\ UNCHANGED given

\* Mutant: a missing field is stored as it is.
SetHired_AsGiven(s, u, i, hired) ==
    /\ RequireAdmin(u) /\ Exists(i)
    /\ Start(s, "update", u, i, [db[i] EXCEPT !.hired = IF hired = None THEN None ELSE hired = "true"])
    /\ UNCHANGED given

\* set_hired, by an administrator; a body without the field means TRUE.  The
\* scope of the charger does not depend on it.
SetHired(s, u, i, hired) ==
    /\ RequireAdmin(u) /\ Exists(i)
    /\ Start(s, "update", u, i, [db[i] EXCEPT !.hired = IF hired = None THEN TRUE ELSE hired = "true"])
    /\ UNCHANGED given

-----------------------------------------------------------------------------
(* Schedules of journal e-mails (but for whether they are enabled).        *)

\* create stores what it is given, shaped or not.
CreateSchedule(s, u, i, row) ==
    /\ Fresh(i) /\ MayMake(u, row.company)
    /\ Start(s, "insert", u, i, row)
    /\ UNCHANGED given

Default(x, y) == IF x = None THEN y ELSE x

\* Mutant: a weekly schedule keeps its day of the month.
Reshape_KeepDay(row, r) ==
    LET freq == r.frequency IN
    CASE freq = None -> row
      [] freq = "DAILY" -> [row EXCEPT !.frequency = freq, !.weekday = None, !.day = None]
      [] freq = "WEEKLY" ->
           [row EXCEPT !.frequency = freq, !.weekday = Default(Default(r.weekday, @), "MON")]
      [] freq = "MONTHLY" ->
           [row EXCEPT !.frequency = freq, !.day = Default(Default(r.day, @), 1), !.weekday = None]

\* The frequency of an update, if any, brings its day and clears the other.
Reshape(row, r) ==
    LET freq == r.frequency IN
    CASE freq = None -> row
      [] freq = "DAILY" -> [row EXCEPT !.frequency = freq, !.weekday = None, !.day = None]
      [] freq = "WEEKLY" ->
           [row EXCEPT !.frequency = freq, !.weekday = Default(Default(r.weekday, @), "MON"), !.day = None]
      [] freq = "MONTHLY" ->
           [row EXCEPT !.frequency = freq, !.day = Default(Default(r.day, @), 1), !.weekday = None]

\* update: the company the row has and the one it goes to are both checked.
UpdateSchedule(s, u, i, r) ==
    /\ MayTouch(u, i)
    /\ r.company \notin {None, db[i].company} => assert_company(ScopeOf(u), r.company)
    /\ Start(s, "update", u, i, Reshape([db[i] EXCEPT !.company = Default(r.company, @)], r))
    /\ UNCHANGED given

-----------------------------------------------------------------------------
(* Board posts.                                                            *)

CreateBoard(s, u, i, text) ==
    /\ Fresh(i)
    /\ Start(s, "insert", u, i, [author |-> u, text |-> text])
    /\ UNCHANGED given

\* update, by the author only.
UpdateBoard(s, u, i, text) ==
    /\ Exists(i) /\ db[i].author = u
    /\ Start(s, "update", u, i, [db[i] EXCEPT !.text = text])
    /\ UNCHANGED given

-----------------------------------------------------------------------------
(* Deletes.                                                                *)

Delete(s, u, i) == Start(s, "delete", u, i, NoRow) /\ UNCHANGED given

DeleteLeave(s, u, i) == MayTouch(u, i) /\ Delete(s, u, i)
UnbindKiosk(s, u, i) == MayTouch(u, i) /\ Delete(s, u, i)
DeleteSchedule(s, u, i) == MayTouch(u, i) /\ Delete(s, u, i)
DeleteBoard(s, u, i) == Exists(i) /\ db[i].author = u /\ Delete(s, u, i)

-----------------------------------------------------------------------------
(* The end of a request.                                                   *)

Done(s) ==
    /\ answer = NoRow
    /\ req' = [req EXCEPT ![s] = Idle]
    /\ UNCHANGED <<started, given, answer>>

\* The INSERT of a kiosk whose code the company already has is refused.
CommitInsert(s) ==
    LET q == req[s] IN
    /\ q.op = "insert"
    /\ IF q.id \in Kiosks /\ Bound(q.edited.company, q.edited.code)
       THEN UNCHANGED db
       ELSE db' = [db EXCEPT ![q.id] = q.edited]
    /\ Done(s)
    /\ UNCHANGED sure

\* What stays certain after request q wrote over the row: a stale copy of the
\* reason, of the status or of the frequency ends it.
StillSure(q, row, old) ==
    LET stale(C) == Moved(row, q.loaded, C) IN
    CASE q.id \in Leaves ->
           [old EXCEPT !.comments = IF stale({"reason"}) THEN Written(row, q.loaded, q.edited).reason
                                    ELSE @ \cup (q.edited.reason \ q.loaded.reason),
                       !.decision = IF stale({"status"}) THEN None ELSE q.edited.status]
      [] q.id \in Schedules ->
           [old EXCEPT !.whole =
              LET shape == {"frequency", "weekday", "day"} IN
              IF ~stale(shape)
              THEN @ \/ DirtyColumns(q.loaded, q.edited) \cap shape # {}
              ELSE @ /\ DirtyColumns(q.loaded, q.edited) \cap shape = {}]
      [] OTHER -> old

\* The UPDATE writes the edited columns; an UPDATE of a row that is gone is
\* an error, and so is nothing to write no UPDATE.
CommitUpdate(s) ==
    LET q == req[s] IN
    /\ q.op = "update"
    /\ IF Exists(q.id)
       THEN /\ db' = [db EXCEPT ![q.id] = Written(@, q.loaded, q.edited)]
            /\ sure' = [sure EXCEPT ![q.id] = StillSure(q, db[q.id], @)]
       ELSE UNCHANGED <<db, sure>>
    /\ Done(s)

CommitDelete(s) ==
    LET q == req[s] IN
    /\ q.op = "delete"
    /\ db' = [db EXCEPT ![q.id] = NoRow]
    /\ Done(s)
    /\ UNCHANGED sure

\* The commit fails or never comes.
Abort(s) == req[s] # Idle /\ Done(s) /\ UNCHANGED <<db, sure>>

-----------------------------------------------------------------------------
(* Reading.                                                                *)

CompaniesIn(T, c) == {db[i].company : i \in {j \in T : Exists(j) /\ c \in {None, db[j].company}}}

Answer(u, companies) ==
    /\ answer = NoRow
    /\ answer' = [scope |-> ScopeOf(u), companies |-> companies]
    /\ UNCHANGED <<db, req, started, given, sure>>

List(u, T, requested) ==
    /\ HasScope(u) /\ FilterAllowed(ScopeOf(u), requested)
    /\ Answer(u, CompaniesIn(T, resolve_company_filter(ScopeOf(u), requested)))

ListLeaves(u, requested) == List(u, Leaves, requested)
ListApproved(u, requested) ==
    List(u, {i \in Leaves : Exists(i) /\ db[i].status = "APPROVED"}, requested)
ListKiosks(u, requested) == List(u, Kiosks, requested)
ListSchedules(u, requested) == List(u, Schedules, requested)
ListJobs(u, requested) == List(u, Jobs, requested)

\* The kiosks of one company, which must be the caller's.
KiosksOf(u, c) ==
    /\ HasScope(u) /\ assert_company(ScopeOf(u), c)
    /\ Answer(u, CompaniesIn(Kiosks, c))

\* The leaves of a worker, who may have some in several companies.
ListByWorker(u) == HasScope(u) /\ Answer(u, CompaniesIn(Leaves, ScopeOf(u)))

\* A job by its id.
GetJob(u, j) == MayTouch(u, j) /\ Answer(u, {db[j].company})

\* The journal of a schedule, for any schedule id.
RenderJournal(u, j) == MayTouch(u, j) /\ Answer(u, {db[j].company})

\* What a bulk mail for a company would hold.
Preview(u, c) == MayMake(u, c) /\ Answer(u, CompaniesIn(Journals, c))

\* An answer is taken before the next step (it depends on nothing later).
Received == answer # NoRow /\ answer' = NoRow /\ UNCHANGED <<db, req, started, given, sure>>

-----------------------------------------------------------------------------
(* The routes.                                                             *)

LeaveRoutes(s, u) ==
    \/ \E i \in Leaves, c \in Companies, auto \in BOOLEAN : CreateLeave(s, u, i, c, auto)
    \/ \E i \in Leaves, st \in Status, C \in {{}} \cup {{k} : k \in Comments} :
          DecideLeave(s, u, i, st, C)
    \/ \E i \in Leaves : DeleteLeave(s, u, i)

KioskRoutes(s, u) ==
    \/ \E i \in Kiosks, c \in Companies, code \in Codes : BindKiosk(s, u, i, c, code)
    \/ \E i \in Kiosks, n \in Names \cup {None} : SetAssignee(s, u, i, n)
    \/ \E i \in Kiosks : UnbindKiosk(s, u, i)

ChargerRoutes(s, u) ==
    \E i \in Chargers, h \in {"true", "false", None} : SetHired(s, u, i, h)

\* What an update can hold: every field may be missing.
JournalScheduleUpdateRequest ==
    [company : Companies \cup {None}, frequency : {"DAILY", "WEEKLY", "MONTHLY", None},
     weekday : Weekdays \cup {None}, day : Days \cup {None}]

ScheduleRoutes(s, u) ==
    \/ \E i \in Schedules, row \in JournalEmailSchedule : CreateSchedule(s, u, i, row)
    \/ \E i \in Schedules, r \in JournalScheduleUpdateRequest : UpdateSchedule(s, u, i, r)
    \/ \E i \in Schedules : DeleteSchedule(s, u, i)

BoardRoutes(s, u) ==
    \/ \E i \in Boards, t \in Texts : CreateBoard(s, u, i, t) \/ UpdateBoard(s, u, i, t)
    \/ \E i \in Boards : DeleteBoard(s, u, i)

Next ==
    \/ \E s \in Slots :
          \/ \E u \in Users :
                \/ LeaveRoutes(s, u)
                \/ KioskRoutes(s, u)
                \/ ChargerRoutes(s, u)
                \/ ScheduleRoutes(s, u)
                \/ BoardRoutes(s, u)
          \/ CommitInsert(s)
          \/ CommitUpdate(s)
          \/ CommitDelete(s)
          \/ Abort(s)
    \/ \E u \in Users, c \in Companies \cup {None} :
          \/ ListLeaves(u, c) \/ ListApproved(u, c)
          \/ ListKiosks(u, c) \/ ListSchedules(u, c) \/ ListJobs(u, c)
    \/ \E u \in Users, c \in Companies : KiosksOf(u, c) \/ Preview(u, c)
    \/ \E u \in Users : ListByWorker(u)
    \/ \E u \in Users, j \in Jobs : GetJob(u, j)
    \/ \E u \in Users, j \in Journals : RenderJournal(u, j)
    \/ Received

Spec == Init /\ [][Next]_vars

-----------------------------------------------------------------------------
(* Properties.                                                             *)

RowOf(i) ==
    IF i \in Leaves THEN Leave ELSE IF i \in Kiosks THEN CompanyKiosk
    ELSE IF i \in Schedules THEN JournalEmailSchedule ELSE IF i \in Boards THEN CaregiverBoard
    ELSE IF i \in Chargers THEN CompanyCharger ELSE IF i \in Jobs THEN BulkEmailJob
    ELSE WorkSchedule

\* Every row has the columns of its table.
TypeOK ==
    /\ \A i \in Ids : db[i] \in RowOf(i) \cup {NoRow}
    /\ started \in 0 .. MaxRequests /\ given \subseteq Comments
    /\ sure \in [Ids -> Sure]
    /\ \A s \in Slots : LET q == req[s] IN
         /\ q.op \in {"none", "insert", "update", "delete"}
         /\ q # Idle => /\ q.actor \in Users
                        /\ {q.loaded, q.edited} \subseteq RowOf(q.id) \cup {NoRow}

\* A listing or a read of leaves, kiosks, journal schedules, bulk e-mail jobs or
\* journals by a charger never holds a row of another company, whatever company
\* was asked for.
ReadsInScope ==
    answer # NoRow /\ answer.scope # None => answer.companies \subseteq {answer.scope}

\* A commit changes, makes or removes a post only for its author, and another
\* row only for an administrator or a charger of its company, before and after
\* it, unless the row was moved to another company between check and commit.
WritesInScope ==
    [][\A s \in Slots : LET q == req[s] IN
         q # Idle /\ req'[s] = Idle /\ db'[q.id] # db[q.id] =>
           LET mine(row) ==
                 \/ row = NoRow
                 \/ IF q.id \in Boards THEN row.author = q.actor
                    ELSE ScopeOf(q.actor) \in {None, row.company}
           IN \/ mine(db[q.id]) /\ mine(db'[q.id])
              \/ Exists(q.id) /\ q.id \notin Boards /\ db[q.id].company # q.loaded.company]_vars

\* Once an update has set the frequency, the schedule has exactly the day its
\* frequency needs, wherever it is moved meanwhile, until two updates of the
\* frequency overlap.
ShapeUnlessRaced ==
    \A i \in Schedules : Exists(i) /\ sure[i].whole =>
        /\ (db[i].weekday # None) = (db[i].frequency = "WEEKLY")
        /\ (db[i].day # None) = (db[i].frequency = "MONTHLY")

\* The last decision on a leave stands, and the comments of all decisions are
\* in its reason, unless a decision was taken from a copy that another one
\* had made stale.
DecisionsStand ==
    \A i \in Leaves : Exists(i) =>
        /\ sure[i].decision \in {None, db[i].status}
        /\ sure[i].comments \subseteq db[i].reason

=============================================================================
