------------------------ MODULE CompanyResourcesProofs ------------------------
(***************************************************************************)
(* Proofs about CompanyResources, for every set of companies, users and    *)
(* rows and every number of requests in flight.                            *)
(***************************************************************************)
EXTENDS CompanyResources, TLAPS

-----------------------------------------------------------------------------
(* Tables and rows.                                                        *)

\* An id is of one table.
LEMMA TableCases ==
    /\ \A i \in Leaves : RowOf(i) = Leave /\ i \notin Kiosks \cup Schedules \cup Boards \cup Chargers
    /\ \A i \in Kiosks : RowOf(i) = CompanyKiosk
                         /\ i \notin Leaves \cup Schedules \cup Boards \cup Chargers
    /\ \A i \in Schedules : RowOf(i) = JournalEmailSchedule
                            /\ i \notin Leaves \cup Kiosks \cup Boards \cup Chargers
    /\ \A i \in Boards : RowOf(i) = CaregiverBoard
                         /\ i \notin Leaves \cup Kiosks \cup Schedules \cup Chargers
    /\ \A i \in Chargers : RowOf(i) = CompanyCharger
                           /\ i \notin Leaves \cup Kiosks \cup Schedules \cup Boards
    /\ \A i \in Jobs \cup Journals :
           RowOf(i) \in {BulkEmailJob, WorkSchedule}
           /\ i \notin Leaves \cup Kiosks \cup Schedules \cup Boards \cup Chargers
<1> USE TableAssumption DEF RowOf
<1>1. \A i \in Jobs \cup Journals : i \notin Leaves \cup Kiosks \cup Schedules \cup Boards \cup Chargers
  OBVIOUS
<1>2. \A i \in Jobs \cup Journals : RowOf(i) \in {BulkEmailJob, WorkSchedule}
  BY <1>1
<1> QED BY <1>1, <1>2

\* A missing row is none of any table, and no table has another's columns.
LEMMA NoRowIsNoRow == \A i \in Ids : NoRow \notin RowOf(i)
<1>1. DOMAIN NoRow = {"none"}
  BY DEF NoRow
<1>2. /\ NoRow \notin Leave /\ NoRow \notin CompanyKiosk /\ NoRow \notin JournalEmailSchedule
      /\ NoRow \notin CaregiverBoard /\ NoRow \notin CompanyCharger
      /\ NoRow \notin BulkEmailJob /\ NoRow \notin WorkSchedule
  BY <1>1 DEF Leave, CompanyKiosk, JournalEmailSchedule, CaregiverBoard, CompanyCharger,
     BulkEmailJob, WorkSchedule
<1> QED BY <1>2 DEF RowOf

\* What an UPDATE makes of a row: each edited column, and no other, is that
\* of the edited copy.
LEMMA UpdatedRow ==
    ASSUME NEW i \in Ids, NEW row \in RowOf(i), NEW loaded \in RowOf(i), NEW edited \in RowOf(i)
    PROVE  /\ Written(row, loaded, edited) \in RowOf(i)
           /\ DOMAIN loaded = DOMAIN row
           /\ \A c \in DOMAIN row :
                  Written(row, loaded, edited)[c] =
                      IF loaded[c] # edited[c] THEN edited[c] ELSE row[c]
<1> DEFINE w == Written(row, loaded, edited)
<1>1. /\ w = [c \in DOMAIN row |-> w[c]]
      /\ \A c \in DOMAIN row : c \in DOMAIN loaded =>
             w[c] = IF loaded[c] # edited[c] THEN edited[c] ELSE row[c]
  BY DEF Written, DirtyColumns
<1> HIDE DEF w
<1>2. SUFFICES w \in RowOf(i) /\ DOMAIN loaded = DOMAIN row
  BY <1>1 DEF w
<1>3. CASE RowOf(i) = Leave
  <2>1. DOMAIN row = {"company", "status", "reason"} /\ DOMAIN loaded = DOMAIN row
    BY <1>3 DEF Leave
  <2>2. /\ w.company \in {edited.company, row.company} /\ w.status \in {edited.status, row.status}
        /\ w.reason \in {edited.reason, row.reason}
    BY <1>1, <2>1
  <2> QED BY <1>1, <1>3, <2>1, <2>2 DEF Leave
<1>4. CASE RowOf(i) = CompanyKiosk
  <2>1. DOMAIN row = {"company", "code", "assignee"} /\ DOMAIN loaded = DOMAIN row
    BY <1>4 DEF CompanyKiosk
  <2>2. /\ w.company \in {edited.company, row.company} /\ w.code \in {edited.code, row.code}
        /\ w.assignee \in {edited.assignee, row.assignee}
    BY <1>1, <2>1
  <2> QED BY <1>1, <1>4, <2>1, <2>2 DEF CompanyKiosk
<1>5. CASE RowOf(i) = JournalEmailSchedule
  <2>1. DOMAIN row = {"company", "frequency", "weekday", "day"} /\ DOMAIN loaded = DOMAIN row
    BY <1>5 DEF JournalEmailSchedule
  <2>2. /\ w.company \in {edited.company, row.company}
        /\ w.frequency \in {edited.frequency, row.frequency}
        /\ w.weekday \in {edited.weekday, row.weekday} /\ w.day \in {edited.day, row.day}
    BY <1>1, <2>1
  <2> QED BY <1>1, <1>5, <2>1, <2>2 DEF JournalEmailSchedule
<1>6. CASE RowOf(i) = CaregiverBoard
  <2>1. DOMAIN row = {"author", "text"} /\ DOMAIN loaded = DOMAIN row
    BY <1>6 DEF CaregiverBoard
  <2>2. w.author \in {edited.author, row.author} /\ w.text \in {edited.text, row.text}
    BY <1>1, <2>1
  <2> QED BY <1>1, <1>6, <2>1, <2>2 DEF CaregiverBoard
<1>7. CASE RowOf(i) = CompanyCharger
  <2>1. DOMAIN row = {"company", "hired"} /\ DOMAIN loaded = DOMAIN row
    BY <1>7 DEF CompanyCharger
  <2>2. w.company \in {edited.company, row.company} /\ w.hired \in {edited.hired, row.hired}
    BY <1>1, <2>1
  <2> QED BY <1>1, <1>7, <2>1, <2>2 DEF CompanyCharger
<1>8. CASE RowOf(i) \in {BulkEmailJob, WorkSchedule}
  <2>0. RowOf(i) = [company : Companies]
    BY <1>8 DEF BulkEmailJob, WorkSchedule
  <2>1. DOMAIN row = {"company"} /\ DOMAIN loaded = DOMAIN row
    BY <2>0
  <2>2. w.company \in {edited.company, row.company}
    BY <1>1, <2>1
  <2> QED BY <1>1, <2>0, <2>1, <2>2
<1> QED BY <1>3, <1>4, <1>5, <1>6, <1>7, <1>8, TableCases DEF Ids

-----------------------------------------------------------------------------
(***************************************************************************)
(* The invariant: what the checks at the start of a request leave true of  *)
(* its copies whatever others commit, and what it still knows of the row.  *)
(***************************************************************************)

\* The caller's scope does not change: no route moves a charger.
Scoped(u) == u \in Admins \/ CompanyOf[u] # None
Scope(u) == IF u \in Admins THEN None ELSE CompanyOf[u]

Mine(q, row) ==
    IF q.id \in Boards THEN row.author = q.actor ELSE Scope(q.actor) \in {None, row.company}

Row == Leave \cup CompanyKiosk \cup JournalEmailSchedule \cup CaregiverBoard
       \cup CompanyCharger \cup BulkEmailJob \cup WorkSchedule \cup {NoRow}

Request == [op : {"insert", "update", "delete"}, id : Ids, actor : Users,
            loaded : Row, edited : Row]

Shape == {"frequency", "weekday", "day"}

WellShaped(row) ==
    /\ (row.weekday # None) = (row.frequency = "WEEKLY")
    /\ (row.day # None) = (row.frequency = "MONTHLY")

\* The row as it was loaded and as it was edited were both the caller's; an
\* edit never takes a comment back, and shapes a schedule or leaves its shape.
Allowed(q) ==
    /\ q.id \notin Boards => Scoped(q.actor)
    /\ q.op = "insert" =>
           q.edited \in RowOf(q.id) /\ Mine(q, q.edited) /\ q.loaded = NoRow /\ q.id \notin Chargers
    /\ q.op = "update" =>
           /\ q.loaded \in RowOf(q.id) /\ Mine(q, q.loaded)
           /\ q.edited \in RowOf(q.id) /\ Mine(q, q.edited)
           /\ q.id \in Chargers => q.edited.company = q.loaded.company
           /\ q.id \in Leaves => q.loaded.reason \subseteq q.edited.reason
           /\ q.id \in Schedules =>
                  WellShaped(q.edited) \/ \A c \in Shape : q.loaded[c] = q.edited[c]
    /\ q.op = "delete" =>
           q.loaded \in RowOf(q.id) /\ Mine(q, q.loaded) /\ q.edited = NoRow /\ q.id \notin Chargers

Typed ==
    /\ db = [i \in Ids |-> db[i]] /\ \A i \in Ids : db[i] \in RowOf(i) \cup {NoRow}
    /\ req = [s \in Slots |-> req[s]]
    /\ \A s \in Slots : req[s] # Idle => req[s] \in Request /\ Allowed(req[s])
    /\ started \in 0 .. MaxRequests /\ given \subseteq Comments
    /\ sure \in [Ids -> Sure]

\* A charger's row stays, and in its company.
ChargersStay ==
    \A u \in Chargers : IF CompanyOf[u] = None THEN db[u] = NoRow
                        ELSE db[u] # NoRow /\ db[u].company = CompanyOf[u]

\* A row that an INSERT is about to make is nobody else's and has no past; a
\* post that is loaded stays its author's.
Knows(q) ==
    /\ q.op = "insert" => ~Exists(q.id) /\ sure[q.id] = Unsure
    /\ q.op # "insert" /\ q.id \in Boards /\ Exists(q.id) => db[q.id].author = q.actor

RequestsKnow ==
    /\ \A s \in Slots : req[s] # Idle => Knows(req[s])
    /\ \A s, t \in Slots :
           s # t /\ req[s].op = "insert" /\ req[t] # Idle => req[t].id # req[s].id

ResourcesInv ==
    Typed /\ ChargersStay /\ RequestsKnow /\ ReadsInScope /\ ShapeUnlessRaced /\ DecisionsStand

\* What an arrival does.
Entered(s, q) ==
    /\ req[s] = Idle /\ started < MaxRequests
    /\ q \in Request /\ Allowed(q) /\ Knows(q)
    /\ q.op = "insert" => \A t \in Slots : req[t].id # q.id
    /\ q.op # "insert" => Exists(q.id)
    /\ req' = [req EXCEPT ![s] = q] /\ started' = started + 1
    /\ given' \subseteq Comments /\ UNCHANGED <<db, answer, sure>>

-----------------------------------------------------------------------------
(* Arrivals.                                                               *)

\* An idle slot holds no request.
LEMMA IdleIsNone == Idle.op = "none" /\ Idle \notin Request
  BY DEF Idle, Request

\* The rows of every table, and none, are rows.
LEMMA RowsAreRows == NoRow \in Row /\ \A i \in Ids : RowOf(i) \subseteq Row
  BY DEF Row, RowOf

\* The scope of a caller who has one.
LEMMA ScopeKnown ==
    ASSUME Typed, ChargersStay, NEW u \in Users, HasScope(u)
    PROVE  Scoped(u) /\ ScopeOf(u) = Scope(u)
  BY DEF ChargersStay, HasScope, Scoped, ScopeOf, Scope, RequireAdmin, Users

\* An INSERT of a fresh row in the caller's scope, or of a post of the caller.
LEMMA InsertEnters ==
    ASSUME Typed, NEW s \in Slots, NEW u \in Users, NEW i \in Ids \ Chargers,
           NEW edited \in RowOf(i), Start(s, "insert", u, i, edited), Fresh(i),
           given' \subseteq Comments,
           IF i \in Boards THEN edited.author = u
           ELSE Scoped(u) /\ Scope(u) \in {None, edited.company}
    PROVE  \E q : Entered(s, q)
<1> DEFINE q == [op |-> "insert", id |-> i, actor |-> u, loaded |-> db[i], edited |-> edited]
<1>1. db[i] = NoRow /\ ~Exists(i) /\ sure[i] = Unsure /\ \A t \in Slots : req[t].id # i
  BY DEF Fresh, Exists
<1>2. q \in Request
  BY <1>1, RowsAreRows DEF Request
<1>3. q.op = "insert" /\ q.id = i /\ q.actor = u /\ q.loaded = db[i] /\ q.edited = edited
  OBVIOUS
<1>4. /\ req[s] = Idle /\ started < MaxRequests /\ req' = [req EXCEPT ![s] = q]
      /\ started' = started + 1 /\ UNCHANGED <<db, answer, sure>>
  BY DEF Start
<1> HIDE DEF q
<1>5. Allowed(q) /\ Knows(q)
  BY <1>1, <1>3 DEF Allowed, Knows, Mine
<1>6. Entered(s, q)
  BY <1>1, <1>2, <1>3, <1>4, <1>5 DEF Entered
<1> QED BY <1>6

\* An UPDATE of a row in the caller's scope.
LEMMA UpdateEnters ==
    ASSUME Typed, NEW s \in Slots, NEW u \in Users, NEW i \in Ids, NEW edited \in RowOf(i),
           Start(s, "update", u, i, edited), Exists(i), given' \subseteq Comments,
           IF i \in Boards THEN db[i].author = u /\ edited.author = u
           ELSE Scoped(u) /\ Scope(u) \in {None, db[i].company}
                /\ Scope(u) \in {None, edited.company},
           i \in Chargers => edited.company = db[i].company,
           i \in Leaves => db[i].reason \subseteq edited.reason,
           i \in Schedules => WellShaped(edited) \/ \A c \in Shape : db[i][c] = edited[c]
    PROVE  \E q : Entered(s, q)
<1> DEFINE q == [op |-> "update", id |-> i, actor |-> u, loaded |-> db[i], edited |-> edited]
<1>1. db[i] \in RowOf(i) /\ db[i] # NoRow
  BY DEF Typed, Exists
<1>2. q \in Request
  BY <1>1, RowsAreRows DEF Request
<1>3. q.op = "update" /\ q.id = i /\ q.actor = u /\ q.loaded = db[i] /\ q.edited = edited
  OBVIOUS
<1>4. /\ req[s] = Idle /\ started < MaxRequests /\ req' = [req EXCEPT ![s] = q]
      /\ started' = started + 1 /\ UNCHANGED <<db, answer, sure>>
  BY DEF Start
<1> HIDE DEF q
<1>5. Allowed(q) /\ Knows(q)
  BY <1>1, <1>3 DEF Allowed, Knows, Mine
<1>6. Entered(s, q)
  BY <1>2, <1>3, <1>4, <1>5 DEF Entered
<1> QED BY <1>6

\* A DELETE of a row in the caller's scope.
LEMMA DeleteEnters ==
    ASSUME Typed, NEW s \in Slots, NEW u \in Users, NEW i \in Ids \ Chargers,
           Delete(s, u, i), Exists(i),
           IF i \in Boards THEN db[i].author = u
           ELSE Scoped(u) /\ Scope(u) \in {None, db[i].company}
    PROVE  \E q : Entered(s, q)
<1> DEFINE q == [op |-> "delete", id |-> i, actor |-> u, loaded |-> db[i], edited |-> NoRow]
<1>1. db[i] \in RowOf(i) /\ db[i] # NoRow
  BY DEF Typed, Exists
<1>2. q \in Request
  BY <1>1, RowsAreRows DEF Request
<1>3. q.op = "delete" /\ q.id = i /\ q.actor = u /\ q.loaded = db[i] /\ q.edited = NoRow
  OBVIOUS
<1>4. /\ req[s] = Idle /\ started < MaxRequests /\ req' = [req EXCEPT ![s] = q]
      /\ started' = started + 1 /\ UNCHANGED <<db, answer, sure>>
      /\ given' \subseteq Comments
  BY DEF Delete, Start, Typed
<1> HIDE DEF q
<1>5. Allowed(q) /\ Knows(q)
  BY <1>1, <1>3 DEF Allowed, Knows, Mine
<1>6. Entered(s, q)
  BY <1>2, <1>3, <1>4, <1>5 DEF Entered
<1> QED BY <1>6

\* The guards of the routes, in terms of the constant scope.
LEMMA MayTouchScoped ==
    ASSUME Typed, ChargersStay, NEW u \in Users, NEW i, MayTouch(u, i)
    PROVE  Exists(i) /\ Scoped(u) /\ Scope(u) \in {None, db[i].company} /\ ScopeOf(u) = Scope(u)
  BY ScopeKnown DEF MayTouch, assert_company

\* The same for a row that is to be made for a company.
LEMMA MayMakeScoped ==
    ASSUME Typed, ChargersStay, NEW u \in Users, NEW c, MayMake(u, c)
    PROVE  Scoped(u) /\ Scope(u) \in {None, c}
  BY ScopeKnown DEF MayMake, assert_company

\* Each handler enters a request that its checks allow: the three of leaves.
LEMMA LeavesEnter ==
    ASSUME Typed, ChargersStay, NEW s \in Slots, NEW u \in Users, LeaveRoutes(s, u)
    PROVE  \E q : Entered(s, q)
<1>1. \A i \in Leaves : i \in Ids \ Chargers /\ RowOf(i) = Leave
                        /\ i \notin Boards /\ i \notin Schedules
  BY TableCases DEF Ids
<1>2. ASSUME NEW i \in Leaves, NEW c \in Companies, NEW auto \in BOOLEAN, CreateLeave(s, u, i, c, auto)
      PROVE  \E q : Entered(s, q)
  <2> DEFINE row == [company |-> c, status |-> IF auto THEN "APPROVED" ELSE "PENDING",
                     reason |-> {}]
  <2>1. row \in Leave /\ row.company = c
    BY DEF Leave, Status
  <2>2. Start(s, "insert", u, i, row) /\ Fresh(i) /\ MayMake(u, c) /\ given' \subseteq Comments
    BY <1>2 DEF CreateLeave, Typed
  <2> HIDE DEF row
  <2> QED BY <1>1, <2>1, <2>2, MayMakeScoped, InsertEnters
<1>3. ASSUME NEW i \in Leaves, NEW st \in Status, NEW C \in {{}} \cup {{k} : k \in Comments},
             DecideLeave(s, u, i, st, C)
      PROVE  \E q : Entered(s, q)
  <2> DEFINE row == [db[i] EXCEPT !.status = st, !.reason = @ \cup C]
  <2>1. MayTouch(u, i) /\ C \subseteq Comments /\ db[i] \in Leave
    BY <1>1, <1>3 DEF DecideLeave, MayTouch, Exists, Typed
  <2>2. /\ row \in Leave /\ row.company = db[i].company /\ db[i].reason \subseteq row.reason
        /\ Start(s, "update", u, i, row) /\ given' \subseteq Comments
    BY <1>3, <2>1 DEF DecideLeave, Typed, Leave
  <2> HIDE DEF row
  <2> QED BY <1>1, <2>1, <2>2, MayTouchScoped, UpdateEnters
<1>4. ASSUME NEW i \in Leaves, DeleteLeave(s, u, i) PROVE \E q : Entered(s, q)
  BY <1>1, <1>4, MayTouchScoped, DeleteEnters DEF DeleteLeave
<1> QED BY <1>2, <1>3, <1>4 DEF LeaveRoutes

\* The three of kiosks.
LEMMA KiosksEnter ==
    ASSUME Typed, ChargersStay, NEW s \in Slots, NEW u \in Users, KioskRoutes(s, u)
    PROVE  \E q : Entered(s, q)
<1>1. \A i \in Kiosks : i \in Ids \ Chargers /\ RowOf(i) = CompanyKiosk
                        /\ i \notin Boards /\ i \notin Schedules /\ i \notin Leaves
  BY TableCases DEF Ids
<1>2. ASSUME NEW i \in Kiosks, NEW c \in Companies, NEW code \in Codes, BindKiosk(s, u, i, c, code)
      PROVE  \E q : Entered(s, q)
  <2> DEFINE row == [company |-> c, code |-> code, assignee |-> None]
  <2>1. row \in CompanyKiosk /\ row.company = c
    BY DEF CompanyKiosk
  <2>2. Start(s, "insert", u, i, row) /\ Fresh(i) /\ MayMake(u, c) /\ given' \subseteq Comments
    BY <1>2 DEF BindKiosk, Typed
  <2> HIDE DEF row
  <2> QED BY <1>1, <2>1, <2>2, MayMakeScoped, InsertEnters
<1>3. ASSUME NEW i \in Kiosks, NEW n \in Names \cup {None}, SetAssignee(s, u, i, n)
      PROVE  \E q : Entered(s, q)
  <2> DEFINE row == [db[i] EXCEPT !.assignee = n]
  <2>1. MayTouch(u, i) /\ db[i] \in CompanyKiosk
    BY <1>1, <1>3 DEF SetAssignee, MayTouch, Exists, Typed
  <2>2. /\ row \in CompanyKiosk /\ row.company = db[i].company
        /\ Start(s, "update", u, i, row) /\ given' \subseteq Comments
    BY <1>3, <2>1 DEF SetAssignee, Typed, CompanyKiosk
  <2> HIDE DEF row
  <2> QED BY <1>1, <2>1, <2>2, MayTouchScoped, UpdateEnters
<1>4. ASSUME NEW i \in Kiosks, UnbindKiosk(s, u, i) PROVE \E q : Entered(s, q)
  BY <1>1, <1>4, MayTouchScoped, DeleteEnters DEF UnbindKiosk
<1> QED BY <1>2, <1>3, <1>4 DEF KioskRoutes

\* set_hired, which leaves the company alone.
LEMMA ChargersEnter ==
    ASSUME Typed, ChargersStay, NEW s \in Slots, NEW u \in Users, ChargerRoutes(s, u)
    PROVE  \E q : Entered(s, q)
<1>1. PICK i \in Chargers, h \in {"true", "false", None} : SetHired(s, u, i, h)
  BY DEF ChargerRoutes
<1>2. i \in Ids /\ RowOf(i) = CompanyCharger /\ i \notin Boards \cup Leaves \cup Schedules
  BY TableCases DEF Ids
<1>3. PICK b \in BOOLEAN : Start(s, "update", u, i, [db[i] EXCEPT !.hired = b])
  <2>1. (IF h = None THEN TRUE ELSE h = "true") \in BOOLEAN
    OBVIOUS
  <2> QED BY <1>1, <2>1 DEF SetHired
<1>4. Exists(i) /\ u \in Admins /\ given' \subseteq Comments /\ db[i] \in CompanyCharger
  BY <1>1, <1>2 DEF SetHired, RequireAdmin, Typed, Exists
<1> DEFINE row == [db[i] EXCEPT !.hired = b]
<1>5. row \in CompanyCharger /\ row.company = db[i].company /\ Start(s, "update", u, i, row)
  BY <1>3, <1>4 DEF CompanyCharger
<1>6. Scoped(u) /\ Scope(u) = None
  BY <1>4 DEF Scoped, Scope
<1> HIDE DEF row
<1> QED BY <1>2, <1>4, <1>5, <1>6, UpdateEnters

\* An update of a schedule keeps its shape or gives it one.
LEMMA Reshaped ==
    ASSUME NEW row \in JournalEmailSchedule, NEW r \in JournalScheduleUpdateRequest
    PROVE  /\ Reshape(row, r) \in JournalEmailSchedule
           /\ Reshape(row, r).company = row.company
           /\ WellShaped(Reshape(row, r)) \/ \A c \in Shape : row[c] = Reshape(row, r)[c]
<1> USE DefaultAssumption, NoneAssumption DEF JournalEmailSchedule, JournalScheduleUpdateRequest
<1>1. CASE r.frequency = None
  <2>1. Reshape(row, r) = row
    BY <1>1 DEF Reshape
  <2> QED BY <2>1
<1>2. CASE r.frequency # None
  <2>1. CASE r.frequency = "DAILY"
    <3>1. Reshape(row, r) = [row EXCEPT !.frequency = "DAILY", !.weekday = None, !.day = None]
      BY <1>2, <2>1 DEF Reshape
    <3> QED BY <3>1 DEF WellShaped
  <2>2. CASE r.frequency = "WEEKLY"
    <3>1. PICK w \in Weekdays : Reshape(row, r) =
              [row EXCEPT !.frequency = "WEEKLY", !.weekday = w, !.day = None]
      BY <1>2, <2>2 DEF Reshape, Default
    <3>2. w # None
      OBVIOUS
    <3>3. /\ Reshape(row, r) \in JournalEmailSchedule
          /\ Reshape(row, r).company = row.company
          /\ Reshape(row, r).frequency = "WEEKLY"
          /\ Reshape(row, r).weekday = w /\ Reshape(row, r).day = None
      BY <3>1
    <3> QED BY <3>2, <3>3 DEF WellShaped
  <2>3. CASE r.frequency = "MONTHLY"
    <3>1. PICK d \in Days : Reshape(row, r) =
              [row EXCEPT !.frequency = "MONTHLY", !.day = d, !.weekday = None]
      BY <1>2, <2>3 DEF Reshape, Default
    <3>2. d # None
      OBVIOUS
    <3>3. /\ Reshape(row, r) \in JournalEmailSchedule
          /\ Reshape(row, r).company = row.company
          /\ Reshape(row, r).frequency = "MONTHLY"
          /\ Reshape(row, r).day = d /\ Reshape(row, r).weekday = None
      BY <3>1
    <3> QED BY <3>2, <3>3 DEF WellShaped
  <2> QED BY <1>2, <2>1, <2>2, <2>3
<1> QED BY <1>1, <1>2

\* The three of schedules; an update checks the company the schedule moves to.
LEMMA SchedulesEnter ==
    ASSUME Typed, ChargersStay, NEW s \in Slots, NEW u \in Users, ScheduleRoutes(s, u)
    PROVE  \E q : Entered(s, q)
<1>1. \A i \in Schedules : i \in Ids \ Chargers /\ RowOf(i) = JournalEmailSchedule
                           /\ i \notin Boards /\ i \notin Leaves
  BY TableCases DEF Ids
<1>2. ASSUME NEW i \in Schedules, NEW row \in JournalEmailSchedule, CreateSchedule(s, u, i, row)
      PROVE  \E q : Entered(s, q)
  <2>1. /\ Start(s, "insert", u, i, row) /\ Fresh(i) /\ MayMake(u, row.company)
        /\ given' \subseteq Comments
    BY <1>2 DEF CreateSchedule, Typed
  <2> QED BY <1>1, <2>1, MayMakeScoped, InsertEnters
<1>3. ASSUME NEW i \in Schedules, NEW r \in JournalScheduleUpdateRequest,
             UpdateSchedule(s, u, i, r)
      PROVE  \E q : Entered(s, q)
  <2> DEFINE moved == [db[i] EXCEPT !.company = Default(r.company, @)]
             row == Reshape(moved, r)
  <2>1. MayTouch(u, i) /\ db[i] \in JournalEmailSchedule
    BY <1>1, <1>3 DEF UpdateSchedule, MayTouch, Exists, Typed
  <2>2. /\ moved \in JournalEmailSchedule /\ moved.company \in {r.company, db[i].company}
        /\ moved.company # None => moved.company = Default(r.company, db[i].company)
        /\ \A c \in Shape : db[i][c] = moved[c]
    BY <2>1 DEF JournalEmailSchedule, JournalScheduleUpdateRequest, Default, Shape
  <2>3. Start(s, "update", u, i, row) /\ given' \subseteq Comments
    BY <1>3 DEF UpdateSchedule, Typed
  <2>4. Scope(u) \in {None, moved.company}
    <3>1. Scope(u) \in {None, db[i].company} /\ ScopeOf(u) = Scope(u)
      BY <2>1, MayTouchScoped
    <3>2. moved.company = Default(r.company, db[i].company)
      BY <2>1 DEF JournalEmailSchedule
    <3> QED BY <1>3, <3>1, <3>2 DEF UpdateSchedule, assert_company, Default
  <2> HIDE DEF moved
  <2>5. /\ row \in JournalEmailSchedule /\ row.company = moved.company
        /\ WellShaped(row) \/ \A c \in Shape : db[i][c] = row[c]
    BY <2>2, Reshaped
  <2> HIDE DEF row
  <2> QED BY <1>1, <2>1, <2>3, <2>4, <2>5, MayTouchScoped, UpdateEnters
<1>4. ASSUME NEW i \in Schedules, DeleteSchedule(s, u, i) PROVE \E q : Entered(s, q)
  BY <1>1, <1>4, MayTouchScoped, DeleteEnters DEF DeleteSchedule
<1> QED BY <1>2, <1>3, <1>4 DEF ScheduleRoutes

\* The three of posts, which only their author changes.
LEMMA BoardsEnter ==
    ASSUME Typed, NEW s \in Slots, NEW u \in Users, BoardRoutes(s, u)
    PROVE  \E q : Entered(s, q)
<1>1. \A i \in Boards : i \in Ids \ Chargers /\ RowOf(i) = CaregiverBoard
                        /\ i \notin Schedules /\ i \notin Leaves
  BY TableCases DEF Ids
<1>2. ASSUME NEW i \in Boards, NEW text \in Texts, CreateBoard(s, u, i, text)
      PROVE  \E q : Entered(s, q)
  <2> DEFINE row == [author |-> u, text |-> text]
  <2>1. row \in CaregiverBoard /\ row.author = u
    BY DEF CaregiverBoard
  <2>2. Start(s, "insert", u, i, row) /\ Fresh(i) /\ given' \subseteq Comments
    BY <1>2 DEF CreateBoard, Typed
  <2> HIDE DEF row
  <2> QED BY <1>1, <2>1, <2>2, InsertEnters
<1>3. ASSUME NEW i \in Boards, NEW text \in Texts, UpdateBoard(s, u, i, text)
      PROVE  \E q : Entered(s, q)
  <2> DEFINE row == [db[i] EXCEPT !.text = text]
  <2>1. Exists(i) /\ db[i].author = u /\ db[i] \in CaregiverBoard
    BY <1>1, <1>3 DEF UpdateBoard, Exists, Typed
  <2>2. /\ row \in CaregiverBoard /\ row.author = u
        /\ Start(s, "update", u, i, row) /\ given' \subseteq Comments
    BY <1>3, <2>1 DEF UpdateBoard, Typed, CaregiverBoard
  <2> HIDE DEF row
  <2> QED BY <1>1, <2>1, <2>2, UpdateEnters
<1>4. ASSUME NEW i \in Boards, DeleteBoard(s, u, i) PROVE \E q : Entered(s, q)
  BY <1>1, <1>4, DeleteEnters DEF DeleteBoard
<1> QED BY <1>2, <1>3, <1>4 DEF BoardRoutes

-----------------------------------------------------------------------------
(* What a commit leaves certain.                                           *)

\* Of a leave: an edit that was not stale keeps the comments there were, and
\* decides.
LEMMA LeaveCertain ==
    ASSUME NEW q \in Request, Allowed(q), q.op = "update", q.id \in Leaves,
           NEW row \in Leave, NEW old \in Sure, NEW w, w = Written(row, q.loaded, q.edited),
           old.decision \in {None, row.status}, old.comments \subseteq row.reason
    PROVE  /\ StillSure(q, row, old) \in Sure
           /\ StillSure(q, row, old).decision \in {None, w.status}
           /\ StillSure(q, row, old).comments \subseteq w.reason
<1> DEFINE l == q.loaded
           e == q.edited
           comments == IF row.reason # l.reason THEN w.reason
                       ELSE old.comments \cup (e.reason \ l.reason)
           decision == IF row.status # l.status THEN None ELSE e.status
<1>1. l \in Leave /\ e \in Leave /\ l.reason \subseteq e.reason
  BY TableCases DEF Allowed
<1>2. /\ w \in Leave
      /\ w.status = IF l.status # e.status THEN e.status ELSE row.status
      /\ w.reason = IF l.reason # e.reason THEN e.reason ELSE row.reason
  <2>1. q.id \in Ids /\ RowOf(q.id) = Leave
    BY TableCases DEF Ids
  <2>2. DOMAIN row = {"company", "status", "reason"}
    BY DEF Leave
  <2> QED BY <1>1, <2>1, <2>2, UpdatedRow
<1>3. StillSure(q, row, old) = [old EXCEPT !.comments = comments, !.decision = decision]
  <2>1. /\ Moved(row, l, {"reason"}) <=> row.reason # l.reason
        /\ Moved(row, l, {"status"}) <=> row.status # l.status
    BY DEF Moved
  <2>2. StillSure(q, row, old) =
          [old EXCEPT !.comments = IF Moved(row, l, {"reason"}) THEN Written(row, l, e).reason
                                   ELSE old.comments \cup (e.reason \ l.reason),
                      !.decision = IF Moved(row, l, {"status"}) THEN None ELSE e.status]
    <3>1. q.id \notin Schedules
      BY TableCases
    <3> QED BY <3>1 DEF StillSure, Sure
  <2> QED BY <2>1, <2>2 DEF Sure
<1>4. comments \subseteq Comments /\ comments \subseteq w.reason
  <2>1. CASE row.reason # l.reason
    BY <1>2, <2>1 DEF Leave
  <2>2. CASE row.reason = l.reason
    <3>1. old.comments \subseteq e.reason
      BY <1>1, <2>2
    <3>2. comments \subseteq e.reason /\ e.reason \subseteq Comments
      BY <1>1, <2>2, <3>1 DEF Leave
    <3>3. w.reason = e.reason
      BY <1>2, <2>2
    <3> QED BY <3>2, <3>3
  <2> QED BY <2>1, <2>2
<1>5. decision \in Status \cup {None} /\ decision \in {None, w.status}
  BY <1>1, <1>2 DEF Leave
<1> HIDE DEF comments, decision
<1> QED BY <1>3, <1>4, <1>5 DEF Sure

\* Of a schedule: an edit of the frequency that was not stale leaves exactly
\* the day that it needs, and an edit of the company leaves the shape alone.
LEMMA ScheduleCertain ==
    ASSUME NEW q \in Request, Allowed(q), q.op = "update", q.id \in Schedules,
           NEW row \in JournalEmailSchedule, NEW old \in Sure,
           NEW w, w = Written(row, q.loaded, q.edited),
           old.whole => WellShaped(row)
    PROVE  /\ StillSure(q, row, old) \in Sure
           /\ StillSure(q, row, old).decision = old.decision
           /\ StillSure(q, row, old).comments = old.comments
           /\ StillSure(q, row, old).whole => WellShaped(w)
<1> DEFINE l == q.loaded
           e == q.edited
           touched == DirtyColumns(l, e) \cap Shape # {}
           moved == Moved(row, l, Shape)
           whole == IF ~moved THEN old.whole \/ touched ELSE old.whole /\ ~touched
<1>1. /\ l \in JournalEmailSchedule /\ e \in JournalEmailSchedule
      /\ WellShaped(e) \/ \A c \in Shape : l[c] = e[c]
  BY TableCases DEF Allowed
<1>2. DOMAIN row = {"company", "frequency", "weekday", "day"} /\ DOMAIN l = DOMAIN row
  BY <1>1 DEF JournalEmailSchedule
<1>3. \A c \in Shape : w[c] = IF l[c] # e[c] THEN e[c] ELSE row[c]
  <2>1. q.id \in Ids /\ RowOf(q.id) = JournalEmailSchedule
    BY TableCases DEF Ids
  <2> QED BY <1>1, <1>2, <2>1, UpdatedRow DEF Shape
<1>4. StillSure(q, row, old) = [old EXCEPT !.whole = whole]
  <2>1. q.id \notin Leaves
    BY TableCases
  <2> QED BY <2>1 DEF StillSure, Shape, Sure
<1>5. touched <=> \E c \in Shape : l[c] # e[c]
  BY <1>2 DEF DirtyColumns, Shape
<1>6. moved <=> \E c \in Shape : row[c] # l[c]
  BY DEF Moved
<1>7. whole \in BOOLEAN /\ (whole <=> IF moved THEN old.whole /\ ~touched ELSE old.whole \/ touched)
  BY DEF Sure
<1>8. whole => WellShaped(w)
  <2>1. ASSUME NEW v, \A c \in Shape : w[c] = v[c], WellShaped(v) PROVE WellShaped(w)
    BY <2>1 DEF WellShaped, Shape
  <2>2. CASE touched
    <3>1. SUFFICES ASSUME ~moved PROVE WellShaped(w)
      BY <1>7, <2>2
    <3>2. \A c \in Shape : w[c] = e[c]
      BY <1>3, <1>6, <3>1
    <3> QED BY <1>1, <1>5, <2>1, <2>2, <3>2
  <2>3. CASE ~touched
    <3>1. \A c \in Shape : w[c] = row[c]
      BY <1>3, <1>5, <2>3
    <3> QED BY <1>7, <2>1, <2>3, <3>1
  <2> QED BY <2>2, <2>3
<1> HIDE DEF whole
<1> QED BY <1>4, <1>7, <1>8 DEF Sure

\* What a commit does to the row, to what is certain of it, and to the
\* requests.
LEMMA CommitEffect ==
    ASSUME ResourcesInv, NEW s \in Slots, CommitInsert(s) \/ CommitUpdate(s) \/ CommitDelete(s),
           NEW q, q = req[s], NEW k, k = q.id
    PROVE  /\ q \in Request /\ q # Idle /\ Allowed(q) /\ Knows(q) /\ k \in Ids
           /\ UNCHANGED <<started, given, answer>>
           /\ req' = [t \in Slots |-> req'[t]] /\ req'[s] = Idle
           /\ \A t \in Slots : t # s => req'[t] = req[t]
           /\ db' = [i \in Ids |-> db'[i]] /\ \A i \in Ids : i # k => db'[i] = db[i]
           /\ sure' = [i \in Ids |-> sure'[i]] /\ \A i \in Ids : i # k => sure'[i] = sure[i]
           /\ \/ db'[k] = db[k] /\ sure'[k] = sure[k]
              \/ q.op = "insert" /\ db'[k] = q.edited /\ sure'[k] = sure[k]
              \/ q.op = "delete" /\ db'[k] = NoRow /\ sure'[k] = sure[k]
              \/ /\ q.op = "update" /\ db[k] \in RowOf(k)
                 /\ db'[k] = Written(db[k], q.loaded, q.edited)
                 /\ sure'[k] = StillSure(q, db[k], sure[k])
<1>1. q.op \in {"insert", "update", "delete"} /\ q # Idle
  BY IdleIsNone DEF CommitInsert, CommitUpdate, CommitDelete
<1>2. q \in Request /\ Allowed(q) /\ Knows(q) /\ k \in Ids
  BY <1>1 DEF ResourcesInv, Typed, RequestsKnow, Request
<1>3. /\ db = [i \in Ids |-> db[i]] /\ req = [t \in Slots |-> req[t]]
      /\ sure = [i \in Ids |-> sure[i]] /\ db[k] \in RowOf(k) \cup {NoRow}
  BY <1>2 DEF ResourcesInv, Typed
<1>4. /\ UNCHANGED <<started, given, answer>>
      /\ req' = [t \in Slots |-> req'[t]] /\ req'[s] = Idle
      /\ \A t \in Slots : t # s => req'[t] = req[t]
  <2>1. Done(s)
    BY DEF CommitInsert, CommitUpdate, CommitDelete
  <2> QED BY <1>3, <2>1 DEF Done
<1>5. CASE UNCHANGED <<db, sure>>
  BY <1>1, <1>2, <1>3, <1>4, <1>5
<1>6. CASE CommitInsert(s) /\ db' # db
  <2>1. q.op = "insert" /\ db' = [db EXCEPT ![k] = q.edited] /\ sure' = sure
    BY <1>6 DEF CommitInsert
  <2>2. /\ db' = [i \in Ids |-> db'[i]] /\ db'[k] = q.edited
        /\ \A i \in Ids : i # k => db'[i] = db[i]
    BY <1>2, <1>3, <2>1
  <2> QED BY <1>1, <1>2, <1>3, <1>4, <2>1, <2>2
<1>7. CASE CommitDelete(s)
  <2>1. q.op = "delete" /\ db' = [db EXCEPT ![k] = NoRow] /\ sure' = sure
    BY <1>7 DEF CommitDelete
  <2>2. /\ db' = [i \in Ids |-> db'[i]] /\ db'[k] = NoRow
        /\ \A i \in Ids : i # k => db'[i] = db[i]
    BY <1>2, <1>3, <2>1
  <2> QED BY <1>1, <1>2, <1>3, <1>4, <2>1, <2>2
<1>8. CASE CommitUpdate(s) /\ Exists(k)
  <2>1. /\ q.op = "update" /\ db' = [db EXCEPT ![k] = Written(db[k], q.loaded, q.edited)]
        /\ sure' = [sure EXCEPT ![k] = StillSure(q, db[k], sure[k])]
    BY <1>8 DEF CommitUpdate
  <2>2. /\ db' = [i \in Ids |-> db'[i]] /\ db'[k] = Written(db[k], q.loaded, q.edited)
        /\ \A i \in Ids : i # k => db'[i] = db[i]
    BY <1>2, <1>3, <2>1
  <2>3. /\ sure' = [i \in Ids |-> sure'[i]] /\ sure'[k] = StillSure(q, db[k], sure[k])
        /\ \A i \in Ids : i # k => sure'[i] = sure[i]
    BY <1>2, <1>3, <2>1
  <2>4. db[k] \in RowOf(k)
    BY <1>3, <1>8 DEF Exists
  <2> QED BY <1>1, <1>2, <1>4, <2>1, <2>2, <2>3, <2>4
<1>9. CASE (CommitInsert(s) /\ db' = db) \/ (CommitUpdate(s) /\ ~Exists(k))
  BY <1>5, <1>9 DEF CommitInsert, CommitUpdate
<1> QED BY <1>6, <1>7, <1>8, <1>9

\* The row that a commit leaves, and its certainties.
LEMMA CommitRow ==
    ASSUME ResourcesInv, NEW s \in Slots, CommitInsert(s) \/ CommitUpdate(s) \/ CommitDelete(s),
           NEW q, q = req[s], NEW k, k = q.id
    PROVE  /\ db'[k] \in RowOf(k) \cup {NoRow} /\ sure'[k] \in Sure
           /\ k \in Leaves /\ db'[k] # NoRow =>
                  sure'[k].decision \in {None, db'[k].status} /\ sure'[k].comments \subseteq db'[k].reason
           /\ k \in Schedules /\ db'[k] # NoRow /\ sure'[k].whole => WellShaped(db'[k])
<1>1. /\ q \in Request /\ Allowed(q) /\ Knows(q) /\ k \in Ids
      /\ \/ db'[k] = db[k] /\ sure'[k] = sure[k]
         \/ q.op = "insert" /\ db'[k] = q.edited /\ sure'[k] = sure[k]
         \/ q.op = "delete" /\ db'[k] = NoRow /\ sure'[k] = sure[k]
         \/ /\ q.op = "update" /\ db[k] \in RowOf(k)
            /\ db'[k] = Written(db[k], q.loaded, q.edited)
            /\ sure'[k] = StillSure(q, db[k], sure[k])
  BY CommitEffect
<1>2. /\ sure[k] \in Sure /\ db[k] \in RowOf(k) \cup {NoRow}
      /\ k \in Leaves /\ db[k] # NoRow =>
             sure[k].decision \in {None, db[k].status} /\ sure[k].comments \subseteq db[k].reason
      /\ k \in Schedules /\ db[k] # NoRow /\ sure[k].whole => WellShaped(db[k])
  BY <1>1 DEF ResourcesInv, Typed, DecisionsStand, ShapeUnlessRaced, WellShaped, Exists
<1>3. CASE db'[k] = db[k] /\ sure'[k] = sure[k]
  BY <1>2, <1>3
<1>4. CASE q.op = "insert" /\ db'[k] = q.edited /\ sure'[k] = sure[k]
  <2>1. sure[k] = Unsure /\ q.edited \in RowOf(k)
    BY <1>1, <1>4 DEF Knows, Allowed
  <2> QED BY <1>2, <1>4, <2>1 DEF Unsure
<1>5. CASE q.op = "delete" /\ db'[k] = NoRow /\ sure'[k] = sure[k]
  BY <1>2, <1>5
<1>6. CASE /\ q.op = "update" /\ db[k] \in RowOf(k)
           /\ db'[k] = Written(db[k], q.loaded, q.edited)
           /\ sure'[k] = StillSure(q, db[k], sure[k])
  <2>1. q.loaded \in RowOf(k) /\ q.edited \in RowOf(k) /\ db[k] # NoRow
    BY <1>1, <1>6, NoRowIsNoRow DEF Allowed
  <2>2. db'[k] \in RowOf(k)
    BY <1>1, <1>6, <2>1, UpdatedRow
  <2>3. CASE k \in Leaves
    <3>1. k \notin Schedules /\ db[k] \in Leave
      BY <1>6, <2>3, TableCases
    <3> QED BY <1>1, <1>2, <1>6, <2>1, <2>2, <2>3, <3>1, LeaveCertain
  <2>4. CASE k \in Schedules
    <3>1. k \notin Leaves /\ db[k] \in JournalEmailSchedule
      BY <1>6, <2>4, TableCases
    <3> QED BY <1>1, <1>2, <1>6, <2>1, <2>2, <2>4, <3>1, ScheduleCertain
  <2>5. CASE k \notin Leaves \cup Schedules
    <3>1. sure'[k] = sure[k]
      BY <1>6, <2>5 DEF StillSure
    <3> QED BY <1>2, <2>2, <2>5, <3>1
  <2> QED BY <2>3, <2>4, <2>5
<1> QED BY <1>1, <1>3, <1>4, <1>5, <1>6

-----------------------------------------------------------------------------
(* The steps.                                                              *)

Arrive(s, u) ==
    \/ LeaveRoutes(s, u) \/ KioskRoutes(s, u) \/ ChargerRoutes(s, u)
    \/ ScheduleRoutes(s, u) \/ BoardRoutes(s, u)

Commit(s) == CommitInsert(s) \/ CommitUpdate(s) \/ CommitDelete(s)

\* A listing or a read, by its caller and the companies it answers with.
Reads(u, companies) ==
    /\ u \in Users /\ HasScope(u) /\ Answer(u, companies)
    /\ (ScopeOf(u) # None => companies \subseteq {ScopeOf(u)})

\* Every arrival enters an allowed request.
LEMMA ArriveEnters ==
    ASSUME Typed, ChargersStay, NEW s \in Slots, NEW u \in Users, Arrive(s, u)
    PROVE  \E q : Entered(s, q)
  BY LeavesEnter, KiosksEnter, ChargersEnter, SchedulesEnter, BoardsEnter DEF Arrive

\* An arrival.
LEMMA EnterStep ==
    ASSUME ResourcesInv, NEW s \in Slots, NEW u \in Users, Arrive(s, u)
    PROVE  ResourcesInv'
<1>1. PICK q : Entered(s, q)
  BY ArriveEnters DEF ResourcesInv
<1>2. /\ db' = db /\ sure' = sure /\ answer' = answer /\ req[s] = Idle
      /\ started < MaxRequests /\ started' = started + 1 /\ given' \subseteq Comments
      /\ q \in Request /\ Allowed(q) /\ Knows(q)
      /\ q.op = "insert" => \A t \in Slots : req[t].id # q.id
      /\ q.op # "insert" => Exists(q.id)
  BY <1>1 DEF Entered
<1>3. /\ req' = [t \in Slots |-> req'[t]] /\ req'[s] = q
      /\ \A t \in Slots : t # s => req'[t] = req[t]
  BY <1>1 DEF Entered, ResourcesInv, Typed
<1>4. Typed'
  BY <1>2, <1>3, RequestAssumption DEF ResourcesInv, Typed
<1>5. ChargersStay' /\ ReadsInScope' /\ ShapeUnlessRaced' /\ DecisionsStand'
  BY <1>2 DEF ResourcesInv, ChargersStay, ReadsInScope, ShapeUnlessRaced, DecisionsStand, Exists
<1>6. \A t \in Slots : req[t] # Idle => Knows(req[t])
  BY DEF ResourcesInv, RequestsKnow
<1>7. \A t \in Slots : req'[t] # Idle => Knows(req[t])'
  <2>1. ASSUME NEW p, Knows(p) PROVE Knows(p)'
    BY <1>2, <2>1 DEF Knows, Exists
  <2> SUFFICES ASSUME NEW t \in Slots, req'[t] # Idle PROVE Knows(req[t])'
    OBVIOUS
  <2>2. PICK p : p = req'[t]
    OBVIOUS
  <2>3. Knows(p)
    BY <1>2, <1>3, <1>6, <2>2
  <2> QED BY <2>1, <2>2, <2>3 DEF Knows, Exists
<1>8. ASSUME NEW x \in Slots, NEW t \in Slots, x # t, req'[x].op = "insert", req'[t] # Idle
      PROVE  req'[t].id # req'[x].id
  <2>1. CASE x # s /\ t # s
    BY <1>3, <1>8, <2>1 DEF ResourcesInv, RequestsKnow
  <2>2. CASE x = s
    BY <1>2, <1>3, <1>8, <2>2
  <2>3. CASE t = s
    <3>1. req[x].op = "insert" /\ req[x] # Idle /\ req'[x] = req[x]
      BY <1>3, <1>8, <2>3, IdleIsNone
    <3>2. ~Exists(req[x].id)
      BY <1>6, <3>1 DEF Knows
    <3>3. CASE q.op = "insert"
      BY <1>2, <1>3, <2>3, <3>1, <3>3
    <3>4. CASE q.op # "insert"
      BY <1>2, <1>3, <2>3, <3>1, <3>2, <3>4
    <3> QED BY <3>3, <3>4
  <2> QED BY <2>1, <2>2, <2>3
<1>9. RequestsKnow'
  BY <1>7, <1>8 DEF RequestsKnow
<1> QED BY <1>4, <1>5, <1>9 DEF ResourcesInv

\* Whose row a commit leaves: its author's, its company's, or the request's.
LEMMA CommitKeeps ==
    ASSUME ResourcesInv, NEW s \in Slots, Commit(s), NEW q, q = req[s], NEW k, k = q.id
    PROVE  /\ k \in Chargers => \/ db'[k] = db[k]
                                \/ Exists(k) /\ db'[k] # NoRow /\ db'[k].company = db[k].company
           /\ k \in Boards /\ db'[k] # NoRow =>
                  IF Exists(k) THEN db'[k].author = db[k].author ELSE q.op = "insert"
           /\ db'[k] # db[k] =>
                 \/ /\ Exists(k) => Mine(q, db[k])
                    /\ db'[k] # NoRow => Mine(q, db'[k])
                 \/ Exists(k) /\ k \notin Boards /\ db[k].company # q.loaded.company
<1>1. /\ q \in Request /\ Allowed(q) /\ Knows(q) /\ k \in Ids
      /\ \/ db'[k] = db[k]
         \/ q.op = "insert" /\ db'[k] = q.edited
         \/ q.op = "delete" /\ db'[k] = NoRow
         \/ /\ q.op = "update" /\ db[k] \in RowOf(k)
            /\ db'[k] = Written(db[k], q.loaded, q.edited)
  BY CommitEffect DEF Commit
<1>2. CASE db'[k] = db[k]
  BY <1>2 DEF Exists
<1>3. CASE q.op = "insert" /\ db'[k] = q.edited
  <2>1. ~Exists(k) /\ Mine(q, q.edited) /\ k \notin Chargers
    BY <1>1, <1>3 DEF Knows, Allowed
  <2> QED BY <1>3, <2>1
<1>4. CASE q.op = "delete" /\ db'[k] = NoRow
  <2>1. Mine(q, q.loaded) /\ k \notin Chargers
    BY <1>1, <1>4 DEF Allowed
  <2>2. k \in Boards /\ Exists(k) => db[k].author = q.actor
    BY <1>1, <1>4 DEF Knows
  <2> QED BY <1>4, <2>1, <2>2 DEF Mine
<1>5. CASE /\ q.op = "update" /\ db[k] \in RowOf(k)
           /\ db'[k] = Written(db[k], q.loaded, q.edited)
  <2> DEFINE l == q.loaded
             e == q.edited
  <2>1. /\ l \in RowOf(k) /\ e \in RowOf(k) /\ Mine(q, l) /\ Mine(q, e)
        /\ k \in Chargers => e.company = l.company
    BY <1>1, <1>5 DEF Allowed
  <2>2. Exists(k)
    BY <1>1, <1>5, NoRowIsNoRow DEF Exists
  <2>3. k \in Boards => db[k].author = q.actor
    BY <1>1, <1>5, <2>2 DEF Knows
  <2>4. /\ db'[k] \in RowOf(k) /\ db'[k] # NoRow
        /\ \A c \in DOMAIN db[k] : db'[k][c] = IF l[c] # e[c] THEN e[c] ELSE db[k][c]
    BY <1>1, <1>5, <2>1, UpdatedRow, NoRowIsNoRow
  <2>5. CASE k \in Boards
    <3>1. RowOf(k) = CaregiverBoard /\ k \notin Chargers
      BY <2>5, TableCases
    <3>2. "author" \in DOMAIN db[k]
      BY <1>5, <3>1 DEF CaregiverBoard
    <3>3. db'[k].author = IF l.author # e.author THEN e.author ELSE db[k].author
      BY <2>4, <3>2
    <3>4. db'[k].author = q.actor /\ e.author = q.actor
      BY <2>1, <2>3, <2>5, <3>3 DEF Mine
    <3> QED BY <2>2, <2>3, <2>5, <3>1, <3>4 DEF Mine
  <2>6. CASE k \notin Boards
    <3>1. "company" \in DOMAIN db[k]
      <4> DEFINE HasCompany(T) == \A row \in T : "company" \in DOMAIN row
      <4>a. HasCompany(Leave) /\ HasCompany(CompanyKiosk) /\ HasCompany(JournalEmailSchedule)
        BY DEF Leave, CompanyKiosk, JournalEmailSchedule
      <4>b. HasCompany(CompanyCharger) /\ HasCompany(BulkEmailJob) /\ HasCompany(WorkSchedule)
        BY DEF CompanyCharger, BulkEmailJob, WorkSchedule
      <4>1. \A T \in {Leave, CompanyKiosk, JournalEmailSchedule, CompanyCharger, BulkEmailJob,
                      WorkSchedule} : \A row \in T : "company" \in DOMAIN row
        BY <4>a, <4>b
      <4>2. RowOf(k) \in {Leave, CompanyKiosk, JournalEmailSchedule, CompanyCharger, BulkEmailJob,
                          WorkSchedule}
        BY <2>6 DEF RowOf
      <4> QED BY <1>5, <4>1, <4>2
    <3>2. db'[k].company = IF l.company # e.company THEN e.company ELSE db[k].company
      BY <2>4, <3>1
    <3> QED BY <2>1, <2>2, <2>4, <2>6, <3>2 DEF Mine
  <2> QED BY <2>5, <2>6
<1> QED BY <1>1, <1>2, <1>3, <1>4, <1>5

\* A commit.
LEMMA CommitStep ==
    ASSUME ResourcesInv, NEW s \in Slots, Commit(s)
    PROVE  ResourcesInv'
<1>1. PICK q, k : q = req[s] /\ k = q.id
  OBVIOUS
<1>2. /\ q \in Request /\ q # Idle /\ Allowed(q) /\ k \in Ids
      /\ UNCHANGED <<started, given, answer>>
      /\ req' = [t \in Slots |-> req'[t]] /\ req'[s] = Idle
      /\ \A t \in Slots : t # s => req'[t] = req[t]
      /\ db' = [i \in Ids |-> db'[i]] /\ \A i \in Ids : i # k => db'[i] = db[i]
      /\ sure' = [i \in Ids |-> sure'[i]] /\ \A i \in Ids : i # k => sure'[i] = sure[i]
  BY <1>1, CommitEffect DEF Commit
<1>3. /\ db'[k] \in RowOf(k) \cup {NoRow} /\ sure'[k] \in Sure
      /\ k \in Leaves /\ db'[k] # NoRow =>
             sure'[k].decision \in {None, db'[k].status} /\ sure'[k].comments \subseteq db'[k].reason
      /\ k \in Schedules /\ db'[k] # NoRow /\ sure'[k].whole => WellShaped(db'[k])
  BY <1>1, CommitRow DEF Commit
<1>4. /\ k \in Chargers => \/ db'[k] = db[k]
                           \/ Exists(k) /\ db'[k] # NoRow /\ db'[k].company = db[k].company
      /\ k \in Boards /\ db'[k] # NoRow =>
             IF Exists(k) THEN db'[k].author = db[k].author ELSE q.op = "insert"
  BY <1>1, CommitKeeps
<1>5. Typed'
  <2>1. \A i \in Ids : db'[i] \in RowOf(i) \cup {NoRow} /\ sure'[i] \in Sure
    BY <1>2, <1>3 DEF ResourcesInv, Typed
  <2>2. \A t \in Slots : req'[t] # Idle => req'[t] \in Request /\ Allowed(req'[t])
    BY <1>2 DEF ResourcesInv, Typed
  <2>3. started' \in 0 .. MaxRequests /\ given' \subseteq Comments
    BY <1>2 DEF ResourcesInv, Typed
  <2>4. sure' \in [Ids -> Sure]
    BY <1>2, <2>1
  <2> QED BY <1>2, <2>1, <2>2, <2>3, <2>4 DEF Typed
<1>6. ChargersStay'
  <2> SUFFICES ASSUME NEW u \in Chargers
               PROVE  IF CompanyOf[u] = None THEN db'[u] = NoRow
                      ELSE db'[u] # NoRow /\ db'[u].company = CompanyOf[u]
    BY DEF ChargersStay
  <2>1. u \in Ids
    BY DEF Ids
  <2> QED BY <1>2, <1>4, <2>1 DEF ResourcesInv, ChargersStay, Exists
<1>7. \A t \in Slots : req'[t] # Idle => Knows(req[t])'
  <2> SUFFICES ASSUME NEW t \in Slots, req'[t] # Idle PROVE Knows(req[t])'
    OBVIOUS
  <2>1. PICK p : p = req[t]
    OBVIOUS
  <2>2. t # s /\ req'[t] = p /\ p # Idle /\ p \in Request /\ Knows(p) /\ p.id \in Ids
    BY <1>2, <2>1 DEF ResourcesInv, Typed, RequestsKnow, Request
  <2>3. CASE p.op = "insert"
    <3>1. p.id # k
      BY <1>1, <1>2, <2>1, <2>2, <2>3 DEF ResourcesInv, RequestsKnow
    <3> QED BY <1>2, <2>2, <2>3, <3>1 DEF Knows, Exists
  <2>4. CASE p.op # "insert"
    <3> SUFFICES ASSUME p.id \in Boards, db'[p.id] # NoRow PROVE db'[p.id].author = p.actor
      BY <2>2, <2>4 DEF Knows, Exists
    <3>1. Exists(p.id) => db[p.id].author = p.actor
      BY <2>2, <2>4 DEF Knows
    <3>2. p.id = k => q.op # "insert"
      BY <1>1, <1>2, <2>1, <2>2 DEF ResourcesInv, RequestsKnow
    <3> QED BY <1>2, <1>4, <2>2, <3>1, <3>2 DEF Exists
  <2> QED BY <2>3, <2>4
<1>8. RequestsKnow'
  <2>1. \A x, t \in Slots :
          x # t /\ req'[x].op = "insert" /\ req'[t] # Idle => req'[t].id # req'[x].id
    BY <1>2, IdleIsNone DEF ResourcesInv, RequestsKnow
  <2> QED BY <1>7, <2>1 DEF RequestsKnow
<1>9. ReadsInScope'
  BY <1>2 DEF ResourcesInv, ReadsInScope
<1>10. ShapeUnlessRaced'
  <2> SUFFICES ASSUME NEW i \in Schedules, db'[i] # NoRow, sure'[i].whole
               PROVE  WellShaped(db'[i])
    BY DEF ShapeUnlessRaced, WellShaped, Exists
  <2>1. i \in Ids
    BY DEF Ids
  <2>2. CASE i = k
    BY <1>3, <2>2
  <2>3. CASE i # k
    <3>1. db'[i] = db[i] /\ sure'[i] = sure[i]
      BY <1>2, <2>1, <2>3
    <3> QED BY <3>1 DEF ResourcesInv, ShapeUnlessRaced, WellShaped, Exists
  <2> QED BY <2>2, <2>3
<1>11. DecisionsStand'
  <2> SUFFICES ASSUME NEW i \in Leaves, db'[i] # NoRow
               PROVE  /\ sure'[i].decision \in {None, db'[i].status}
                      /\ sure'[i].comments \subseteq db'[i].reason
    BY DEF DecisionsStand, Exists
  <2>1. i \in Ids
    BY DEF Ids
  <2>2. CASE i = k
    BY <1>3, <2>2
  <2>3. CASE i # k
    <3>1. db'[i] = db[i] /\ sure'[i] = sure[i]
      BY <1>2, <2>1, <2>3
    <3> QED BY <3>1 DEF ResourcesInv, DecisionsStand, Exists
  <2> QED BY <2>2, <2>3
<1> QED BY <1>5, <1>6, <1>8, <1>9, <1>10, <1>11 DEF ResourcesInv

\* A commit that fails.
LEMMA AbortStep ==
    ASSUME ResourcesInv, NEW s \in Slots, Abort(s)
    PROVE  ResourcesInv'
<1>1. /\ UNCHANGED <<db, sure, started, given, answer>>
      /\ req' = [t \in Slots |-> req'[t]] /\ req'[s] = Idle
      /\ \A t \in Slots : t # s => req'[t] = req[t]
  BY DEF Abort, Done, ResourcesInv, Typed
<1>2. Typed' /\ ChargersStay' /\ ReadsInScope' /\ ShapeUnlessRaced' /\ DecisionsStand'
  BY <1>1 DEF ResourcesInv, Typed, ChargersStay, ReadsInScope, ShapeUnlessRaced, DecisionsStand,
     Exists
<1>3. RequestsKnow'
  BY <1>1, IdleIsNone DEF ResourcesInv, RequestsKnow, Knows, Exists
<1> QED BY <1>2, <1>3 DEF ResourcesInv

\* Every read holds, of the companies, what the caller's scope lets it see.
LEMMA ReadScoped ==
    ASSUME [Next]_vars
    PROVE  \/ \E s \in Slots, u \in Users : Arrive(s, u)
           \/ \E s \in Slots : Commit(s) \/ Abort(s)
           \/ \E u, companies : Reads(u, companies)
           \/ Received
           \/ UNCHANGED vars
<1> DEFINE Read == \E u, companies : Reads(u, companies)
<1>1. \A T, c : c # None => CompaniesIn(T, c) \subseteq {c}
  BY DEF CompaniesIn
<1>2. ASSUME NEW u \in Users, NEW T, NEW c, List(u, T, c) PROVE Read
  <2>1. Reads(u, CompaniesIn(T, resolve_company_filter(ScopeOf(u), c)))
    BY <1>1, <1>2 DEF List, Reads, resolve_company_filter
  <2> QED BY <2>1
<1>3. ASSUME NEW u \in Users, NEW c, KiosksOf(u, c) PROVE Read
  <2>1. Reads(u, CompaniesIn(Kiosks, c))
    BY <1>1, <1>3 DEF KiosksOf, Reads, assert_company
  <2> QED BY <2>1
<1>4. ASSUME NEW u \in Users, NEW c, Preview(u, c) PROVE Read
  <2>1. Reads(u, CompaniesIn(Journals, c))
    BY <1>1, <1>4 DEF Preview, MayMake, Reads, assert_company
  <2> QED BY <2>1
<1>5. ASSUME NEW u \in Users, ListByWorker(u) PROVE Read
  <2>1. Reads(u, CompaniesIn(Leaves, ScopeOf(u)))
    BY <1>1, <1>5 DEF ListByWorker, Reads
  <2> QED BY <2>1
<1>6. ASSUME NEW u \in Users, NEW j, GetJob(u, j) \/ RenderJournal(u, j) PROVE Read
  <2>1. Reads(u, {db[j].company})
    BY <1>6 DEF GetJob, RenderJournal, MayTouch, Reads, assert_company
  <2> QED BY <2>1
<1>7. ASSUME NEW u \in Users, NEW c, ListLeaves(u, c) \/ ListApproved(u, c) \/ ListKiosks(u, c)
                                     \/ ListSchedules(u, c) \/ ListJobs(u, c)
      PROVE  Read
  BY <1>2, <1>7 DEF ListLeaves, ListApproved, ListKiosks, ListSchedules, ListJobs
<1> HIDE DEF Read
<1>8. SUFFICES ASSUME Next PROVE Read \/ Received \/ (\E s \in Slots, u \in Users : Arrive(s, u))
                                 \/ \E s \in Slots : Commit(s) \/ Abort(s)
  BY DEF Read
<1> QED BY <1>3, <1>4, <1>5, <1>6, <1>7, <1>8 DEF Next, Arrive, Commit

\* Every state satisfies the invariant.
LEMMA Invariance == Spec => []ResourcesInv
<1>1. Init => ResourcesInv
  <2> SUFFICES ASSUME Init PROVE ResourcesInv
    OBVIOUS
  <2>1. /\ db = [i \in Ids |-> db[i]] /\ sure = [i \in Ids |-> Unsure]
        /\ req = [s \in Slots |-> Idle] /\ started = 0 /\ given = {} /\ answer = NoRow
    BY DEF Init
  <2>2. \A i \in Ids :
          db[i] = IF i \notin DOMAIN CompanyOf \/ CompanyOf[i] = None THEN NoRow
                  ELSE IF i \in Chargers THEN [company |-> CompanyOf[i], hired |-> TRUE]
                  ELSE [company |-> CompanyOf[i]]
    BY DEF Init
  <2>3. /\ DOMAIN CompanyOf = Chargers \cup Jobs \cup Journals
        /\ \A i \in DOMAIN CompanyOf : CompanyOf[i] \in Companies \cup {None}
    BY CompanyAssumption
  <2>4. \A i \in Ids : db[i] \in RowOf(i) \cup {NoRow}
    <3> SUFFICES ASSUME NEW i \in Ids, db[i] # NoRow PROVE db[i] \in RowOf(i)
      OBVIOUS
    <3>1. i \in Chargers \cup Jobs \cup Journals /\ CompanyOf[i] \in Companies
      BY <2>2, <2>3
    <3>2. CASE i \in Chargers
      BY <2>2, <3>1, <3>2, <2>3, TableCases DEF CompanyCharger
    <3>3. CASE i \notin Chargers
      <4>1. db[i] = [company |-> CompanyOf[i]] /\ RowOf(i) \in {BulkEmailJob, WorkSchedule}
        BY <2>2, <3>1, <3>3, TableCases
      <4> QED BY <3>1, <4>1 DEF BulkEmailJob, WorkSchedule
    <3> QED BY <3>2, <3>3
  <2>5. ChargersStay
    <3> SUFFICES ASSUME NEW u \in Chargers
                 PROVE  IF CompanyOf[u] = None THEN db[u] = NoRow
                        ELSE db[u] # NoRow /\ db[u].company = CompanyOf[u]
      BY DEF ChargersStay
    <3>1. u \in Ids /\ RowOf(u) = CompanyCharger
      BY TableCases DEF Ids
    <3>2. CompanyOf[u] # None => db[u] = [company |-> CompanyOf[u], hired |-> TRUE]
      BY <2>2, <2>3, <3>1
    <3>3. CompanyOf[u] # None => db[u] \in RowOf(u)
      BY <2>3, <3>1, <3>2 DEF CompanyCharger
    <3>4. CompanyOf[u] = None => db[u] = NoRow
      BY <2>2, <3>1
    <3>5. CompanyOf[u] # None => db[u] # NoRow /\ db[u].company = CompanyOf[u]
      BY <3>1, <3>2, <3>3, NoRowIsNoRow
    <3> QED BY <3>4, <3>5
  <2>6. Typed
    <3>1. Unsure \in Sure
      BY DEF Unsure, Sure
    <3> QED BY <2>1, <2>4, <3>1, RequestAssumption DEF Typed
  <2>7. RequestsKnow /\ ReadsInScope
    BY <2>1, IdleIsNone DEF RequestsKnow, ReadsInScope
  <2>8. ShapeUnlessRaced /\ DecisionsStand
    <3>1. \A i \in Leaves \cup Schedules : i \in Ids /\ i \notin DOMAIN CompanyOf
      BY <2>3, TableAssumption DEF Ids
    <3> QED BY <2>2, <3>1 DEF ShapeUnlessRaced, DecisionsStand, Exists
  <2> QED BY <2>5, <2>6, <2>7, <2>8 DEF ResourcesInv
<1>2. ResourcesInv /\ [Next]_vars => ResourcesInv'
  <2> SUFFICES ASSUME ResourcesInv, [Next]_vars PROVE ResourcesInv'
    OBVIOUS
  <2>1. CASE UNCHANGED <<db, req, started, given, sure>> /\ ReadsInScope'
    <3>1. Typed' /\ ChargersStay' /\ RequestsKnow'
      BY <2>1 DEF ResourcesInv, Typed, ChargersStay, RequestsKnow, Knows, Exists
    <3>2. ShapeUnlessRaced' /\ DecisionsStand'
      BY <2>1 DEF ResourcesInv, ShapeUnlessRaced, DecisionsStand, Exists
    <3> QED BY <2>1, <3>1, <3>2 DEF ResourcesInv
  <2>2. ASSUME NEW u, NEW companies, Reads(u, companies) PROVE ResourcesInv'
    <3>1. answer' = [scope |-> ScopeOf(u), companies |-> companies]
          /\ (ScopeOf(u) # None => companies \subseteq {ScopeOf(u)})
          /\ UNCHANGED <<db, req, started, given, sure>>
      BY <2>2 DEF Reads, Answer
    <3> QED BY <2>1, <3>1 DEF ReadsInScope
  <2>3. CASE Received
    BY <2>1, <2>3 DEF Received, ReadsInScope
  <2>4. CASE UNCHANGED vars
    BY <2>1, <2>4 DEF vars, ResourcesInv, ReadsInScope
  <2> QED BY <2>2, <2>3, <2>4, ReadScoped, EnterStep, CommitStep, AbortStep
<1> QED BY <1>1, <1>2, PTL DEF Spec

\* Every step that is not a commit leaves the rows alone.
LEMMA OnlyCommitsWrite ==
    ASSUME ResourcesInv, [Next]_vars
    PROVE  db' = db \/ \E s \in Slots : Commit(s)
<1>1. ASSUME NEW s \in Slots, NEW u \in Users, Arrive(s, u) PROVE db' = db
  <2>1. PICK q : Entered(s, q)
    BY <1>1, ArriveEnters DEF ResourcesInv
  <2> QED BY <2>1 DEF Entered
<1> QED BY <1>1, ReadScoped DEF Abort, Reads, Answer, Received, vars

-----------------------------------------------------------------------------
(* The properties.                                                         *)

\* Every row has the columns of its table, and every request in flight a
\* caller and copies of a row of its table, in every state the server reaches.
THEOREM TypeCorrect == Spec => []TypeOK
<1>1. ResourcesInv => TypeOK
  <2> SUFFICES ASSUME ResourcesInv, NEW s \in Slots
               PROVE  /\ req[s].op \in {"none", "insert", "update", "delete"}
                      /\ req[s] # Idle =>
                            /\ req[s].actor \in Users
                            /\ {req[s].loaded, req[s].edited} \subseteq RowOf(req[s].id) \cup {NoRow}
    BY DEF ResourcesInv, Typed, TypeOK
  <2>1. req[s] # Idle => req[s] \in Request /\ Allowed(req[s])
    BY DEF ResourcesInv, Typed
  <2> QED BY <2>1, IdleIsNone DEF Request, Allowed
<1> QED BY <1>1, Invariance, PTL

\* Whatever company a charger asks for, no listing and no read shows it a row
\* of another company than its own.
THEOREM ReadsScoped == Spec => []ReadsInScope
<1>1. ResourcesInv => ReadsInScope
  BY DEF ResourcesInv
<1> QED BY <1>1, Invariance, PTL

\* A commit touches only rows of the caller, before and after it, but for a
\* row that another commit moved to another company after the check.
THEOREM WritesScoped == Spec => WritesInScope
<1>1. ResourcesInv /\ [Next]_vars =>
        \A s \in Slots : LET q == req[s] IN
         q # Idle /\ req'[s] = Idle /\ db'[q.id] # db[q.id] =>
           LET mine(row) ==
                 \/ row = NoRow
                 \/ IF q.id \in Boards THEN row.author = q.actor
                    ELSE ScopeOf(q.actor) \in {None, row.company}
           IN \/ mine(db[q.id]) /\ mine(db'[q.id])
              \/ Exists(q.id) /\ q.id \notin Boards /\ db[q.id].company # q.loaded.company
  <2> DEFINE mine(q, row) == \/ row = NoRow
                             \/ IF q.id \in Boards THEN row.author = q.actor
                                ELSE ScopeOf(q.actor) \in {None, row.company}
  <2> SUFFICES ASSUME ResourcesInv, [Next]_vars, NEW s \in Slots, NEW q, q = req[s],
                      q # Idle, req'[s] = Idle, db'[q.id] # db[q.id],
                      ~(Exists(q.id) /\ q.id \notin Boards /\ db[q.id].company # q.loaded.company)
               PROVE  mine(q, db[q.id]) /\ mine(q, db'[q.id])
    OBVIOUS
  <2>1. PICK t \in Slots : Commit(t)
    BY OnlyCommitsWrite
  <2>2. PICK p : p = req[t]
    OBVIOUS
  <2>3. p \in Request /\ Allowed(p) /\ \A x \in Slots : x # t => req'[x] = req[x]
    BY <2>1, <2>2, CommitEffect DEF Commit
  <2>4. p = q
    BY <2>2, <2>3
  <2>5. (Exists(q.id) => Mine(q, db[q.id])) /\ (db'[q.id] # NoRow => Mine(q, db'[q.id]))
    <3>1. PICK k : k = q.id
      OBVIOUS
    <3>2. \/ (Exists(k) => Mine(q, db[k])) /\ (db'[k] # NoRow => Mine(q, db'[k]))
          \/ Exists(k) /\ k \notin Boards /\ db[k].company # q.loaded.company
      <4>1. db'[k] # db[k] /\ Commit(t) /\ q = req[t]
        BY <2>1, <2>2, <2>4, <3>1
      <4> QED BY <3>1, <4>1, CommitKeeps
    <3> QED BY <3>1, <3>2
  <2>6. q.id \notin Boards => ScopeOf(q.actor) = Scope(q.actor)
    <3>1. q.actor \in Users /\ (q.id \notin Boards => Scoped(q.actor))
      BY <2>3, <2>4 DEF Request, Allowed
    <3> QED BY <3>1 DEF ResourcesInv, ChargersStay, Scoped, ScopeOf, Scope, RequireAdmin, Users
  <2> QED BY <2>5, <2>6 DEF Mine, Exists
<1> QED BY <1>1, Invariance, PTL DEF Spec, WritesInScope

\* However updates of a schedule interleave, it has exactly the day that its
\* frequency needs, unless two updates of the frequency overlapped.
THEOREM ShapesKept == Spec => []ShapeUnlessRaced
<1>1. ResourcesInv => ShapeUnlessRaced
  BY DEF ResourcesInv
<1> QED BY <1>1, Invariance, PTL

\* The last decision on a leave stands and no comment is lost, unless a
\* decision was taken from a copy that another had made stale.
THEOREM DecisionsKept == Spec => []DecisionsStand
<1>1. ResourcesInv => DecisionsStand
  BY DEF ResourcesInv
<1> QED BY <1>1, Invariance, PTL

=============================================================================
