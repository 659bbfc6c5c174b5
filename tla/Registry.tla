------------------------------ MODULE Registry ------------------------------
(***************************************************************************)
(* Who is registered: users, companies, the memberships that hiring makes  *)
(* and the assignments of members to job standards.  Translated from the   *)
(* signup and profile of the auth service, the worker and company services *)
(* and the job worker service.                                             *)
(*                                                                         *)
(* A request reads what is committed, refuses or edits its copy, answers,  *)
(* and its INSERT or UPDATE takes effect at its commit; others commit in   *)
(* between.  The UNIQUE constraints hold at the INSERT.                    *)
(***************************************************************************)
EXTENDS Naturals, OrmRow

CONSTANTS
    Users, Companies, Members, Assignments,  \* row ids
    Usernames, Emails, Names, Standards,
    FirstWorker, FirstCompany,  \* rows that exist at the start
    Slots,        \* requests in flight
    MaxRequests,  \* bound on the requests ever started
    None

ASSUME FirstAssumption == FirstWorker \in Users /\ FirstCompany \in Companies
ASSUME RequestAssumption == MaxRequests \in Nat

VARIABLES
    db,     \* the committed rows, by id
    req,    \* the requests in flight
    now     \* how many requests were started: the time of a retirement

vars == <<db, req, now>>

Tables == {Users, Companies, Members, Assignments}
Ids == UNION Tables
\* An id is of one table.
ASSUME TableAssumption ==
    /\ Users \cap (Companies \cup Members \cup Assignments) = {}
    /\ Companies \cap (Members \cup Assignments) = {}
    /\ Members \cap Assignments = {}
    /\ None \notin Ids
TableOf(i) == CHOOSE T \in Tables : i \in T

\* A user; a worker's also holds when the worker retired (challenged_workers).
User == [username : Usernames, email : Emails, worker : BOOLEAN,
         retired : (1 .. MaxRequests) \cup {None}]
Company == [name : Names, use_flag : BOOLEAN]
CompanyWorker == [company : Companies, worker : Users, is_hired : BOOLEAN]
JobWorker == [member : Members, standard : Standards, use_flag : BOOLEAN]

NoRow == [none |-> None]
Exists(i) == db[i] # NoRow

\* checked: the request refused a name that is taken.  others (history): the
\* rows written by other requests since it read.
Idle == [op |-> "none", id |-> None, loaded |-> NoRow, edited |-> NoRow,
         checked |-> FALSE, others |-> {}]

Init ==
    /\ \E name \in Usernames, email \in Emails, n \in Names :
         db = [i \in Ids |->
           CASE i = FirstWorker ->
                  [username |-> name, email |-> email, worker |-> TRUE, retired |-> None]
             [] i = FirstCompany -> [name |-> n, use_flag |-> TRUE]
             [] OTHER -> NoRow]
    /\ req = [s \in Slots |-> Idle]
    /\ now = 0

-----------------------------------------------------------------------------
Start(s, op, i, edited, checked) ==
    /\ req[s] = Idle /\ now < MaxRequests
    /\ req' = [req EXCEPT ![s] =
         [op |-> op, id |-> i, loaded |-> db[i], edited |-> edited, checked |-> checked,
          others |-> {}]]
    /\ now' = now + 1
    /\ UNCHANGED db

\* A new row takes an id that nothing had or holds.
Fresh(i) == ~Exists(i) /\ \A s \in Slots : req[s].id # i

UsernameTaken(name) == \E i \in Users : Exists(i) /\ db[i].username = name
EmailTaken(email, self) == \E i \in Users \ {self} : Exists(i) /\ db[i].email = email

\* Mutant: the e-mail is not checked.
Signup_NoEmailCheck(s, i, name, email) ==
    /\ Fresh(i) /\ ~UsernameTaken(name)
    /\ Start(s, "insert", i,
             [username |-> name, email |-> email, worker |-> FALSE, retired |-> None], TRUE)

\* signup_as_caregiver
Signup(s, i, name, email) ==
    /\ Fresh(i) /\ ~UsernameTaken(name) /\ ~EmailTaken(email, None)
    /\ Start(s, "insert", i,
             [username |-> name, email |-> email, worker |-> FALSE, retired |-> None], TRUE)

\* WorkerService.create checks the username and not the e-mail.
CreateWorker(s, i, name, email) ==
    /\ Fresh(i) /\ ~UsernameTaken(name)
    /\ Start(s, "insert", i,
             [username |-> name, email |-> email, worker |-> TRUE, retired |-> None], FALSE)

\* update_profile
UpdateProfile(s, i, email) ==
    /\ Exists(i) /\ (email = db[i].email \/ ~EmailTaken(email, i))
    /\ Start(s, "update", i, [db[i] EXCEPT !.email = email], TRUE)

IsWorker(i) == Exists(i) /\ db[i].worker

\* Mutant: a second retirement moves the date.
Retire_Again(s, i) ==
    /\ IsWorker(i)
    /\ Start(s, "update", i, [db[i] EXCEPT !.retired = now + 1], FALSE)

\* retire keeps the date of a worker who has retired.
Retire(s, i) ==
    /\ IsWorker(i)
    /\ Start(s, "update", i, [db[i] EXCEPT !.retired = IF @ = None THEN now + 1 ELSE @], FALSE)

Rehire(s, i) ==
    /\ IsWorker(i)
    /\ Start(s, "update", i, [db[i] EXCEPT !.retired = None], FALSE)

-----------------------------------------------------------------------------
(* Companies.                                                              *)

CreateCompany(s, i, name) ==
    /\ Fresh(i) /\ \A j \in Companies : Exists(j) => db[j].name # name
    /\ Start(s, "insert", i, [name |-> name, use_flag |-> TRUE], TRUE)

\* update takes any name.
RenameCompany(s, i, name) ==
    /\ Exists(i)
    /\ Start(s, "update", i, [db[i] EXCEPT !.name = name], FALSE)

\* Mutant: the flag is cleared to NULL.
DeactivateCompany_Null(s, i) ==
    /\ Exists(i)
    /\ Start(s, "update", i, [db[i] EXCEPT !.use_flag = None], FALSE)

DeactivateCompany(s, i) ==
    /\ Exists(i)
    /\ Start(s, "update", i, [db[i] EXCEPT !.use_flag = FALSE], FALSE)

-----------------------------------------------------------------------------
(* Memberships and assignments.                                            *)

MembershipOf(c, w) == {i \in Members : Exists(i) /\ db[i].company = c /\ db[i].worker = w}

\* Mutant: a membership that was fired is hired again, as assign does.
Hire_Revives(s, i, c, w) ==
    /\ Exists(c) /\ IsWorker(w)
    /\ \/ /\ MembershipOf(c, w) = {} /\ Fresh(i)
          /\ Start(s, "insert", i, [company |-> c, worker |-> w, is_hired |-> TRUE], FALSE)
       \/ /\ i \in MembershipOf(c, w)
          /\ Start(s, "update", i, [db[i] EXCEPT !.is_hired = TRUE], FALSE)

\* hire refuses a pair that has a row, hired or fired.
Hire(s, i, c, w) ==
    /\ Fresh(i) /\ Exists(c) /\ IsWorker(w) /\ MembershipOf(c, w) = {}
    /\ Start(s, "insert", i, [company |-> c, worker |-> w, is_hired |-> TRUE], FALSE)

Fire(s, i) ==
    /\ Exists(i)
    /\ Start(s, "update", i, [db[i] EXCEPT !.is_hired = FALSE], FALSE)

AssignmentOf(m, st) ==
    {i \in Assignments : Exists(i) /\ db[i].member = m /\ db[i].standard = st}

\* assign makes the row, or revives the one that was unassigned.
Assign(s, i, m, st) ==
    /\ Exists(m)
    /\ \/ /\ AssignmentOf(m, st) = {} /\ Fresh(i)
          /\ Start(s, "insert", i, [member |-> m, standard |-> st, use_flag |-> TRUE], FALSE)
       \/ /\ i \in AssignmentOf(m, st) /\ ~db[i].use_flag
          /\ Start(s, "update", i, [db[i] EXCEPT !.use_flag = TRUE], FALSE)

Unassign(s, i) ==
    /\ Exists(i)
    /\ Start(s, "update", i, [db[i] EXCEPT !.use_flag = FALSE], FALSE)

-----------------------------------------------------------------------------
(* The end of a request.                                                   *)

\* The columns of the table's UNIQUE constraint; companies have none.
Key(i, row) ==
    IF i \in Users THEN <<row.username>>
    ELSE IF i \in Members THEN <<row.company, row.worker>>
    ELSE IF i \in Assignments THEN <<row.member, row.standard>>
    ELSE <<i>>

\* Mutant: the tables have no UNIQUE constraint.
Refused_Never(i, row) == FALSE

Refused(i, row) == \E j \in TableOf(i) \ {i} : Exists(j) /\ Key(j, db[j]) = Key(i, row)

CommitInsert(s) ==
    LET q == req[s] IN
    /\ q.op = "insert" /\ ~Refused(q.id, q.edited)
    /\ db' = [db EXCEPT ![q.id] = q.edited]
    /\ req' = [t \in Slots |-> IF t = s \/ req[t] = Idle THEN Idle
                               ELSE [req[t] EXCEPT !.others = @ \cup {q.id}]]
    /\ UNCHANGED now

CommitUpdate(s) ==
    LET q == req[s] IN
    /\ q.op = "update"
    /\ db' = [db EXCEPT ![q.id] = Written(@, q.loaded, q.edited)]
    /\ req' = [t \in Slots |-> IF t = s \/ req[t] = Idle THEN Idle
                               ELSE [req[t] EXCEPT !.others = @ \cup {q.id}]]
    /\ UNCHANGED now

\* The commit fails, or the INSERT is refused.
Abort(s) ==
    /\ req[s] # Idle
    /\ req' = [req EXCEPT ![s] = Idle]
    /\ UNCHANGED <<db, now>>

-----------------------------------------------------------------------------
(* The routes.                                                             *)

AuthRoutes(s) ==
    \/ \E i \in Users, name \in Usernames, email \in Emails : Signup(s, i, name, email)
    \/ \E i \in Users, email \in Emails : UpdateProfile(s, i, email)

WorkerRoutes(s) ==
    \/ \E i \in Users, name \in Usernames, email \in Emails : CreateWorker(s, i, name, email)
    \/ \E i \in Users : Retire(s, i) \/ Rehire(s, i)
    \/ \E i \in Members, c \in Companies, w \in Users : Hire(s, i, c, w)
    \/ \E i \in Members : Fire(s, i)

CompanyRoutes(s) ==
    \/ \E i \in Companies, name \in Names : CreateCompany(s, i, name) \/ RenameCompany(s, i, name)
    \/ \E i \in Companies : DeactivateCompany(s, i)

JobWorkerRoutes(s) ==
    \/ \E i \in Assignments, m \in Members, st \in Standards : Assign(s, i, m, st)
    \/ \E i \in Assignments : Unassign(s, i)

\* The listings of memberships and of assignments change nothing.
List == UNCHANGED vars

Next ==
    \/ \E s \in Slots :
          \/ AuthRoutes(s)
          \/ WorkerRoutes(s)
          \/ CompanyRoutes(s)
          \/ JobWorkerRoutes(s)
          \/ CommitInsert(s)
          \/ CommitUpdate(s)
          \/ Abort(s)
    \/ List

Spec == Init /\ [][Next]_vars

-----------------------------------------------------------------------------
(* Properties.                                                             *)

RowOf(i) ==
    IF i \in Users THEN User ELSE IF i \in Companies THEN Company
    ELSE IF i \in Members THEN CompanyWorker ELSE JobWorker

\* Every row has the columns of its table.
TypeOK ==
    /\ \A i \in Ids : db[i] \in RowOf(i) \cup {NoRow}
    /\ now \in 0 .. MaxRequests
    /\ \A s \in Slots : LET q == req[s] IN
         q # Idle => /\ q.op \in {"insert", "update"} /\ q.checked \in BOOLEAN
                     /\ {q.loaded, q.edited} \subseteq RowOf(q.id) \cup {NoRow}
                     /\ q.others \subseteq Ids

\* However requests overlap, no two users share a username, no worker is in a
\* company twice, and no member has a job standard twice.
UniqueKeysHold ==
    \A i \in Ids : Exists(i) => ~\E j \in TableOf(i) \ {i} : Exists(j) /\ Key(j, db[j]) = Key(i, db[i])

\* What services check to be unique and no constraint holds.
Label(i, row) == IF i \in Users THEN row.email ELSE row.name

\* A request that checks gives a user an e-mail that another has, or a company
\* a name that another has, only when that other row was written between its
\* check and its commit.
DuplicatesOnlyByRace ==
    [][\A s \in Slots : LET q == req[s] IN
         /\ q.checked /\ req'[s] = Idle /\ db'[q.id] # db[q.id]
         /\ q.loaded = NoRow \/ Label(q.id, q.loaded) # Label(q.id, q.edited)
         => \A j \in TableOf(q.id) \ (q.others \cup {q.id}) :
              db'[j] # NoRow => Label(j, db'[j]) # Label(q.id, db'[q.id])]_vars

\* The date of a retirement is set once: another retirement changes it only
\* when it was taken from a copy of the user that another write has overtaken.
RetiredOnceUnlessRaced ==
    [][\A i \in Users :
         Exists(i) /\ db[i].retired # None /\ db'[i].retired # db[i].retired =>
           \/ db'[i].retired = None
           \/ \E s \in Slots : req[s].id = i /\ req'[s] = Idle /\ i \in req[s].others]_vars

\* A worker who was fired by a company is never again hired by it, by the same
\* membership or another.
FiredStaysOut ==
    [][\A i \in Members : Exists(i) /\ ~db[i].is_hired =>
         ~\E j \in Members : db'[j] # NoRow /\ db'[j].is_hired
                             /\ db'[j].company = db[i].company /\ db'[j].worker = db[i].worker]_vars

=============================================================================
