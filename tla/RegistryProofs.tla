---------------------------- MODULE RegistryProofs ----------------------------
(***************************************************************************)
(* Proofs about Registry, for every set of users, companies, memberships   *)
(* and assignments and every number of requests in flight.                 *)
(***************************************************************************)
EXTENDS Registry, TLAPS

-----------------------------------------------------------------------------
(* Tables and rows.                                                        *)

\* An id is of the table that holds it.
LEMMA TableCases ==
    /\ \A i \in Users : TableOf(i) = Users /\ RowOf(i) = User
    /\ \A i \in Companies : TableOf(i) = Companies /\ RowOf(i) = Company
    /\ \A i \in Members : TableOf(i) = Members /\ RowOf(i) = CompanyWorker
    /\ \A i \in Assignments : TableOf(i) = Assignments /\ RowOf(i) = JobWorker
    /\ Ids = Users \cup Companies \cup Members \cup Assignments
<1> USE TableAssumption DEF Tables
<1>1. ASSUME NEW T \in Tables, NEW i \in T PROVE TableOf(i) = T
  <2>1. \A S \in Tables : i \in S => S = T
    OBVIOUS
  <2> QED BY <2>1 DEF TableOf
<1>2. Ids = Users \cup Companies \cup Members \cup Assignments
  BY DEF Ids
<1> QED BY <1>1, <1>2 DEF RowOf

\* A missing row is none of any table.
LEMMA NoRowIsNoRow == \A i \in Ids : NoRow \notin RowOf(i)
<1>1. DOMAIN NoRow = {"none"}
  BY DEF NoRow
<1>2. NoRow \notin User
  BY <1>1 DEF User
<1>3. NoRow \notin Company
  BY <1>1 DEF Company
<1>4. NoRow \notin CompanyWorker
  BY <1>1 DEF CompanyWorker
<1>5. NoRow \notin JobWorker
  BY <1>1 DEF JobWorker
<1> QED BY <1>2, <1>3, <1>4, <1>5 DEF RowOf

\* Two ids of one table.
LEMMA SameTable ==
    \A i \in Ids : /\ i \in TableOf(i) /\ TableOf(i) \subseteq Ids
                   /\ \A j \in TableOf(i) : TableOf(j) = TableOf(i)
  BY TableCases

\* What an UPDATE makes of a row: its key stays, and a column differs from
\* the one it had only when the request edited it.
LEMMA UpdatedRow ==
    ASSUME NEW i \in Ids, NEW row \in RowOf(i), NEW loaded \in RowOf(i), NEW edited \in RowOf(i),
           Key(i, loaded) = Key(i, edited)
    PROVE  /\ Written(row, loaded, edited) \in RowOf(i)
           /\ Key(i, Written(row, loaded, edited)) = Key(i, row)
           /\ i \in Users =>
                  /\ Written(row, loaded, edited).retired =
                        IF loaded.retired # edited.retired THEN edited.retired ELSE row.retired
           /\ i \in Members =>
                  Written(row, loaded, edited).is_hired =
                        IF loaded.is_hired # edited.is_hired THEN edited.is_hired ELSE row.is_hired
           /\ i \in Users \cup Companies /\ Label(i, loaded) # Label(i, edited)
                  => Label(i, Written(row, loaded, edited)) = Label(i, edited)
<1> DEFINE w == Written(row, loaded, edited)
<1>0. /\ DOMAIN w = DOMAIN row
      /\ \A c \in DOMAIN row : w[c] = IF c \in DOMAIN loaded /\ loaded[c] # edited[c]
                                      THEN edited[c] ELSE row[c]
      /\ w = [c \in DOMAIN row |-> w[c]]
  BY DEF Written, DirtyColumns
<1> HIDE DEF w
<1>1. CASE i \in Users
  <2>1. RowOf(i) = User /\ i \notin Companies /\ i \notin Members
    BY <1>1, TableCases, TableAssumption
  <2>2. DOMAIN row = {"username", "email", "worker", "retired"} /\ DOMAIN loaded = DOMAIN row
    BY <2>1 DEF User
  <2>3. /\ loaded.username = edited.username
    BY <1>1 DEF Key
  <2>4. /\ w.username = row.username
        /\ w.email = IF loaded.email # edited.email THEN edited.email ELSE row.email
        /\ w.worker \in {edited.worker, row.worker}
        /\ w.retired = IF loaded.retired # edited.retired THEN edited.retired ELSE row.retired
    BY <1>0, <2>2, <2>3
  <2>5. w \in User
    BY <1>0, <2>1, <2>2, <2>4 DEF User
  <2> QED BY <1>1, <2>1, <2>4, <2>5 DEF w, Key, Label
<1>2. CASE i \in Companies
  <2>1. RowOf(i) = Company /\ i \notin Users /\ i \notin Members /\ i \notin Assignments
    BY <1>2, TableCases, TableAssumption
  <2>2. DOMAIN row = {"name", "use_flag"} /\ DOMAIN loaded = DOMAIN row
    BY <2>1 DEF Company
  <2>3. /\ w.name = IF loaded.name # edited.name THEN edited.name ELSE row.name
        /\ w.use_flag \in {edited.use_flag, row.use_flag}
    BY <1>0, <2>2
  <2>4. w \in Company
    BY <1>0, <2>1, <2>2, <2>3 DEF Company
  <2> QED BY <1>2, <2>1, <2>3, <2>4 DEF w, Key, Label
<1>3. CASE i \in Members
  <2>1. RowOf(i) = CompanyWorker /\ i \notin Users /\ i \notin Companies
    BY <1>3, TableCases, TableAssumption
  <2>2. DOMAIN row = {"company", "worker", "is_hired"} /\ DOMAIN loaded = DOMAIN row
    BY <2>1 DEF CompanyWorker
  <2>3. loaded.company = edited.company /\ loaded.worker = edited.worker
    BY <1>3, <2>1 DEF Key
  <2>4. /\ w.company = row.company /\ w.worker = row.worker
        /\ w.is_hired = IF loaded.is_hired # edited.is_hired THEN edited.is_hired
                        ELSE row.is_hired
    BY <1>0, <2>2, <2>3
  <2>5. w \in CompanyWorker
    BY <1>0, <2>1, <2>2, <2>4 DEF CompanyWorker
  <2> QED BY <1>3, <2>1, <2>4, <2>5 DEF w, Key
<1>4. CASE i \in Assignments
  <2>1. RowOf(i) = JobWorker /\ i \notin Users /\ i \notin Companies /\ i \notin Members
    BY <1>4, TableCases, TableAssumption
  <2>2. DOMAIN row = {"member", "standard", "use_flag"} /\ DOMAIN loaded = DOMAIN row
    BY <2>1 DEF JobWorker
  <2>3. loaded.member = edited.member /\ loaded.standard = edited.standard
    BY <1>4, <2>1 DEF Key
  <2>4. /\ w.member = row.member /\ w.standard = row.standard
        /\ w.use_flag \in {edited.use_flag, row.use_flag}
    BY <1>0, <2>2, <2>3
  <2>5. w \in JobWorker
    BY <1>0, <2>1, <2>2, <2>4 DEF JobWorker
  <2> QED BY <1>4, <2>1, <2>4, <2>5 DEF w, Key
<1> QED BY <1>1, <1>2, <1>3, <1>4, TableCases

-----------------------------------------------------------------------------
(***************************************************************************)
(* The invariant: what a request in flight holds, and how much of it is    *)
(* still so.  UNIQUE constraints, the checks of names and e-mails and the  *)
(* date of a retirement all follow from it.                                *)
(***************************************************************************)

Row == User \cup Company \cup CompanyWorker \cup JobWorker \cup {NoRow}

Request == [op : {"insert", "update"}, id : Ids, loaded : Row, edited : Row,
            checked : BOOLEAN, others : SUBSET Ids]

\* An UPDATE never edits a key, never hires, and keeps or clears a date of
\* retirement.
Shaped(q) ==
    /\ q.edited \in RowOf(q.id)
    /\ q.op = "insert" => q.loaded = NoRow
    /\ q.op = "update" =>
           /\ q.loaded \in RowOf(q.id)
           /\ Key(q.id, q.loaded) = Key(q.id, q.edited)
           /\ q.id \in Users /\ q.loaded.retired # None
                  => q.edited.retired \in {None, q.loaded.retired}
           /\ q.id \in Members => ~q.edited.is_hired
    /\ q.checked => q.id \in Users \cup Companies

Typed ==
    /\ db = [i \in Ids |-> db[i]] /\ \A i \in Ids : db[i] \in RowOf(i) \cup {NoRow}
    /\ req = [s \in Slots |-> req[s]]
    /\ \A s \in Slots : req[s] # Idle => req[s] \in Request /\ Shaped(req[s])
    /\ now \in 0 .. MaxRequests

\* A row that an INSERT is about to make is no other request's.
OwnRow ==
    \A s, t \in Slots :
        s # t /\ req[s].op = "insert" /\ req[t] # Idle => req[t].id # req[s].id

\* A row is as it was loaded until others wrote it, and no row goes away.
Seen(q) ==
    /\ q.op = "update" <=> Exists(q.id)
    /\ q.id \notin q.others => db[q.id] = q.loaded

\* A checked name or e-mail is taken only by rows that others wrote since.
StillFree(q) ==
    q.checked /\ (q.loaded = NoRow \/ Label(q.id, q.loaded) # Label(q.id, q.edited))
        => \A j \in TableOf(q.id) \ (q.others \cup {q.id}) :
               Exists(j) => Label(j, db[j]) # Label(q.id, q.edited)

LoadedCurrent == \A s \in Slots : req[s] # Idle => Seen(req[s]) /\ StillFree(req[s])

RegistryInv == Typed /\ OwnRow /\ LoadedCurrent /\ UniqueKeysHold

\* What an arrival does.
Entered(s, q) ==
    /\ req[s] = Idle /\ now < MaxRequests
    /\ q \in Request /\ Shaped(q) /\ Seen(q) /\ StillFree(q)
    /\ q.op = "insert" => \A t \in Slots : req[t].id # q.id
    /\ req' = [req EXCEPT ![s] = q] /\ now' = now + 1 /\ db' = db

Arrive(s) == AuthRoutes(s) \/ WorkerRoutes(s) \/ CompanyRoutes(s) \/ JobWorkerRoutes(s)

-----------------------------------------------------------------------------
(* Arrivals.                                                               *)

\* The rows of every table, and none, are rows.
LEMMA RowsAreRows == NoRow \in Row /\ \A i \in Ids : RowOf(i) \subseteq Row
  BY DEF Row, RowOf

\* An idle slot holds no request, and has checked nothing.
LEMMA IdleIsNone == Idle.op = "none" /\ Idle \notin Request /\ Idle.checked = FALSE
  BY DEF Idle, Request

\* An INSERT of a fresh row.
LEMMA InsertEnters ==
    ASSUME Typed, NEW s \in Slots, NEW i \in Ids, NEW edited \in RowOf(i), NEW checked \in BOOLEAN,
           Start(s, "insert", i, edited, checked), Fresh(i),
           checked => i \in Users \cup Companies,
           checked => \A j \in TableOf(i) \ {i} : Exists(j) => Label(j, db[j]) # Label(i, edited)
    PROVE  \E q : Entered(s, q)
<1> DEFINE q == [op |-> "insert", id |-> i, loaded |-> db[i], edited |-> edited,
                 checked |-> checked, others |-> {}]
<1>1. db[i] = NoRow /\ ~Exists(i)
  BY DEF Fresh, Exists
<1>2. q \in Request
  BY <1>1, RowsAreRows DEF Request
<1>3. /\ q.op = "insert" /\ q.id = i /\ q.loaded = db[i] /\ q.edited = edited
      /\ q.checked = checked /\ q.others = {}
  OBVIOUS
<1>4. req[s] = Idle /\ now < MaxRequests /\ req' = [req EXCEPT ![s] = q]
      /\ now' = now + 1 /\ db' = db
  BY DEF Start
<1> HIDE DEF q
<1>5. Shaped(q)
  BY <1>1, <1>3 DEF Shaped
<1>6. Seen(q) /\ StillFree(q)
  BY <1>1, <1>3 DEF Seen, StillFree
<1>7. \A t \in Slots : req[t].id # q.id
  BY <1>3 DEF Fresh
<1>8. Entered(s, q)
  BY <1>2, <1>4, <1>5, <1>6, <1>7 DEF Entered
<1> QED BY <1>8

\* An UPDATE of a row that exists.
LEMMA UpdateEnters ==
    ASSUME Typed, NEW s \in Slots, NEW i \in Ids, NEW edited \in RowOf(i), NEW checked \in BOOLEAN,
           Start(s, "update", i, edited, checked), Exists(i),
           Key(i, db[i]) = Key(i, edited),
           i \in Users /\ db[i].retired # None => edited.retired \in {None, db[i].retired},
           i \in Members => ~edited.is_hired,
           checked => i \in Users \cup Companies,
           checked /\ Label(i, db[i]) # Label(i, edited) =>
               \A j \in TableOf(i) \ {i} : Exists(j) => Label(j, db[j]) # Label(i, edited)
    PROVE  \E q : Entered(s, q)
<1> DEFINE q == [op |-> "update", id |-> i, loaded |-> db[i], edited |-> edited,
                 checked |-> checked, others |-> {}]
<1>1. db[i] \in RowOf(i) /\ db[i] # NoRow
  BY DEF Typed, Exists
<1>2. q \in Request
  BY <1>1, RowsAreRows DEF Request
<1>3. /\ q.op = "update" /\ q.id = i /\ q.loaded = db[i] /\ q.edited = edited
      /\ q.checked = checked /\ q.others = {}
  OBVIOUS
<1>4. req[s] = Idle /\ now < MaxRequests /\ req' = [req EXCEPT ![s] = q]
      /\ now' = now + 1 /\ db' = db
  BY DEF Start
<1> HIDE DEF q
<1>5. Shaped(q)
  BY <1>1, <1>3 DEF Shaped
<1>6. Seen(q) /\ StillFree(q)
  BY <1>1, <1>3 DEF Seen, StillFree
<1>8. Entered(s, q)
  BY <1>2, <1>3, <1>4, <1>5, <1>6 DEF Entered
<1> QED BY <1>8

\* Signup, the profile and the creation of a worker.
LEMMA AccountsEnter ==
    ASSUME Typed, NEW s \in Slots, NEW i \in Users, NEW email \in Emails,
           \/ UpdateProfile(s, i, email)
           \/ \E name \in Usernames : Signup(s, i, name, email) \/ CreateWorker(s, i, name, email)
    PROVE  \E q : Entered(s, q)
<1>1. /\ i \in Ids /\ RowOf(i) = User /\ TableOf(i) = Users /\ None \notin Users
      /\ \A j \in Users : Key(j, db[j]) = <<db[j].username>> /\ Label(j, db[j]) = db[j].email
      /\ i \notin Members /\ i \notin Companies
  BY TableCases, TableAssumption DEF Key, Label
<1>2. ASSUME NEW name \in Usernames, Signup(s, i, name, email) PROVE \E q : Entered(s, q)
  <2> DEFINE row == [username |-> name, email |-> email, worker |-> FALSE, retired |-> None]
  <2>1. row \in User /\ Label(i, row) = email
    BY DEF User, Label
  <2>2. \A j \in Users \ {i} : Exists(j) => db[j].email # email
    BY <1>1, <1>2 DEF Signup, EmailTaken
  <2>3. Start(s, "insert", i, row, TRUE) /\ Fresh(i)
    BY <1>2 DEF Signup
  <2> HIDE DEF row
  <2> QED BY <1>1, <2>1, <2>2, <2>3, InsertEnters
<1>3. ASSUME NEW name \in Usernames, CreateWorker(s, i, name, email) PROVE \E q : Entered(s, q)
  <2> DEFINE row == [username |-> name, email |-> email, worker |-> TRUE, retired |-> None]
  <2>1. row \in User
    BY DEF User
  <2>2. Start(s, "insert", i, row, FALSE) /\ Fresh(i)
    BY <1>3 DEF CreateWorker
  <2> HIDE DEF row
  <2> QED BY <1>1, <2>1, <2>2, InsertEnters
<1>4. CASE UpdateProfile(s, i, email)
  <2> DEFINE row == [db[i] EXCEPT !.email = email]
  <2>1. db[i] \in User /\ Exists(i)
    BY <1>1, <1>4 DEF UpdateProfile, Typed, Exists
  <2>2. /\ row \in User /\ row.email = email /\ row.username = db[i].username
        /\ row.retired = db[i].retired
    BY <2>1 DEF User
  <2>3. Start(s, "update", i, row, TRUE)
        /\ (email = db[i].email \/ \A j \in Users \ {i} : Exists(j) => db[j].email # email)
    BY <1>4 DEF UpdateProfile, EmailTaken
  <2> HIDE DEF row
  <2>4. Key(i, db[i]) = Key(i, row) /\ Label(i, row) = email
    BY <2>2 DEF Key, Label
  <2> QED BY <1>1, <2>1, <2>2, <2>3, <2>4, UpdateEnters
<1> QED BY <1>2, <1>3, <1>4

\* Retirement and rehire.
LEMMA RetirementsEnter ==
    ASSUME Typed, NEW s \in Slots, NEW i \in Users, Retire(s, i) \/ Rehire(s, i)
    PROVE  \E q : Entered(s, q)
<1> DEFINE date == IF Rehire(s, i) THEN None ELSE IF db[i].retired = None THEN now + 1
                   ELSE db[i].retired
           row == [db[i] EXCEPT !.retired = date]
<1>1. i \in Ids /\ RowOf(i) = User /\ i \notin Members
  BY TableCases, TableAssumption
<1>2. db[i] \in User /\ Exists(i) /\ now < MaxRequests /\ now \in Nat /\ MaxRequests \in Nat
  BY <1>1, RequestAssumption DEF Retire, Rehire, IsWorker, Typed, Exists, Start
<1>3. Start(s, "update", i, row, FALSE)
  <2>1. CASE Rehire(s, i)
    BY <2>1 DEF Rehire
  <2>2. CASE ~Rehire(s, i)
    <3>1. row = [db[i] EXCEPT !.retired = IF @ = None THEN now + 1 ELSE @]
      BY <1>2, <2>2 DEF User
    <3> QED BY <2>2, <3>1 DEF Retire
  <2> QED BY <2>1, <2>2
<1>4. /\ date \in (1 .. MaxRequests) \cup {None}
      /\ db[i].retired # None => date \in {None, db[i].retired}
  BY <1>2 DEF User
<1> HIDE DEF date
<1>5. row \in User /\ row.username = db[i].username /\ row.retired = date
  BY <1>2, <1>4 DEF User
<1> HIDE DEF row
<1>6. Key(i, db[i]) = Key(i, row)
  BY <1>5 DEF Key
<1> QED BY <1>1, <1>2, <1>3, <1>4, <1>5, <1>6, UpdateEnters

\* Companies.
LEMMA CompaniesEnter ==
    ASSUME Typed, NEW s \in Slots, NEW i \in Companies,
           \/ \E name \in Names : CreateCompany(s, i, name) \/ RenameCompany(s, i, name)
           \/ DeactivateCompany(s, i)
    PROVE  \E q : Entered(s, q)
<1>1. /\ i \in Ids /\ RowOf(i) = Company /\ TableOf(i) = Companies
      /\ i \notin Members /\ i \notin Assignments
      /\ \A j \in Companies : j \notin Users
  BY TableCases, TableAssumption
<1>2. ASSUME NEW name \in Names, CreateCompany(s, i, name) PROVE \E q : Entered(s, q)
  <2> DEFINE row == [name |-> name, use_flag |-> TRUE]
  <2>1. row \in Company /\ row.name = name
    BY DEF Company
  <2>2. /\ Start(s, "insert", i, row, TRUE) /\ Fresh(i)
        /\ \A j \in Companies : Exists(j) => db[j].name # name
    BY <1>2 DEF CreateCompany
  <2> HIDE DEF row
  <2>3. \A j \in Companies : Exists(j) => Label(j, db[j]) # Label(i, row)
    BY <1>1, <2>1, <2>2 DEF Label
  <2> QED BY <1>1, <2>1, <2>2, <2>3, InsertEnters
<1>3. ASSUME NEW row, Start(s, "update", i, row, FALSE), Exists(i),
             db[i] \in Company => row \in Company
      PROVE  \E q : Entered(s, q)
  <2>1. db[i] \in Company
    BY <1>1, <1>3 DEF Typed, Exists
  <2>2. Key(i, db[i]) = Key(i, row)
    BY <1>1 DEF Key
  <2> QED BY <1>1, <1>3, <2>1, <2>2, UpdateEnters
<1>4. ASSUME NEW name \in Names, RenameCompany(s, i, name) PROVE \E q : Entered(s, q)
  BY <1>3, <1>4 DEF RenameCompany, Company
<1>5. CASE DeactivateCompany(s, i)
  BY <1>3, <1>5 DEF DeactivateCompany, Company
<1> QED BY <1>2, <1>4, <1>5

\* Hiring and firing.
LEMMA MembersEnter ==
    ASSUME Typed, NEW s \in Slots, NEW i \in Members,
           (\E c \in Companies, w \in Users : Hire(s, i, c, w)) \/ Fire(s, i)
    PROVE  \E q : Entered(s, q)
<1>1. /\ i \in Ids /\ RowOf(i) = CompanyWorker /\ i \notin Users
  BY TableCases, TableAssumption
<1>2. ASSUME NEW c \in Companies, NEW w \in Users, Hire(s, i, c, w) PROVE \E q : Entered(s, q)
  <2> DEFINE row == [company |-> c, worker |-> w, is_hired |-> TRUE]
  <2>1. row \in CompanyWorker /\ Start(s, "insert", i, row, FALSE) /\ Fresh(i)
    BY <1>2 DEF CompanyWorker, Hire
  <2> HIDE DEF row
  <2> QED BY <1>1, <2>1, InsertEnters
<1>3. CASE Fire(s, i)
  <2> DEFINE row == [db[i] EXCEPT !.is_hired = FALSE]
  <2>1. db[i] \in CompanyWorker /\ Exists(i) /\ Start(s, "update", i, row, FALSE)
    BY <1>1, <1>3 DEF Fire, Typed, Exists
  <2>2. /\ row \in CompanyWorker /\ ~row.is_hired
        /\ row.company = db[i].company /\ row.worker = db[i].worker
    BY <2>1 DEF CompanyWorker
  <2> HIDE DEF row
  <2>3. Key(i, db[i]) = Key(i, row)
    BY <1>1, <2>2 DEF Key
  <2> QED BY <1>1, <2>1, <2>2, <2>3, UpdateEnters
<1> QED BY <1>2, <1>3

\* Assignments.
LEMMA AssignmentsEnter ==
    ASSUME Typed, NEW s \in Slots, NEW i \in Assignments,
           (\E m \in Members, st \in Standards : Assign(s, i, m, st)) \/ Unassign(s, i)
    PROVE  \E q : Entered(s, q)
<1>1. /\ i \in Ids /\ RowOf(i) = JobWorker /\ i \notin Users /\ i \notin Members
  BY TableCases, TableAssumption
<1>2. ASSUME NEW b \in BOOLEAN, Exists(i), Start(s, "update", i, [db[i] EXCEPT !.use_flag = b], FALSE)
      PROVE  \E q : Entered(s, q)
  <2> DEFINE row == [db[i] EXCEPT !.use_flag = b]
  <2>1. db[i] \in JobWorker /\ Start(s, "update", i, row, FALSE)
    BY <1>1, <1>2 DEF Typed, Exists
  <2>2. /\ row \in JobWorker
        /\ row.member = db[i].member /\ row.standard = db[i].standard
    BY <2>1 DEF JobWorker
  <2> HIDE DEF row
  <2>3. Key(i, db[i]) = Key(i, row)
    BY <1>1, <2>2 DEF Key
  <2> QED BY <1>1, <1>2, <2>1, <2>2, <2>3, UpdateEnters
<1>3. ASSUME NEW m \in Members, NEW st \in Standards, Fresh(i),
             Start(s, "insert", i, [member |-> m, standard |-> st, use_flag |-> TRUE], FALSE)
      PROVE  \E q : Entered(s, q)
  <2> DEFINE row == [member |-> m, standard |-> st, use_flag |-> TRUE]
  <2>1. row \in JobWorker /\ Start(s, "insert", i, row, FALSE) /\ Fresh(i)
    BY <1>3 DEF JobWorker
  <2> HIDE DEF row
  <2> QED BY <1>1, <2>1, InsertEnters
<1>4. CASE Unassign(s, i)
  BY <1>2, <1>4 DEF Unassign
<1> QED BY <1>2, <1>3, <1>4 DEF Assign, AssignmentOf

\* Every arrival enters a request that is well shaped.
LEMMA ArriveEnters ==
    ASSUME Typed, NEW s \in Slots, Arrive(s)
    PROVE  \E q : Entered(s, q)
<1>1. CASE AuthRoutes(s)
  <2>1. CASE \E i \in Users, name \in Usernames, email \in Emails : Signup(s, i, name, email)
    BY <2>1, AccountsEnter
  <2>2. CASE \E i \in Users, email \in Emails : UpdateProfile(s, i, email)
    BY <2>2, AccountsEnter
  <2> QED BY <1>1, <2>1, <2>2 DEF AuthRoutes
<1>2. CASE WorkerRoutes(s)
  BY <1>2, AccountsEnter, RetirementsEnter, MembersEnter DEF WorkerRoutes
<1>3. CASE CompanyRoutes(s)
  BY <1>3, CompaniesEnter DEF CompanyRoutes
<1>4. CASE JobWorkerRoutes(s)
  BY <1>4, AssignmentsEnter DEF JobWorkerRoutes
<1> QED BY <1>1, <1>2, <1>3, <1>4 DEF Arrive

-----------------------------------------------------------------------------
(* The invariant is inductive.                                             *)

\* An arrival.
LEMMA EnterStep ==
    ASSUME RegistryInv, NEW s \in Slots, Arrive(s)
    PROVE  RegistryInv'
<1>1. PICK q : Entered(s, q)
  BY ArriveEnters DEF RegistryInv
<1>2. /\ db' = db /\ req[s] = Idle /\ now < MaxRequests /\ now' = now + 1
      /\ q \in Request /\ Shaped(q) /\ Seen(q) /\ StillFree(q)
      /\ q.op = "insert" => \A t \in Slots : req[t].id # q.id
  BY <1>1 DEF Entered
<1>3. /\ req' = [t \in Slots |-> req'[t]] /\ req'[s] = q
      /\ \A t \in Slots : t # s => req'[t] = req[t]
  BY <1>1 DEF Entered, RegistryInv, Typed
<1>4. q \in Request => q.op \in {"insert", "update"}
  BY DEF Request
<1>5. Typed'
  BY <1>2, <1>3, RequestAssumption DEF RegistryInv, Typed
<1>6. \A t \in Slots : req[t] # Idle => Seen(req[t]) /\ StillFree(req[t])
  BY DEF RegistryInv, LoadedCurrent
<1>7. OwnRow'
  <2> SUFFICES ASSUME NEW x \in Slots, NEW t \in Slots, x # t, req'[x].op = "insert",
                      req'[t] # Idle
               PROVE  req'[t].id # req'[x].id
    BY DEF OwnRow
  <2>1. CASE x # s /\ t # s
    BY <1>3, <2>1 DEF RegistryInv, OwnRow
  <2>2. CASE x = s
    BY <1>2, <1>3, <2>2
  <2>3. CASE t = s
    <3>1. req[x].op = "insert" /\ req[x] # Idle /\ req'[x] = req[x]
      BY <1>3, <2>3, IdleIsNone
    <3>2. ~Exists(req[x].id)
      BY <1>6, <3>1 DEF Seen
    <3>3. CASE q.op = "insert"
      BY <1>2, <1>3, <2>3, <3>1, <3>3
    <3>4. CASE q.op = "update"
      BY <1>2, <1>3, <2>3, <3>1, <3>2, <3>4 DEF Seen
    <3> QED BY <1>2, <1>4, <3>3, <3>4
  <2> QED BY <2>1, <2>2, <2>3
<1>8. LoadedCurrent'
  <2>1. ASSUME NEW p, Seen(p) /\ StillFree(p) PROVE Seen(p)' /\ StillFree(p)'
    BY <1>2, <2>1 DEF Seen, StillFree, Exists
  <2> SUFFICES ASSUME NEW t \in Slots, req'[t] # Idle
               PROVE  Seen(req[t])' /\ StillFree(req[t])'
    BY DEF LoadedCurrent
  <2>2. PICK p : p = req'[t]
    OBVIOUS
  <2>3. Seen(p) /\ StillFree(p)
    BY <1>2, <1>3, <1>6, <2>2
  <2> QED BY <2>1, <2>2, <2>3 DEF Seen, StillFree, Exists
<1>9. UniqueKeysHold'
  BY <1>2 DEF RegistryInv, UniqueKeysHold, Exists
<1> QED BY <1>5, <1>7, <1>8, <1>9 DEF RegistryInv

\* What a commit does to the row and to the other requests.
LEMMA CommitEffect ==
    ASSUME RegistryInv, NEW s \in Slots, CommitInsert(s) \/ CommitUpdate(s),
           NEW q, q = req[s], NEW k, k = q.id
    PROVE  /\ q \in Request /\ q # Idle /\ Shaped(q) /\ Seen(q) /\ StillFree(q) /\ k \in Ids
           /\ db' = [i \in Ids |-> db'[i]] /\ \A i \in Ids : i # k => db'[i] = db[i]
           /\ db'[k] \in RowOf(k) /\ now' = now
           /\ req' = [t \in Slots |-> req'[t]] /\ req'[s] = Idle
           /\ \A t \in Slots : t # s =>
                  req'[t] = IF req[t] = Idle THEN Idle
                            ELSE [req[t] EXCEPT !.others = @ \cup {k}]
           /\ ~Exists(k) => /\ q.op = "insert" /\ db'[k] = q.edited
                            /\ \A j \in TableOf(k) \ {k} :
                                   Exists(j) => Key(j, db[j]) # Key(k, db'[k])
           /\ Exists(k) => /\ q.op = "update" /\ Key(k, db'[k]) = Key(k, db[k])
                           /\ k \in Users =>
                                  db'[k].retired = IF q.loaded.retired # q.edited.retired
                                                   THEN q.edited.retired ELSE db[k].retired
                           /\ k \in Members /\ db'[k].is_hired => db[k].is_hired
           /\ k \in Users \cup Companies
              /\ (q.loaded = NoRow \/ Label(k, q.loaded) # Label(k, q.edited))
                  => Label(k, db'[k]) = Label(k, q.edited)
<1>1. q.op \in {"insert", "update"} /\ q # Idle
  BY IdleIsNone DEF CommitInsert, CommitUpdate
<1>2. q \in Request /\ Shaped(q) /\ Seen(q) /\ StillFree(q)
  BY <1>1 DEF RegistryInv, Typed, LoadedCurrent
<1>3. k \in Ids /\ NoRow \notin RowOf(k)
  BY <1>2, NoRowIsNoRow DEF Request
<1>4. /\ now' = now
      /\ req' = [t \in Slots |-> IF t = s \/ req[t] = Idle THEN Idle
                                 ELSE [req[t] EXCEPT !.others = @ \cup {k}]]
  BY DEF CommitInsert, CommitUpdate
<1>5. db = [i \in Ids |-> db[i]] /\ db[k] \in RowOf(k) \cup {NoRow}
  BY <1>3 DEF RegistryInv, Typed
<1>6. /\ req' = [t \in Slots |-> req'[t]] /\ req'[s] = Idle
      /\ \A t \in Slots : t # s =>
             req'[t] = IF req[t] = Idle THEN Idle ELSE [req[t] EXCEPT !.others = @ \cup {k}]
  BY <1>4
<1>7. CASE CommitInsert(s)
  <2>1. q.op = "insert" /\ db' = [db EXCEPT ![k] = q.edited] /\ ~Refused(k, q.edited)
    BY <1>7 DEF CommitInsert
  <2>2. ~Exists(k) /\ q.edited \in RowOf(k) /\ q.loaded = NoRow
    BY <1>2, <2>1 DEF Seen, Shaped
  <2>3. db'[k] = q.edited /\ db' = [i \in Ids |-> db'[i]] /\ \A i \in Ids : i # k => db'[i] = db[i]
    BY <1>3, <1>5, <2>1
  <2>4. \A j \in TableOf(k) \ {k} : Exists(j) => Key(j, db[j]) # Key(k, db'[k])
    BY <2>1, <2>3 DEF Refused
  <2> QED BY <1>1, <1>2, <1>3, <1>4, <1>6, <2>1, <2>2, <2>3, <2>4
<1>8. CASE CommitUpdate(s)
  <2>1. q.op = "update" /\ db' = [db EXCEPT ![k] = Written(db[k], q.loaded, q.edited)]
    BY <1>8 DEF CommitUpdate
  <2>2. /\ Exists(k) /\ q.edited \in RowOf(k) /\ q.loaded \in RowOf(k) /\ q.loaded # NoRow
        /\ Key(k, q.loaded) = Key(k, q.edited) /\ (k \in Members => ~q.edited.is_hired)
    BY <1>2, <1>3, <2>1 DEF Seen, Shaped
  <2>3. db[k] \in RowOf(k)
    BY <1>5, <2>2 DEF Exists
  <2>4. /\ db'[k] = Written(db[k], q.loaded, q.edited)
        /\ db' = [i \in Ids |-> db'[i]] /\ \A i \in Ids : i # k => db'[i] = db[i]
    BY <1>3, <1>5, <2>1
  <2>5. /\ db'[k] \in RowOf(k) /\ Key(k, db'[k]) = Key(k, db[k])
        /\ k \in Users => db'[k].retired = IF q.loaded.retired # q.edited.retired
                                           THEN q.edited.retired ELSE db[k].retired
        /\ k \in Members => db'[k].is_hired = IF q.loaded.is_hired # q.edited.is_hired
                                              THEN q.edited.is_hired ELSE db[k].is_hired
        /\ k \in Users \cup Companies /\ Label(k, q.loaded) # Label(k, q.edited)
               => Label(k, db'[k]) = Label(k, q.edited)
    BY <1>3, <2>2, <2>3, <2>4, UpdatedRow
  <2> QED BY <1>1, <1>2, <1>3, <1>4, <1>6, <2>1, <2>2, <2>4, <2>5
<1> QED BY <1>7, <1>8

\* A commit.
LEMMA CommitStep ==
    ASSUME RegistryInv, NEW s \in Slots, CommitInsert(s) \/ CommitUpdate(s)
    PROVE  RegistryInv'
<1>1. PICK q, k : q = req[s] /\ k = q.id
  OBVIOUS
<1>2. /\ q \in Request /\ q # Idle /\ Seen(q) /\ k \in Ids
      /\ db' = [i \in Ids |-> db'[i]] /\ \A i \in Ids : i # k => db'[i] = db[i]
      /\ db'[k] \in RowOf(k) /\ now' = now
      /\ req' = [t \in Slots |-> req'[t]] /\ req'[s] = Idle
      /\ \A t \in Slots : t # s =>
             req'[t] = IF req[t] = Idle THEN Idle ELSE [req[t] EXCEPT !.others = @ \cup {k}]
      /\ ~Exists(k) => /\ q.op = "insert"
                       /\ \A j \in TableOf(k) \ {k} :
                              Exists(j) => Key(j, db[j]) # Key(k, db'[k])
      /\ Exists(k) => q.op = "update" /\ Key(k, db'[k]) = Key(k, db[k])
  BY <1>1, CommitEffect
<1>3. \A i \in Ids : Exists(i) => db'[i] # NoRow
  BY <1>2, NoRowIsNoRow DEF Exists
<1>4. ASSUME NEW t \in Slots, req'[t] # Idle
      PROVE  /\ t # s /\ req[t] # Idle /\ req[t] \in Request /\ Shaped(req[t])
             /\ Seen(req[t]) /\ StillFree(req[t])
             /\ req'[t] \in Request
             /\ req'[t].op = req[t].op /\ req'[t].id = req[t].id
             /\ req'[t].loaded = req[t].loaded /\ req'[t].edited = req[t].edited
             /\ req'[t].checked = req[t].checked /\ req'[t].others = req[t].others \cup {k}
  <2>1. t # s /\ req[t] # Idle /\ req'[t] = [req[t] EXCEPT !.others = @ \cup {k}]
    BY <1>2, <1>4
  <2>2. req[t] \in Request /\ Shaped(req[t]) /\ Seen(req[t]) /\ StillFree(req[t])
    BY <2>1 DEF RegistryInv, Typed, LoadedCurrent
  <2> QED BY <1>2, <2>1, <2>2 DEF Request
<1>5. Typed'
  <2>1. \A t \in Slots : req'[t] # Idle => req'[t] \in Request /\ Shaped(req'[t])
    BY <1>4 DEF Shaped
  <2> QED BY <1>2, <2>1 DEF RegistryInv, Typed
<1>6. OwnRow'
  <2> SUFFICES ASSUME NEW x \in Slots, NEW t \in Slots, x # t, req'[x].op = "insert",
                      req'[t] # Idle
               PROVE  req'[t].id # req'[x].id
    BY DEF OwnRow
  <2>1. req'[x] # Idle
    BY IdleIsNone
  <2> QED BY <1>4, <2>1 DEF RegistryInv, OwnRow
<1>7. LoadedCurrent'
  <2> SUFFICES ASSUME NEW t \in Slots, req'[t] # Idle
               PROVE  Seen(req[t])' /\ StillFree(req[t])'
    BY DEF LoadedCurrent
  <2>1. PICK p : p = req[t]
    OBVIOUS
  <2>2. /\ t # s /\ p # Idle /\ p \in Request /\ Seen(p) /\ StillFree(p)
        /\ req'[t].op = p.op /\ req'[t].id = p.id /\ req'[t].loaded = p.loaded
        /\ req'[t].edited = p.edited /\ req'[t].checked = p.checked
        /\ req'[t].others = p.others \cup {k}
    BY <1>4, <2>1
  <2>3. p.id \in Ids /\ p.op \in {"insert", "update"}
    BY <2>2 DEF Request
  <2>4. ~Exists(p.id) => p.id # k
    <3>1. SUFFICES ASSUME ~Exists(p.id) PROVE p.id # k
      OBVIOUS
    <3>2. p.op = "insert"
      BY <2>2, <2>3, <3>1 DEF Seen
    <3> QED BY <1>1, <1>2, <2>1, <2>2, <3>2 DEF RegistryInv, OwnRow
  <2>5. p.op = "update" <=> Exists(p.id)'
    <3>1. Exists(p.id)' <=> Exists(p.id)
      BY <1>2, <1>3, <2>3, <2>4 DEF Exists
    <3> QED BY <2>2, <3>1 DEF Seen
  <2>6. Seen(req[t])'
    <3>1. p.id \notin p.others \cup {k} => db'[p.id] = p.loaded
      BY <1>2, <2>2, <2>3 DEF Seen
    <3> QED BY <2>2, <2>5, <3>1 DEF Seen
  <2>7. StillFree(req[t])'
    <3>1. \A j \in TableOf(p.id) \ (p.others \cup {k} \cup {p.id}) : j \in Ids /\ db'[j] = db[j]
      BY <1>2, <2>3, SameTable
    <3> QED BY <2>2, <3>1 DEF StillFree, Exists
  <2> QED BY <2>6, <2>7
<1>8. UniqueKeysHold'
  <2> SUFFICES ASSUME NEW i \in Ids, db'[i] # NoRow, NEW j \in TableOf(i) \ {i}, db'[j] # NoRow
               PROVE  Key(j, db'[j]) # Key(i, db'[i])
    BY DEF UniqueKeysHold, Exists
  <2>1. j \in Ids /\ i \in TableOf(j)
    BY SameTable
  <2>2. CASE Exists(k) \/ (i # k /\ j # k)
    <3>1. /\ Exists(i) /\ Key(i, db'[i]) = Key(i, db[i])
          /\ Exists(j) /\ Key(j, db'[j]) = Key(j, db[j])
      BY <1>2, <2>1, <2>2 DEF Exists
    <3> QED BY <3>1 DEF RegistryInv, UniqueKeysHold
  <2>3. CASE ~Exists(k) /\ i = k
    BY <1>2, <2>1, <2>3 DEF Exists
  <2>4. CASE ~Exists(k) /\ j = k
    BY <1>2, <2>1, <2>4 DEF Exists
  <2> QED BY <2>2, <2>3, <2>4
<1> QED BY <1>5, <1>6, <1>7, <1>8 DEF RegistryInv

\* A commit that fails, and the listings.
LEMMA AbortStep ==
    ASSUME RegistryInv, NEW s \in Slots, Abort(s)
    PROVE  RegistryInv'
<1>1. /\ UNCHANGED <<db, now>> /\ req' = [t \in Slots |-> req'[t]] /\ req'[s] = Idle
      /\ \A t \in Slots : t # s => req'[t] = req[t]
  BY DEF Abort, RegistryInv, Typed
<1>2. Typed' /\ UniqueKeysHold'
  BY <1>1 DEF RegistryInv, Typed, UniqueKeysHold, Exists
<1>3. OwnRow'
  BY <1>1, IdleIsNone DEF RegistryInv, OwnRow
<1>4. LoadedCurrent'
  BY <1>1 DEF RegistryInv, LoadedCurrent, Seen, StillFree, Exists
<1> QED BY <1>2, <1>3, <1>4 DEF RegistryInv

\* Every state satisfies the invariant.
LEMMA Invariance == Spec => []RegistryInv
<1>1. Init => RegistryInv
  <2> SUFFICES ASSUME Init PROVE RegistryInv
    OBVIOUS
  <2>1. PICK name \in Usernames, email \in Emails, n \in Names :
          db = [i \in Ids |->
            CASE i = FirstWorker ->
                   [username |-> name, email |-> email, worker |-> TRUE, retired |-> None]
              [] i = FirstCompany -> [name |-> n, use_flag |-> TRUE]
              [] OTHER -> NoRow]
    BY DEF Init
  <2>2. /\ FirstWorker \in Users /\ FirstCompany \in Companies /\ FirstWorker # FirstCompany
        /\ FirstWorker \in Ids /\ FirstCompany \in Ids
        /\ RowOf(FirstWorker) = User /\ RowOf(FirstCompany) = Company
    BY FirstAssumption, TableAssumption, TableCases
  <2>3. /\ db[FirstWorker] =
             [username |-> name, email |-> email, worker |-> TRUE, retired |-> None]
        /\ db[FirstCompany] = [name |-> n, use_flag |-> TRUE]
        /\ \A i \in Ids : i \notin {FirstWorker, FirstCompany} => db[i] = NoRow
    BY <2>1, <2>2
  <2>4. db[FirstWorker] \in User /\ db[FirstCompany] \in Company
    BY <2>3 DEF User, Company
  <2>5. \A i \in Ids : db[i] \in RowOf(i) \cup {NoRow}
    BY <2>2, <2>3, <2>4
  <2>a. db = [i \in Ids |-> db[i]]
    BY ONLY <2>1
  <2>6. req = [s \in Slots |-> req[s]] /\ (\A s \in Slots : req[s] = Idle) /\ now = 0
    BY DEF Init
  <2>7. Typed
    BY <2>5, <2>6, <2>a, RequestAssumption DEF Typed
  <2>8. OwnRow /\ LoadedCurrent
    BY <2>6 DEF OwnRow, LoadedCurrent
  <2>9. UniqueKeysHold
    <3>1. \A i \in Ids : Exists(i) => i \in {FirstWorker, FirstCompany}
      BY <2>3 DEF Exists
    <3>2. FirstCompany \notin TableOf(FirstWorker) /\ FirstWorker \notin TableOf(FirstCompany)
      BY <2>2, TableCases, TableAssumption
    <3> QED BY <3>1, <3>2, SameTable DEF UniqueKeysHold
  <2> QED BY <2>7, <2>8, <2>9 DEF RegistryInv
<1>2. RegistryInv /\ [Next]_vars => RegistryInv'
  <2> SUFFICES ASSUME RegistryInv, [Next]_vars PROVE RegistryInv'
    OBVIOUS
  <2>1. CASE UNCHANGED vars
    BY <2>1 DEF vars, RegistryInv, Typed, OwnRow, LoadedCurrent, Seen, StillFree,
       UniqueKeysHold, Exists
  <2>2. ASSUME NEW s \in Slots,
               Arrive(s) \/ CommitInsert(s) \/ CommitUpdate(s) \/ Abort(s)
        PROVE  RegistryInv'
    BY <2>2, EnterStep, CommitStep, AbortStep
  <2> QED BY <2>1, <2>2 DEF Next, Arrive, List
<1> QED BY <1>1, <1>2, PTL DEF Spec

\* Every step that is not a commit leaves the rows alone.
LEMMA OnlyCommitsWrite ==
    ASSUME RegistryInv, [Next]_vars
    PROVE  db' = db \/ \E s \in Slots : CommitInsert(s) \/ CommitUpdate(s)
<1>1. ASSUME NEW s \in Slots, Arrive(s) PROVE db' = db
  <2>1. PICK q : Entered(s, q)
    BY <1>1, ArriveEnters DEF RegistryInv
  <2> QED BY <2>1 DEF Entered
<1> QED BY <1>1 DEF Next, Arrive, Abort, List, vars

-----------------------------------------------------------------------------
(* The properties.                                                         *)

\* Every row has the columns of its table, in every state the server reaches.
THEOREM TypeCorrect == Spec => []TypeOK
<1>1. RegistryInv => TypeOK
  <2> SUFFICES ASSUME RegistryInv, NEW s \in Slots, req[s] # Idle
               PROVE  /\ req[s].op \in {"insert", "update"} /\ req[s].checked \in BOOLEAN
                      /\ {req[s].loaded, req[s].edited} \subseteq RowOf(req[s].id) \cup {NoRow}
                      /\ req[s].others \subseteq Ids
    BY DEF RegistryInv, Typed, TypeOK
  <2>1. req[s] \in Request /\ Shaped(req[s])
    BY DEF RegistryInv, Typed
  <2> QED BY <2>1 DEF Request, Shaped
<1> QED BY <1>1, Invariance, PTL

\* However many requests overlap, usernames, memberships and assignments are
\* unique: the INSERT is refused, and no UPDATE touches the key.
THEOREM KeysUnique == Spec => []UniqueKeysHold
<1>1. RegistryInv => UniqueKeysHold
  BY DEF RegistryInv
<1> QED BY <1>1, Invariance, PTL

\* A name or e-mail that a service checked is given to two rows only when the
\* other row was written between the check and the commit.
THEOREM DuplicatesNeedRace == Spec => DuplicatesOnlyByRace
<1>1. RegistryInv /\ [Next]_vars =>
        \A s \in Slots : LET q == req[s] IN
          /\ q.checked /\ req'[s] = Idle /\ db'[q.id] # db[q.id]
          /\ q.loaded = NoRow \/ Label(q.id, q.loaded) # Label(q.id, q.edited)
          => \A j \in TableOf(q.id) \ (q.others \cup {q.id}) :
               db'[j] # NoRow => Label(j, db'[j]) # Label(q.id, db'[q.id])
  <2> SUFFICES ASSUME RegistryInv, [Next]_vars, NEW s \in Slots, NEW q, q = req[s],
                      q.checked, req'[s] = Idle, db'[q.id] # db[q.id],
                      q.loaded = NoRow \/ Label(q.id, q.loaded) # Label(q.id, q.edited),
                      NEW j \in TableOf(q.id) \ (q.others \cup {q.id}), db'[j] # NoRow
               PROVE  Label(j, db'[j]) # Label(q.id, db'[q.id])
    OBVIOUS
  <2>1. PICK t \in Slots : CommitInsert(t) \/ CommitUpdate(t)
    BY OnlyCommitsWrite
  <2>2. PICK p, k : p = req[t] /\ k = p.id
    OBVIOUS
  <2>3. /\ p \in Request /\ p # Idle /\ StillFree(p) /\ Shaped(p) /\ k \in Ids
        /\ \A i \in Ids : i # k => db'[i] = db[i]
        /\ \A x \in Slots : x # t =>
               req'[x] = IF req[x] = Idle THEN Idle ELSE [req[x] EXCEPT !.others = @ \cup {k}]
        /\ k \in Users \cup Companies
           /\ (p.loaded = NoRow \/ Label(k, p.loaded) # Label(k, p.edited))
               => Label(k, db'[k]) = Label(k, p.edited)
    BY <2>1, <2>2, CommitEffect
  <2>4. t = s
    <3>1. q # Idle
      BY IdleIsNone
    <3>2. q \in Request
      BY <3>1 DEF RegistryInv, Typed
    <3>3. [q EXCEPT !.others = @ \cup {k}].op # "none"
      BY <3>2 DEF Request
    <3> QED BY <2>3, <3>1, <3>3, IdleIsNone
  <2>5. p = q /\ k = q.id /\ k \in Users \cup Companies
    BY <2>2, <2>3, <2>4 DEF Shaped
  <2>6. j \in Ids /\ db'[j] = db[j]
    BY <2>3, <2>5, SameTable
  <2> QED BY <2>3, <2>5, <2>6 DEF StillFree, Exists
<1> QED BY <1>1, Invariance, PTL DEF Spec, DuplicatesOnlyByRace

\* The date of a retirement is cleared by a rehire, and replaced by another
\* date only by a retirement that overlapped with the first.
THEOREM RetiredOnce == Spec => RetiredOnceUnlessRaced
<1>1. RegistryInv /\ [Next]_vars =>
        \A i \in Users :
          Exists(i) /\ db[i].retired # None /\ db'[i].retired # db[i].retired =>
            \/ db'[i].retired = None
            \/ \E s \in Slots : req[s].id = i /\ req'[s] = Idle /\ i \in req[s].others
  <2> SUFFICES ASSUME RegistryInv, [Next]_vars, NEW i \in Users, Exists(i),
                      db[i].retired # None, db'[i].retired # db[i].retired,
                      db'[i].retired # None
               PROVE  \E s \in Slots : req[s].id = i /\ req'[s] = Idle /\ i \in req[s].others
    OBVIOUS
  <2>1. PICK s \in Slots : CommitInsert(s) \/ CommitUpdate(s)
    BY OnlyCommitsWrite
  <2>2. PICK q, k : q = req[s] /\ k = q.id
    OBVIOUS
  <2>3. /\ Shaped(q) /\ Seen(q) /\ k \in Ids /\ req'[s] = Idle
        /\ \A x \in Ids : x # k => db'[x] = db[x]
        /\ Exists(k) => /\ q.op = "update"
                        /\ k \in Users =>
                               db'[k].retired = IF q.loaded.retired # q.edited.retired
                                                THEN q.edited.retired ELSE db[k].retired
    BY <2>1, <2>2, CommitEffect
  <2>4. k = i
    BY <2>3, TableCases
  <2>5. q.edited.retired # q.loaded.retired /\ q.edited.retired # None
    BY <2>3, <2>4
  <2>6. q.loaded.retired = None
    BY <2>2, <2>3, <2>4, <2>5 DEF Shaped
  <2>7. i \in q.others
    BY <2>2, <2>3, <2>4, <2>6 DEF Seen
  <2> QED BY <2>2, <2>3, <2>4, <2>7
<1> QED BY <1>1, Invariance, PTL DEF Spec, RetiredOnceUnlessRaced

\* Who was fired by a company is never hired by it again: no UPDATE hires, and
\* a second membership of the pair is refused.
THEOREM FiredForGood == Spec => FiredStaysOut
<1>1. RegistryInv /\ RegistryInv' /\ [Next]_vars =>
        \A i \in Members : Exists(i) /\ ~db[i].is_hired =>
          ~\E j \in Members : db'[j] # NoRow /\ db'[j].is_hired
                              /\ db'[j].company = db[i].company /\ db'[j].worker = db[i].worker
  <2> SUFFICES ASSUME RegistryInv, RegistryInv', [Next]_vars,
                      NEW i \in Members, Exists(i), ~db[i].is_hired,
                      NEW j \in Members, db'[j] # NoRow, db'[j].is_hired,
                      db'[j].company = db[i].company, db'[j].worker = db[i].worker
               PROVE  FALSE
    OBVIOUS
  <2>1. /\ i \in Ids /\ j \in Ids /\ TableOf(i) = Members
        /\ \A x \in Members : \A row : Key(x, row) = <<row.company, row.worker>>
    BY TableCases, TableAssumption DEF Key
  <2>2. db'[i] # NoRow /\ Key(i, db'[i]) = Key(i, db[i]) /\ ~db'[i].is_hired
    <3>1. CASE db' = db
      BY <3>1 DEF Exists
    <3>2. CASE db' # db
      <4>1. PICK s \in Slots : CommitInsert(s) \/ CommitUpdate(s)
        BY <3>2, OnlyCommitsWrite
      <4>2. PICK q, k : q = req[s] /\ k = q.id
        OBVIOUS
      <4>3. /\ k \in Ids /\ \A x \in Ids : x # k => db'[x] = db[x]
            /\ db'[k] \in RowOf(k)
            /\ Exists(k) => /\ Key(k, db'[k]) = Key(k, db[k])
                            /\ k \in Members /\ db'[k].is_hired => db[k].is_hired
        BY <4>1, <4>2, CommitEffect
      <4> QED BY <2>1, <4>3, NoRowIsNoRow DEF Exists
    <3> QED BY <3>1, <3>2
  <2>3. Key(j, db'[j]) = Key(i, db'[i])
    BY <2>1, <2>2
  <2>4. j # i
    BY <2>2
  <2> QED BY <2>1, <2>2, <2>3, <2>4 DEF RegistryInv, UniqueKeysHold, Exists
<1> QED BY <1>1, Invariance, PTL DEF Spec, FiredStaysOut

=============================================================================
