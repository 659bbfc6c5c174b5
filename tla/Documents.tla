------------------------------ MODULE Documents ------------------------------
(***************************************************************************)
(* The documents a caregiver keeps about a worker: rows in the database,   *)
(* files in a store, a log of what was done to them, and the relations     *)
(* (caregiver, worker) that own them.  Translated from the document        *)
(* service, the caregiver service and the two storage drivers.             *)
(*                                                                         *)
(* A request checks, touches the store, and leaves its SQL to the commit   *)
(* that follows its answer; store and database share no transaction.  A    *)
(* refused request changes nothing, so a check is the guard of the step.   *)
(***************************************************************************)
EXTENDS Naturals

CONSTANTS
    Actors,     \* users that send requests
    Role,       \* users.role by actor; None: the user is gone
    Workers,    \* challenged workers
    Relations,  \* ids the relation table can draw
    Docs,       \* keys the store can draw; each one also names its row
    MaxBytes,   \* multipart_max_file_bytes
    Uploads,    \* what clients send: [size, mime, name]
    Slots,      \* requests in flight
    None        \* NULL

ASSUME RoleAssumption == Role \in [Actors -> {"ADMIN", "CAREGIVER", None}]
ASSUME UploadAssumption ==
    /\ MaxBytes \in Nat
    /\ Uploads \subseteq [size : Nat, mime : {"allowed", "other"}, name : {"clean", "bad", None}]
ASSUME NullAssumption == None \notin Actors \cup Workers \cup Relations \cup Docs

VARIABLES
    relations,  \* caregiver_worker_relations
    docs,       \* caregiver_documents: the relation of each row
    files,      \* keys that hold a file
    logs,       \* caregiver_document_logs
    drawn,      \* relation ids and keys drawn so far: none is drawn twice
    req,        \* the requests in flight
    past        \* history: how files and rows came apart

vars == <<relations, docs, files, logs, drawn, req, past>>

Pair == [caregiver : Actors, worker : Workers]
ASSUME PairAssumption == None \notin Pair
Log == [doc : Docs, action : {"UPLOAD", "DOWNLOAD", "DELETE"}]

Req == [op : {"none", "upload", "download", "delete", "register", "remove"},
        pc : {"idle", "checked", "stored", "flushed", "answered"},
        actor : Actors \cup {None}, worker : Workers \cup {None},
        rel : Relations \cup {None}, doc : Docs \cup {None}]

\* orphaned: files left behind by an upload that failed or by the removal of
\* their relation; broken: rows whose delete removed the file and did not
\* commit; fetched: documents whose download ended; unlogged: documents with
\* a download whose commit failed.
Past == [orphaned : SUBSET Docs, broken : SUBSET Docs, fetched : SUBSET Docs, unlogged : SUBSET Docs]

Idle == [op |-> "none", pc |-> "idle", actor |-> None, worker |-> None, rel |-> None, doc |-> None]

Init ==
    /\ relations = [r \in Relations |-> None]
    /\ docs = [d \in Docs |-> None]
    /\ files = {} /\ logs = {} /\ drawn = {}
    /\ req = [s \in Slots |-> Idle]
    /\ past = [orphaned |-> {}, broken |-> {}, fetched |-> {}, unlogged |-> {}]

-----------------------------------------------------------------------------
(* Requests.                                                               *)

At(s, op, pc) == req[s].op = op /\ req[s].pc = pc
Start(s, q) == req[s] = Idle /\ req' = [req EXCEPT ![s] = q]
Goto(s, pc) == req' = [req EXCEPT ![s].pc = pc]
End(s) == req' = [req EXCEPT ![s] = Idle]

\* Mutant: an actor's role is enough.
Owns_AnyCaregiver(a, pair) == Role[a] # None

\* _ensure_actor_owns_relation.
Owns(a, pair) == Role[a] = "ADMIN" \/ (Role[a] # None /\ pair.caregiver = a)

\* validate_document_upload: size, MIME type and name, in that order.
ValidUpload(u) ==
    /\ u.size > 0 /\ u.size <= MaxBytes
    /\ u.mime = "allowed"
    /\ u.name # "bad"

\* The INSERT of a row that names relation r holds a share lock on r.
RelationLocked(r) == \E s \in Slots : At(s, "upload", "flushed") /\ req[s].rel = r

-----------------------------------------------------------------------------
(* Upload.                                                                 *)

UploadCheck(s, a, r, u) ==
    /\ ValidUpload(u)
    /\ relations[r] # None /\ Owns(a, relations[r])
    /\ Start(s, [Idle EXCEPT !.op = "upload", !.pc = "checked", !.actor = a, !.rel = r])
    /\ UNCHANGED <<relations, docs, files, logs, drawn, past>>

\* store draws a key and writes the file.
UploadStore(s, d) ==
    /\ At(s, "upload", "checked") /\ d \notin drawn
    /\ drawn' = drawn \cup {d} /\ files' = files \cup {d}
    /\ req' = [req EXCEPT ![s].pc = "stored", ![s].doc = d]
    /\ UNCHANGED <<relations, docs, logs, past>>

\* store fails, and on a local disk leaves the part it wrote.
UploadStoreFails(s, d) ==
    /\ At(s, "upload", "checked") /\ d \notin drawn
    /\ drawn' = drawn \cup {d}
    /\ \/ UNCHANGED <<files, past>>
       \/ files' = files \cup {d} /\ past' = [past EXCEPT !.orphaned = @ \cup {d}]
    /\ End(s)
    /\ UNCHANGED <<relations, docs, logs>>

\* The INSERT of the row.  Its foreign key fails when the relation is gone.
UploadFlush(s) ==
    /\ At(s, "upload", "stored")
    /\ IF relations[req[s].rel] # None
       THEN Goto(s, "flushed") /\ UNCHANGED past
       ELSE End(s) /\ past' = [past EXCEPT !.orphaned = @ \cup {req[s].doc}]
    /\ UNCHANGED <<relations, docs, files, logs, drawn>>

\* The answer is sent, then the commit makes the row and its log visible.
UploadCommit(s) ==
    LET q == req[s] IN
    /\ At(s, "upload", "flushed")
    /\ docs' = [docs EXCEPT ![q.doc] = q.rel]
    /\ logs' = logs \cup {[doc |-> q.doc, action |-> "UPLOAD"]}
    /\ End(s)
    /\ UNCHANGED <<relations, files, drawn, past>>

-----------------------------------------------------------------------------
(* Download.                                                               *)

\* load_for_download and delete: the row, its relation, the owner.
Load(s, op, a, d) ==
    /\ docs[d] # None /\ Owns(a, relations[docs[d]])
    /\ Start(s, [Idle EXCEPT !.op = op, !.pc = "checked", !.actor = a, !.doc = d])
    /\ UNCHANGED <<relations, docs, files, logs, drawn, past>>

DownloadLoad(s, a, d) == Load(s, "download", a, d)

\* storage.open, and the answer; a missing file ends the request, and its log
\* is rolled back.
DownloadOpen(s) ==
    /\ At(s, "download", "checked")
    /\ IF req[s].doc \in files THEN Goto(s, "answered") ELSE End(s)
    /\ UNCHANGED <<relations, docs, files, logs, drawn, past>>

\* Mutant: the download is not logged.
DownloadCommit_NoLog(s) ==
    /\ At(s, "download", "answered")
    /\ past' = [past EXCEPT !.fetched = @ \cup {req[s].doc}]
    /\ End(s)
    /\ UNCHANGED <<relations, docs, files, logs, drawn>>

\* The log is INSERTed by the commit; when the row is gone it is refused.
DownloadCommit(s) ==
    LET d == req[s].doc IN
    /\ At(s, "download", "answered")
    /\ logs' = IF docs[d] # None THEN logs \cup {[doc |-> d, action |-> "DOWNLOAD"]} ELSE logs
    /\ past' = [past EXCEPT !.fetched = @ \cup {d}]
    /\ End(s)
    /\ UNCHANGED <<relations, docs, files, drawn>>

-----------------------------------------------------------------------------
(* Delete.                                                                 *)

DeleteLoad(s, a, d) == Load(s, "delete", a, d)

\* Mutant: the file is left to the store.
DeleteFile_Kept(s) ==
    /\ At(s, "delete", "checked")
    /\ Goto(s, "answered")
    /\ UNCHANGED <<relations, docs, files, logs, drawn, past>>

\* storage.delete: a missing file is no error.
DeleteFile(s) ==
    /\ At(s, "delete", "checked")
    /\ files' = files \ {req[s].doc}
    /\ Goto(s, "answered")
    /\ UNCHANGED <<relations, docs, logs, drawn, past>>

\* The rows in D go, and by cascade their logs.
DropDocs(D) ==
    /\ docs' = [d \in Docs |-> IF d \in D THEN None ELSE docs[d]]
    /\ logs' = {l \in logs : l.doc \notin D}

\* The commit INSERTs the log, which fails when the row is gone, and DELETEs
\* the row, which takes that log along.
DeleteCommit(s) ==
    /\ At(s, "delete", "answered")
    /\ DropDocs({req[s].doc})
    /\ End(s)
    /\ UNCHANGED <<relations, files, drawn, past>>

-----------------------------------------------------------------------------
(* Relations.                                                              *)

RelationExists(p) == \E r \in Relations : relations[r] = p

\* Mutant: the two keys are swapped.
PairOf_Swapped(q) == [caregiver |-> q.worker, worker |-> q.actor]

\* The row a register request INSERTs.
PairOf(q) == [caregiver |-> q.actor, worker |-> q.worker]

\* register_worker: no such relation yet.
RegisterCheck(s, a, w) ==
    /\ Role[a] = "CAREGIVER"
    /\ ~RelationExists([caregiver |-> a, worker |-> w])
    /\ Start(s, [Idle EXCEPT !.op = "register", !.pc = "checked", !.actor = a, !.worker = w])
    /\ UNCHANGED <<relations, docs, files, logs, drawn, past>>

\* The INSERT waits for one of the same pair that is not committed yet, and
\* fails when there is a committed one (uq_caregiver_worker).
RegisterFlush(s, r) ==
    /\ At(s, "register", "checked") /\ r \notin drawn
    /\ ~\E t \in Slots : At(t, "register", "flushed") /\ PairOf(req[t]) = PairOf(req[s])
    /\ drawn' = drawn \cup {r}
    /\ IF RelationExists(PairOf(req[s]))
       THEN End(s)
       ELSE req' = [req EXCEPT ![s].pc = "flushed", ![s].rel = r]
    /\ UNCHANGED <<relations, docs, files, logs, past>>

RegisterCommit(s) ==
    /\ At(s, "register", "flushed")
    /\ relations' = [relations EXCEPT ![req[s].rel] = PairOf(req[s])]
    /\ End(s)
    /\ UNCHANGED <<docs, files, logs, drawn, past>>

\* remove_relation: only the caregiver's own.
RemoveLoad(s, a, r) ==
    /\ Role[a] = "CAREGIVER"
    /\ relations[r] # None /\ relations[r].caregiver = a
    /\ Start(s, [Idle EXCEPT !.op = "remove", !.pc = "checked", !.actor = a, !.rel = r])
    /\ UNCHANGED <<relations, docs, files, logs, drawn, past>>

\* Mutant: the DELETE does not wait for an INSERT that names the relation.
RemoveCommit_NoLock(s) ==
    LET r == req[s].rel
        D == {d \in Docs : docs[d] = r}
    IN
    /\ At(s, "remove", "checked")
    /\ relations' = [relations EXCEPT ![r] = None]
    /\ DropDocs(D)
    /\ past' = [past EXCEPT !.orphaned = @ \cup D]
    /\ End(s)
    /\ UNCHANGED <<files, drawn>>

\* The commit DELETEs the relation and by cascade its documents and their
\* logs; the files stay.
RemoveCommit(s) ==
    LET r == req[s].rel
        D == {d \in Docs : docs[d] = r}
    IN
    /\ At(s, "remove", "checked") /\ ~RelationLocked(r)
    /\ relations' = [relations EXCEPT ![r] = None]
    /\ DropDocs(D)
    /\ past' = [past EXCEPT !.orphaned = @ \cup D]
    /\ End(s)
    /\ UNCHANGED <<files, drawn>>

-----------------------------------------------------------------------------
(* A request may end without its commit: the store raises, the connection  *)
(* is lost, the process stops.  get_db_session rolls back.                 *)
Abort(s) ==
    LET q == req[s] IN
    /\ q # Idle
    /\ past' = [past EXCEPT
         !.orphaned = @ \cup {d \in Docs : d = q.doc /\ q.op = "upload"},
         !.broken = @ \cup {d \in Docs : d = q.doc /\ At(s, "delete", "answered")},
         !.unlogged = @ \cup {d \in Docs : d = q.doc /\ At(s, "download", "answered")},
         !.fetched = @ \cup {d \in Docs : d = q.doc /\ At(s, "download", "answered")}]
    /\ End(s)
    /\ UNCHANGED <<relations, docs, files, logs, drawn>>

-----------------------------------------------------------------------------
(* The routes.                                                             *)

DocumentRoutes(s) ==
    \/ \E a \in Actors, r \in Relations, u \in Uploads : UploadCheck(s, a, r, u)
    \/ \E a \in Actors, d \in Docs : DownloadLoad(s, a, d) \/ DeleteLoad(s, a, d)

CaregiverRoutes(s) ==
    \/ \E a \in Actors, w \in Workers : RegisterCheck(s, a, w)
    \/ \E a \in Actors, r \in Relations : RemoveLoad(s, a, r)

Next == \E s \in Slots :
    \/ DocumentRoutes(s)
    \/ \E d \in Docs : UploadStore(s, d) \/ UploadStoreFails(s, d)
    \/ UploadFlush(s)
    \/ UploadCommit(s)
    \/ DownloadOpen(s)
    \/ DownloadCommit(s)
    \/ DeleteFile(s)
    \/ DeleteCommit(s)
    \/ CaregiverRoutes(s)
    \/ \E r \in Relations : RegisterFlush(s, r)
    \/ RegisterCommit(s)
    \/ RemoveCommit(s)
    \/ Abort(s)

Spec == Init /\ [][Next]_vars

-----------------------------------------------------------------------------
(* Properties.                                                             *)

\* Every variable has its type.
TypeOK ==
    /\ relations \in [Relations -> Pair \cup {None}]
    /\ docs \in [Docs -> Relations \cup {None}]
    /\ files \subseteq Docs
    /\ logs \subseteq Log
    /\ drawn \subseteq Relations \cup Docs
    /\ req \in [Slots -> Req]
    /\ past \in Past

\* No row outlives what it refers to: a document has its relation and a log
\* its document, whatever uploads, deletes and removals run together.
NoDanglingRow ==
    /\ \A d \in Docs : docs[d] # None => relations[docs[d]] # None
    /\ \A l \in logs : docs[l.doc] # None

\* File and row go together.  A listed document has its file, except while a
\* delete is between the store and its commit, or after one that never
\* committed (delete removes the file first); and the store keeps no file that
\* no row names, except those of uploads in flight or failed and those of
\* removed relations (nothing collects them).
FilesExplained ==
    \A d \in Docs :
        /\ docs[d] # None /\ d \notin files =>
             \/ d \in past.broken
             \/ \E s \in Slots : At(s, "delete", "answered") /\ req[s].doc = d
        /\ docs[d] = None /\ d \in files =>
             \/ d \in past.orphaned
             \/ \E s \in Slots : req[s].op = "upload" /\ req[s].doc = d

\* A document that was downloaded has a DOWNLOAD entry in its log as long as it
\* lives, unless the commit that carried the log of a download failed.  (The
\* log is kept as a set: downloads of one document are not counted.)
DownloadsLogged ==
    \A d \in past.fetched : docs[d] # None =>
        d \in past.unlogged \/ [doc |-> d, action |-> "DOWNLOAD"] \in logs

\* A file is handed out only to an administrator or to the caregiver whose
\* relation owns the document at that very moment; a document removed after
\* the check may still be handed out once.
HandedToOwner ==
    [][\A s \in Slots : At(s, "download", "checked") /\ req'[s].pc = "answered" =>
          \/ docs[req[s].doc] = None
          \/ Role[req[s].actor] = "ADMIN"
          \/ relations[docs[req[s].doc]].caregiver = req[s].actor]_vars

=============================================================================
