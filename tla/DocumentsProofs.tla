---------------------------- MODULE DocumentsProofs ----------------------------
(***************************************************************************)
(* Proofs about Documents, for every set of actors, workers, relation ids, *)
(* keys and request slots.                                                 *)
(***************************************************************************)
EXTENDS Documents, TLAPS

\* Which locals a request has assigned by the time it waits at q.pc.
WellFormed(q) ==
    /\ q.op = "none" <=> q = Idle
    /\ q.op \in {"upload", "remove"} => q.rel \in Relations
    /\ q.op \in {"download", "delete"} => q.doc \in Docs /\ q.actor \in Actors
    /\ q.op = "upload" /\ q.pc = "checked" => q.doc = None
    /\ q.op = "upload" /\ q.pc \in {"stored", "flushed"} => q.doc \in Docs
    /\ q.op = "register" => q.actor \in Actors /\ q.worker \in Workers
    /\ q.op = "register" /\ q.pc = "flushed" => q.rel \in Relations

RequestsTyped == \A s \in Slots : WellFormed(req[s])

Typed == TypeOK /\ RequestsTyped

\* The locals a slot starts with.
LEMMA IdleTyped == Idle \in Req /\ WellFormed(Idle)
  BY NullAssumption DEF Idle, Req, WellFormed

\* A step that changes the locals of one slot.
LEMMA SlotTyped ==
    ASSUME NEW s \in Slots, NEW q \in Req, WellFormed(q), Typed, req' = [req EXCEPT ![s] = q]
    PROVE  req' \in [Slots -> Req] /\ RequestsTyped'
  BY DEF Typed, TypeOK, RequestsTyped

\* Every step preserves the types.
LEMMA TypeStep == Typed /\ [Next]_vars => Typed'
<1> SUFFICES ASSUME Typed, [Next]_vars PROVE Typed'
  OBVIOUS
<1> USE NullAssumption
<1>i. Idle \in Req /\ WellFormed(Idle) /\ Idle.op = "none"
  BY IdleTyped DEF Idle
<1>r. \A s \in Slots : req[s] \in Req /\ WellFormed(req[s])
  BY DEF Typed, TypeOK, RequestsTyped
<1>e. ASSUME NEW s \in Slots, End(s) PROVE req' \in [Slots -> Req] /\ RequestsTyped'
  BY <1>e, <1>i, SlotTyped DEF End
<1>g. ASSUME NEW s \in Slots, NEW q \in Req, WellFormed(q), req' = [req EXCEPT ![s] = q]
      PROVE  req' \in [Slots -> Req] /\ RequestsTyped'
  BY <1>g, SlotTyped
<1>1. ASSUME NEW s \in Slots, NEW a \in Actors, NEW r \in Relations, NEW u \in Uploads,
             UploadCheck(s, a, r, u)
      PROVE  Typed'
  <2> DEFINE q == [Idle EXCEPT !.op = "upload", !.pc = "checked", !.actor = a, !.rel = r]
  <2>1. q \in Req /\ WellFormed(q)
    BY DEF Idle, Req, WellFormed
  <2> QED BY <1>1, <1>g, <2>1 DEF UploadCheck, Start, Typed, TypeOK
<1>2. ASSUME NEW s \in Slots, NEW op \in {"download", "delete"}, NEW a \in Actors, NEW d \in Docs,
             Load(s, op, a, d)
      PROVE  Typed'
  <2> DEFINE q == [Idle EXCEPT !.op = op, !.pc = "checked", !.actor = a, !.doc = d]
  <2>1. q \in Req /\ WellFormed(q)
    BY DEF Idle, Req, WellFormed
  <2> QED BY <1>2, <1>g, <2>1 DEF Load, Start, Typed, TypeOK
<1>3. ASSUME NEW s \in Slots, NEW a \in Actors, NEW w \in Workers, RegisterCheck(s, a, w)
      PROVE  Typed'
  <2> DEFINE q == [Idle EXCEPT !.op = "register", !.pc = "checked", !.actor = a, !.worker = w]
  <2>1. q \in Req /\ WellFormed(q)
    BY DEF Idle, Req, WellFormed
  <2> QED BY <1>3, <1>g, <2>1 DEF RegisterCheck, Start, Typed, TypeOK
<1>4. ASSUME NEW s \in Slots, NEW a \in Actors, NEW r \in Relations, RemoveLoad(s, a, r)
      PROVE  Typed'
  <2> DEFINE q == [Idle EXCEPT !.op = "remove", !.pc = "checked", !.actor = a, !.rel = r]
  <2>1. q \in Req /\ WellFormed(q)
    BY DEF Idle, Req, WellFormed
  <2> QED BY <1>4, <1>g, <2>1 DEF RemoveLoad, Start, Typed, TypeOK
<1>5. ASSUME NEW s \in Slots, NEW d \in Docs, UploadStore(s, d) PROVE Typed'
  <2> DEFINE q == [req[s] EXCEPT !.pc = "stored", !.doc = d]
  <2>1. q \in Req /\ WellFormed(q) /\ req' = [req EXCEPT ![s] = q]
    BY <1>5, <1>r, <1>i DEF UploadStore, At, Req, WellFormed, Typed, TypeOK
  <2> QED BY <1>5, <1>g, <2>1 DEF UploadStore, Typed, TypeOK
<1>6. ASSUME NEW s \in Slots, NEW d \in Docs, UploadStoreFails(s, d) PROVE Typed'
  BY <1>6, <1>e DEF UploadStoreFails, Typed, TypeOK, Past
<1>7. ASSUME NEW s \in Slots, UploadFlush(s) PROVE Typed'
  <2> DEFINE q == [req[s] EXCEPT !.pc = "flushed"]
  <2>1. q \in Req /\ WellFormed(q) /\ req[s].doc \in Docs
    BY <1>7, <1>r, <1>i DEF UploadFlush, At, Req, WellFormed
  <2>2. req' \in [Slots -> Req] /\ RequestsTyped'
    BY <1>7, <1>e, <1>g, <2>1 DEF UploadFlush, Goto, Typed, TypeOK
  <2> QED BY <1>7, <2>1, <2>2 DEF UploadFlush, Typed, TypeOK, Past
<1>8. ASSUME NEW s \in Slots, UploadCommit(s) PROVE Typed'
  <2>1. req[s].doc \in Docs /\ req[s].rel \in Relations
    BY <1>8, <1>r DEF UploadCommit, At, WellFormed
  <2> QED BY <1>8, <1>e, <2>1 DEF UploadCommit, Typed, TypeOK, Log
<1>9. ASSUME NEW s \in Slots, DownloadOpen(s) PROVE Typed'
  <2> DEFINE q == [req[s] EXCEPT !.pc = "answered"]
  <2>1. q \in Req /\ WellFormed(q)
    BY <1>9, <1>r, <1>i DEF DownloadOpen, At, Req, WellFormed
  <2>2. req' \in [Slots -> Req] /\ RequestsTyped'
    BY <1>9, <1>e, <1>g, <2>1 DEF DownloadOpen, Goto, Typed, TypeOK
  <2> QED BY <1>9, <2>2 DEF DownloadOpen, Typed, TypeOK
<1>10. ASSUME NEW s \in Slots, DownloadCommit(s) PROVE Typed'
  <2>1. req[s].doc \in Docs
    BY <1>10, <1>r DEF DownloadCommit, At, WellFormed
  <2> QED BY <1>10, <1>e, <2>1 DEF DownloadCommit, Typed, TypeOK, Log, Past
<1>11. ASSUME NEW s \in Slots, DeleteFile(s) PROVE Typed'
  <2> DEFINE q == [req[s] EXCEPT !.pc = "answered"]
  <2>1. q \in Req /\ WellFormed(q)
    BY <1>11, <1>r, <1>i DEF DeleteFile, At, Req, WellFormed
  <2>2. req' \in [Slots -> Req] /\ RequestsTyped'
    BY <1>11, <1>g, <2>1 DEF DeleteFile, Goto, Typed, TypeOK
  <2> QED BY <1>11, <2>2 DEF DeleteFile, Typed, TypeOK
<1>12. ASSUME NEW s \in Slots, DeleteCommit(s) PROVE Typed'
  BY <1>12, <1>e DEF DeleteCommit, DropDocs, Typed, TypeOK
<1>13. ASSUME NEW s \in Slots, NEW r \in Relations, RegisterFlush(s, r) PROVE Typed'
  <2> DEFINE q == [req[s] EXCEPT !.pc = "flushed", !.rel = r]
  <2>1. q \in Req /\ WellFormed(q)
    BY <1>13, <1>r, <1>i DEF RegisterFlush, At, Req, WellFormed
  <2>2. End(s) \/ req' = [req EXCEPT ![s] = q]
    BY <1>13 DEF RegisterFlush, Typed, TypeOK
  <2> QED BY <1>13, <1>e, <1>g, <2>1, <2>2 DEF RegisterFlush, Typed, TypeOK
<1>14. ASSUME NEW s \in Slots, RegisterCommit(s) PROVE Typed'
  <2>1. PairOf(req[s]) \in Pair
    BY <1>14, <1>r DEF RegisterCommit, At, WellFormed, PairOf, Pair
  <2> QED BY <1>14, <1>e, <2>1 DEF RegisterCommit, Typed, TypeOK
<1>15. ASSUME NEW s \in Slots, RemoveCommit(s) PROVE Typed'
  BY <1>15, <1>e DEF RemoveCommit, DropDocs, Typed, TypeOK, Past
<1>16. ASSUME NEW s \in Slots, Abort(s) PROVE Typed'
  BY <1>16, <1>e DEF Abort, Typed, TypeOK, Past
<1>17. CASE UNCHANGED vars
  BY <1>17 DEF vars, Typed, TypeOK, RequestsTyped
<1> QED BY <1>1, <1>2, <1>3, <1>4, <1>5, <1>6, <1>7, <1>8, <1>9, <1>10, <1>11, <1>12,
           <1>13, <1>14, <1>15, <1>16, <1>17
        DEF Next, DocumentRoutes, CaregiverRoutes, DownloadLoad, DeleteLoad

\* The type invariant holds in every state the server reaches, and each request
\* has assigned the locals of its handler up to the await where it is.
THEOREM TypeCorrect == Spec => [](TypeOK /\ RequestsTyped)
<1>1. Init => Typed
  BY IdleTyped DEF Init, Typed, TypeOK, RequestsTyped, Past
<1>2. Typed => TypeOK /\ RequestsTyped
  BY DEF Typed
<1> QED BY <1>1, <1>2, TypeStep, PTL DEF Spec

-----------------------------------------------------------------------------
(***************************************************************************)
(* The properties of Documents are not inductive: they say nothing of the  *)
(* requests in flight.  DocumentsInv adds what those hold: ids and keys    *)
(* that were drawn for them alone, and what they found when they loaded.   *)
(***************************************************************************)

\* Ids and keys in use were drawn.
InUseDrawn ==
    /\ \A d \in Docs : docs[d] # None => d \in drawn
    /\ \A r \in Relations : relations[r] # None => r \in drawn
    /\ \A s \in Slots : req[s].doc # None => req[s].doc \in drawn
    /\ \A s \in Slots : At(s, "register", "flushed") => req[s].rel \in drawn
    /\ files \subseteq drawn /\ past.fetched \subseteq drawn

\* The key an upload has drawn is its own: it holds a file, names no row yet,
\* and no other request knows it.
UploadOwnsKey ==
    \A s \in Slots : req[s].op = "upload" /\ req[s].doc # None =>
        /\ docs[req[s].doc] = None
        /\ req[s].doc \in files /\ req[s].doc \notin past.fetched
        /\ \A t \in Slots \ {s} : req[t].doc # req[s].doc

\* The relation of a row that waits for its commit stays.
FlushedHasRelation ==
    \A s \in Slots : At(s, "upload", "flushed") => relations[req[s].rel] # None

\* An id drawn for a relation is that of one INSERT.
RegisterOwnsId ==
    \A s \in Slots : At(s, "register", "flushed") =>
        /\ relations[req[s].rel] = None
        /\ \A t \in Slots \ {s} : At(t, "register", "flushed") => req[t].rel # req[s].rel

\* A delete that waits for its commit has removed the file.
DeletedFileGone == \A s \in Slots : At(s, "delete", "answered") => req[s].doc \notin files

\* Whoever passed the ownership check still owns the document while it lives.
LoadedOwned ==
    \A s \in Slots : At(s, "download", "checked") =>
        docs[req[s].doc] = None \/ Owns(req[s].actor, relations[docs[req[s].doc]])

DocumentsInv ==
    /\ Typed
    /\ InUseDrawn /\ UploadOwnsKey /\ FlushedHasRelation /\ RegisterOwnsId
    /\ DeletedFileGone /\ LoadedOwned
    /\ NoDanglingRow /\ FilesExplained /\ DownloadsLogged

\* Every step preserves the invariant.
LEMMA InvStep == DocumentsInv /\ Typed' /\ [Next]_vars => DocumentsInv'
<1> SUFFICES ASSUME DocumentsInv, Typed', [Next]_vars PROVE DocumentsInv'
  OBVIOUS
<1> USE NullAssumption, PairAssumption
<1>i. Idle.op = "none" /\ Idle.doc = None
  BY DEF Idle
<1>r. \A s \in Slots : req[s] \in Req /\ WellFormed(req[s])
  BY DEF DocumentsInv, Typed, TypeOK, RequestsTyped
<1>d. \A s \in Slots : req[s].doc \in Docs \cup {None} /\ req[s].rel \in Relations \cup {None}
  BY <1>r DEF Req
<1>l. /\ \A l \in logs : l.doc \in Docs
      /\ \A d \in Docs : docs[d] \in Relations \cup {None}
      /\ past.fetched \subseteq Docs
  BY DEF DocumentsInv, Typed, TypeOK, Log, Past
<1>e. ASSUME NEW s \in Slots, End(s)
      PROVE  req'[s] = Idle /\ \A t \in Slots \ {s} : req'[t] = req[t]
  BY <1>e DEF End, Typed, TypeOK
<1>g. ASSUME NEW s \in Slots, NEW pc, Goto(s, pc)
      PROVE  /\ req'[s].op = req[s].op /\ req'[s].pc = pc /\ req'[s].doc = req[s].doc
             /\ req'[s].rel = req[s].rel /\ req'[s].actor = req[s].actor
             /\ \A t \in Slots \ {s} : req'[t] = req[t]
  BY <1>g DEF Goto, Typed, TypeOK
<1>1. ASSUME NEW s \in Slots, NEW a \in Actors, NEW r \in Relations, NEW u \in Uploads,
             UploadCheck(s, a, r, u)
      PROVE  DocumentsInv'
  <2>1. /\ req[s] = Idle /\ req'[s].op = "upload" /\ req'[s].pc = "checked" /\ req'[s].doc = None
        /\ \A t \in Slots \ {s} : req'[t] = req[t]
    BY <1>1 DEF UploadCheck, Start, Idle, Typed, TypeOK
  <2>2. InUseDrawn' /\ UploadOwnsKey' /\ FlushedHasRelation' /\ RegisterOwnsId'
    BY <1>1, <2>1 DEF UploadCheck, InUseDrawn, UploadOwnsKey, FlushedHasRelation,
       RegisterOwnsId, DocumentsInv, At
  <2>3. DeletedFileGone' /\ LoadedOwned'
    BY <1>1, <2>1 DEF UploadCheck, DeletedFileGone, LoadedOwned, DocumentsInv, At
  <2>4. NoDanglingRow' /\ FilesExplained' /\ DownloadsLogged'
    BY <1>1, <1>i, <2>1 DEF UploadCheck, NoDanglingRow, FilesExplained, DownloadsLogged,
       DocumentsInv, At
  <2> QED BY <2>2, <2>3, <2>4 DEF DocumentsInv
<1>2. ASSUME NEW s \in Slots, NEW op \in {"download", "delete"}, NEW a \in Actors,
             NEW d \in Docs, Load(s, op, a, d)
      PROVE  DocumentsInv'
  <2>1. /\ req[s] = Idle /\ req'[s].op = op /\ req'[s].pc = "checked" /\ req'[s].doc = d
        /\ req'[s].actor = a
        /\ \A t \in Slots \ {s} : req'[t] = req[t]
    BY <1>2 DEF Load, Start, Typed, TypeOK
  <2>2. InUseDrawn' /\ UploadOwnsKey' /\ FlushedHasRelation' /\ RegisterOwnsId'
    BY <1>2, <2>1 DEF Load, InUseDrawn, UploadOwnsKey, FlushedHasRelation, RegisterOwnsId,
       DocumentsInv, At
  <2>3. DeletedFileGone' /\ LoadedOwned'
    BY <1>2, <2>1 DEF Load, DeletedFileGone, LoadedOwned, DocumentsInv, At
  <2>4. NoDanglingRow' /\ FilesExplained' /\ DownloadsLogged'
    BY <1>2, <1>i, <2>1 DEF Load, NoDanglingRow, FilesExplained, DownloadsLogged, DocumentsInv,
       At
  <2> QED BY <2>2, <2>3, <2>4 DEF DocumentsInv
<1>3. ASSUME NEW s \in Slots, NEW a \in Actors, NEW w \in Workers, RegisterCheck(s, a, w)
      PROVE  DocumentsInv'
  <2>1. /\ req[s] = Idle /\ req'[s].op = "register" /\ req'[s].pc = "checked"
        /\ req'[s].doc = None
        /\ \A t \in Slots \ {s} : req'[t] = req[t]
    BY <1>3 DEF RegisterCheck, Start, Idle, Typed, TypeOK
  <2>2. InUseDrawn' /\ UploadOwnsKey' /\ FlushedHasRelation' /\ RegisterOwnsId'
    BY <1>3, <2>1 DEF RegisterCheck, InUseDrawn, UploadOwnsKey, FlushedHasRelation,
       RegisterOwnsId, DocumentsInv, At
  <2>3. DeletedFileGone' /\ LoadedOwned'
    BY <1>3, <2>1 DEF RegisterCheck, DeletedFileGone, LoadedOwned, DocumentsInv, At
  <2>4. NoDanglingRow' /\ FilesExplained' /\ DownloadsLogged'
    BY <1>3, <1>i, <2>1 DEF RegisterCheck, NoDanglingRow, FilesExplained, DownloadsLogged,
       DocumentsInv, At
  <2> QED BY <2>2, <2>3, <2>4 DEF DocumentsInv
<1>4. ASSUME NEW s \in Slots, NEW a \in Actors, NEW r \in Relations, RemoveLoad(s, a, r)
      PROVE  DocumentsInv'
  <2>1. /\ req[s] = Idle /\ req'[s].op = "remove" /\ req'[s].pc = "checked" /\ req'[s].doc = None
        /\ \A t \in Slots \ {s} : req'[t] = req[t]
    BY <1>4 DEF RemoveLoad, Start, Idle, Typed, TypeOK
  <2>2. InUseDrawn' /\ UploadOwnsKey' /\ FlushedHasRelation' /\ RegisterOwnsId'
    BY <1>4, <1>i, <2>1 DEF RemoveLoad, Start, InUseDrawn, UploadOwnsKey, FlushedHasRelation,
       RegisterOwnsId, DocumentsInv, At
  <2>3. DeletedFileGone' /\ LoadedOwned'
    BY <1>4, <2>1 DEF RemoveLoad, DeletedFileGone, LoadedOwned, DocumentsInv, At
  <2>4. NoDanglingRow' /\ FilesExplained' /\ DownloadsLogged'
    BY <1>4, <1>i, <2>1 DEF RemoveLoad, NoDanglingRow, FilesExplained, DownloadsLogged,
       DocumentsInv, At
  <2> QED BY <2>2, <2>3, <2>4 DEF DocumentsInv
<1>5. ASSUME NEW s \in Slots, NEW d \in Docs, UploadStore(s, d)
      PROVE  DocumentsInv'
  <2>1. /\ At(s, "upload", "checked") /\ d \notin drawn
        /\ drawn' = drawn \cup {d} /\ files' = files \cup {d}
        /\ UNCHANGED <<relations, docs, logs, past>>
        /\ req'[s].op = "upload" /\ req'[s].pc = "stored" /\ req'[s].doc = d
        /\ req'[s].rel = req[s].rel
        /\ \A t \in Slots \ {s} : req'[t] = req[t]
    BY <1>5 DEF UploadStore, Typed, TypeOK, At
  <2>2. InUseDrawn'
    BY <2>1 DEF InUseDrawn, DocumentsInv, At
  <2>3. UploadOwnsKey'
    BY <2>1 DEF InUseDrawn, UploadOwnsKey, DocumentsInv
  <2>4. FlushedHasRelation' /\ RegisterOwnsId'
    BY <2>1 DEF FlushedHasRelation, RegisterOwnsId, DocumentsInv, At
  <2>5. DeletedFileGone' /\ LoadedOwned'
    BY <2>1 DEF InUseDrawn, DeletedFileGone, LoadedOwned, DocumentsInv, At
  <2>6. NoDanglingRow' /\ DownloadsLogged'
    BY <2>1 DEF NoDanglingRow, DownloadsLogged, DocumentsInv
  <2>7. FilesExplained'
    BY <1>r, <2>1 DEF FilesExplained, DocumentsInv, At, WellFormed
  <2> QED BY <2>2, <2>3, <2>4, <2>5, <2>6, <2>7 DEF DocumentsInv
<1>6. ASSUME NEW s \in Slots, NEW d \in Docs, UploadStoreFails(s, d)
      PROVE  DocumentsInv'
  <2>1. /\ At(s, "upload", "checked") /\ d \notin drawn /\ drawn' = drawn \cup {d}
        /\ UNCHANGED <<relations, docs, logs>> /\ past'.fetched = past.fetched
        /\ past'.unlogged = past.unlogged
        /\ past'.broken = past.broken
        /\ \/ UNCHANGED <<files, past>>
           \/ files' = files \cup {d} /\ past'.orphaned = past.orphaned \cup {d}
        /\ req[s].doc \notin Docs /\ req'[s] = Idle /\ \A t \in Slots \ {s} : req'[t] = req[t]
    BY <1>6, <1>e, <1>r DEF UploadStoreFails, Typed, TypeOK, At, WellFormed, Past
  <2>2. InUseDrawn'
    BY <1>i, <2>1 DEF InUseDrawn, DocumentsInv, At
  <2>3. UploadOwnsKey'
    BY <1>i, <2>1 DEF UploadOwnsKey, DocumentsInv
  <2>4. FlushedHasRelation' /\ RegisterOwnsId'
    BY <1>i, <2>1 DEF FlushedHasRelation, RegisterOwnsId, DocumentsInv, At
  <2>5. DeletedFileGone' /\ LoadedOwned'
    BY <1>i, <2>1 DEF InUseDrawn, DeletedFileGone, LoadedOwned, DocumentsInv, At
  <2>6. NoDanglingRow' /\ DownloadsLogged'
    BY <2>1 DEF NoDanglingRow, DownloadsLogged, DocumentsInv
  <2>7. FilesExplained'
    BY <2>1 DEF FilesExplained, DocumentsInv, At
  <2> QED BY <2>2, <2>3, <2>4, <2>5, <2>6, <2>7 DEF DocumentsInv
<1>7. ASSUME NEW s \in Slots, UploadFlush(s)
      PROVE  DocumentsInv'
  <2>1. /\ At(s, "upload", "stored") /\ UNCHANGED <<relations, docs, files, logs, drawn>>
        /\ past'.fetched = past.fetched /\ past'.unlogged = past.unlogged
        /\ past'.broken = past.broken
        /\ req[s].doc \in Docs /\ req[s].rel \in Relations
        /\ \/ /\ relations[req[s].rel] # None /\ UNCHANGED past
              /\ req'[s].op = "upload" /\ req'[s].pc = "flushed"
              /\ req'[s].doc = req[s].doc /\ req'[s].rel = req[s].rel
           \/ req'[s] = Idle /\ past'.orphaned = past.orphaned \cup {req[s].doc}
        /\ \A t \in Slots \ {s} : req'[t] = req[t]
    BY <1>7, <1>e, <1>g, <1>r DEF UploadFlush, Typed, TypeOK, At, WellFormed, Past
  <2>2. InUseDrawn'
    BY <1>i, <2>1 DEF InUseDrawn, DocumentsInv, At
  <2>3. UploadOwnsKey'
    BY <1>i, <2>1 DEF UploadOwnsKey, DocumentsInv, At
  <2>4. FlushedHasRelation' /\ RegisterOwnsId'
    BY <1>i, <2>1 DEF FlushedHasRelation, RegisterOwnsId, DocumentsInv, At
  <2>5. DeletedFileGone' /\ LoadedOwned'
    BY <1>i, <2>1 DEF DeletedFileGone, LoadedOwned, DocumentsInv, At
  <2>6. NoDanglingRow' /\ DownloadsLogged'
    BY <2>1 DEF NoDanglingRow, DownloadsLogged, DocumentsInv, At
  <2>7. FilesExplained'
    BY <2>1 DEF FilesExplained, DocumentsInv, At
  <2> QED BY <2>2, <2>3, <2>4, <2>5, <2>6, <2>7 DEF DocumentsInv
<1>8. ASSUME NEW s \in Slots, UploadCommit(s)
      PROVE  DocumentsInv'
  <2>1. /\ At(s, "upload", "flushed") /\ UNCHANGED <<relations, files, drawn, past>>
        /\ req[s].doc \in Docs /\ req[s].rel \in Relations
        /\ docs'[req[s].doc] = req[s].rel /\ \A d \in Docs \ {req[s].doc} : docs'[d] = docs[d]
        /\ logs' = logs \cup {[doc |-> req[s].doc, action |-> "UPLOAD"]}
        /\ req'[s] = Idle /\ \A t \in Slots \ {s} : req'[t] = req[t]
    BY <1>8, <1>e, <1>r DEF UploadCommit, Typed, TypeOK, At, WellFormed
  <2>2. InUseDrawn'
    BY <1>i, <2>1 DEF InUseDrawn, DocumentsInv, At
  <2>3. UploadOwnsKey'
    BY <1>i, <1>d, <2>1 DEF UploadOwnsKey, DocumentsInv, At
  <2>4. FlushedHasRelation' /\ RegisterOwnsId'
    BY <1>i, <2>1 DEF FlushedHasRelation, RegisterOwnsId, DocumentsInv, At
  <2>5. DeletedFileGone' /\ LoadedOwned'
    BY <1>i, <1>r, <2>1 DEF UploadOwnsKey, DeletedFileGone, LoadedOwned, DocumentsInv, At,
       WellFormed, Owns
  <2>6. NoDanglingRow' /\ DownloadsLogged'
    BY <1>l, <2>1 DEF UploadOwnsKey, FlushedHasRelation, NoDanglingRow, DownloadsLogged,
       DocumentsInv, At
  <2>7. FilesExplained'
    BY <2>1 DEF UploadOwnsKey, FilesExplained, DocumentsInv, At
  <2> QED BY <2>2, <2>3, <2>4, <2>5, <2>6, <2>7 DEF DocumentsInv
<1>9. ASSUME NEW s \in Slots, DownloadOpen(s)
      PROVE  DocumentsInv'
  <2>1. /\ At(s, "download", "checked") /\ UNCHANGED <<relations, docs, files, logs, drawn, past>>
        /\ \/ /\ req'[s].op = "download" /\ req'[s].pc = "answered"
              /\ req'[s].doc = req[s].doc /\ req'[s].rel = req[s].rel
           \/ req'[s] = Idle
        /\ \A t \in Slots \ {s} : req'[t] = req[t]
    BY <1>9, <1>e, <1>g DEF DownloadOpen, At
  <2>2. InUseDrawn'
    BY <1>i, <2>1 DEF InUseDrawn, DocumentsInv, At
  <2>3. UploadOwnsKey'
    BY <1>i, <2>1 DEF UploadOwnsKey, DocumentsInv
  <2>4. FlushedHasRelation' /\ RegisterOwnsId'
    BY <1>i, <2>1 DEF FlushedHasRelation, RegisterOwnsId, DocumentsInv, At
  <2>5. DeletedFileGone' /\ LoadedOwned'
    BY <1>i, <2>1 DEF DeletedFileGone, LoadedOwned, DocumentsInv, At
  <2>6. NoDanglingRow' /\ DownloadsLogged'
    BY <2>1 DEF NoDanglingRow, DownloadsLogged, DocumentsInv
  <2>7. FilesExplained'
    BY <2>1 DEF FilesExplained, DocumentsInv, At
  <2> QED BY <2>2, <2>3, <2>4, <2>5, <2>6, <2>7 DEF DocumentsInv
<1>10. ASSUME NEW s \in Slots, DownloadCommit(s)
      PROVE  DocumentsInv'
  <2>1. /\ At(s, "download", "answered") /\ UNCHANGED <<relations, docs, files, drawn>>
        /\ req[s].doc \in Docs
        /\ logs' = IF docs[req[s].doc] # None THEN logs \cup {[doc |-> req[s].doc,
                 action |-> "DOWNLOAD"]} ELSE logs
        /\ past'.fetched = past.fetched \cup {req[s].doc} /\ past'.unlogged = past.unlogged
        /\ past'.broken = past.broken /\ past'.orphaned = past.orphaned
        /\ req'[s] = Idle /\ \A t \in Slots \ {s} : req'[t] = req[t]
    BY <1>10, <1>e, <1>r DEF DownloadCommit, At, WellFormed
  <2>2. InUseDrawn'
    BY <1>i, <2>1 DEF InUseDrawn, DocumentsInv, At
  <2>3. UploadOwnsKey'
    BY <1>i, <2>1 DEF UploadOwnsKey, DocumentsInv
  <2>4. FlushedHasRelation' /\ RegisterOwnsId'
    BY <1>i, <2>1 DEF FlushedHasRelation, RegisterOwnsId, DocumentsInv, At
  <2>5. DeletedFileGone' /\ LoadedOwned'
    BY <1>i, <2>1 DEF DeletedFileGone, LoadedOwned, DocumentsInv, At
  <2>6. NoDanglingRow' /\ DownloadsLogged'
    BY <2>1 DEF NoDanglingRow, DownloadsLogged, DocumentsInv
  <2>7. FilesExplained'
    BY <2>1 DEF FilesExplained, DocumentsInv, At
  <2> QED BY <2>2, <2>3, <2>4, <2>5, <2>6, <2>7 DEF DocumentsInv
<1>11. ASSUME NEW s \in Slots, DeleteFile(s)
      PROVE  DocumentsInv'
  <2>1. /\ At(s, "delete", "checked") /\ UNCHANGED <<relations, docs, logs, drawn, past>>
        /\ req[s].doc \in Docs /\ files' = files \ {req[s].doc}
        /\ req'[s].op = "delete" /\ req'[s].pc = "answered"
        /\ req'[s].doc = req[s].doc /\ req'[s].rel = req[s].rel
        /\ \A t \in Slots \ {s} : req'[t] = req[t]
    BY <1>11, <1>g, <1>r DEF DeleteFile, At, WellFormed
  <2>2. InUseDrawn'
    BY <2>1 DEF InUseDrawn, DocumentsInv, At
  <2>3. UploadOwnsKey'
    BY <2>1 DEF UploadOwnsKey, DocumentsInv
  <2>4. FlushedHasRelation' /\ RegisterOwnsId'
    BY <2>1 DEF FlushedHasRelation, RegisterOwnsId, DocumentsInv, At
  <2>5. DeletedFileGone' /\ LoadedOwned'
    BY <2>1 DEF DeletedFileGone, LoadedOwned, DocumentsInv, At
  <2>6. NoDanglingRow' /\ DownloadsLogged'
    BY <2>1 DEF NoDanglingRow, DownloadsLogged, DocumentsInv
  <2>7. FilesExplained'
    BY <2>1 DEF FilesExplained, DocumentsInv, At
  <2> QED BY <2>2, <2>3, <2>4, <2>5, <2>6, <2>7 DEF DocumentsInv
<1>12. ASSUME NEW s \in Slots, DeleteCommit(s)
      PROVE  DocumentsInv'
  <2>1. /\ At(s, "delete", "answered") /\ UNCHANGED <<relations, files, drawn, past>>
        /\ req[s].doc \in Docs /\ docs'[req[s].doc] = None
        /\ \A d \in Docs \ {req[s].doc} : docs'[d] = docs[d]
        /\ logs' = {l \in logs : l.doc # req[s].doc}
        /\ req'[s] = Idle /\ \A t \in Slots \ {s} : req'[t] = req[t]
    BY <1>12, <1>e, <1>r DEF DeleteCommit, At, WellFormed, DropDocs
  <2>2. InUseDrawn'
    BY <1>i, <2>1 DEF InUseDrawn, DocumentsInv, At
  <2>3. UploadOwnsKey'
    BY <1>i, <1>d, <2>1 DEF UploadOwnsKey, DocumentsInv
  <2>4. FlushedHasRelation' /\ RegisterOwnsId'
    BY <1>i, <2>1 DEF FlushedHasRelation, RegisterOwnsId, DocumentsInv, At
  <2>5. DeletedFileGone' /\ LoadedOwned'
    BY <1>i, <1>r, <2>1 DEF DeletedFileGone, LoadedOwned, DocumentsInv, At, WellFormed
  <2>6. NoDanglingRow' /\ DownloadsLogged'
    BY <1>l, <2>1 DEF NoDanglingRow, DownloadsLogged, DocumentsInv
  <2>7. FilesExplained'
    BY <2>1 DEF DeletedFileGone, FilesExplained, DocumentsInv, At
  <2> QED BY <2>2, <2>3, <2>4, <2>5, <2>6, <2>7 DEF DocumentsInv
<1>13. ASSUME NEW s \in Slots, NEW r \in Relations, RegisterFlush(s, r)
      PROVE  DocumentsInv'
  <2>1. /\ At(s, "register", "checked") /\ r \notin drawn /\ drawn' = drawn \cup {r}
        /\ UNCHANGED <<relations, docs, files, logs, past>>
        /\ \/ req'[s] = Idle
           \/ /\ req'[s].op = "register" /\ req'[s].pc = "flushed"
              /\ req'[s].doc = req[s].doc /\ req'[s].rel = r
        /\ \A t \in Slots \ {s} : req'[t] = req[t]
    BY <1>13, <1>e DEF RegisterFlush, Typed, TypeOK, Req, At
  <2>2. InUseDrawn'
    BY <1>i, <2>1 DEF InUseDrawn, DocumentsInv, At
  <2>3. UploadOwnsKey'
    BY <1>i, <2>1 DEF UploadOwnsKey, DocumentsInv
  <2>4. FlushedHasRelation' /\ RegisterOwnsId'
    BY <1>i, <2>1 DEF InUseDrawn, FlushedHasRelation, RegisterOwnsId, DocumentsInv, At
  <2>5. DeletedFileGone' /\ LoadedOwned'
    BY <1>i, <2>1 DEF DeletedFileGone, LoadedOwned, DocumentsInv, At
  <2>6. NoDanglingRow' /\ DownloadsLogged'
    BY <2>1 DEF NoDanglingRow, DownloadsLogged, DocumentsInv
  <2>7. FilesExplained'
    BY <2>1 DEF FilesExplained, DocumentsInv, At
  <2> QED BY <2>2, <2>3, <2>4, <2>5, <2>6, <2>7 DEF DocumentsInv
<1>14. ASSUME NEW s \in Slots, RegisterCommit(s)
      PROVE  DocumentsInv'
  <2>1. /\ At(s, "register", "flushed") /\ UNCHANGED <<docs, files, logs, drawn, past>>
        /\ req[s].rel \in Relations /\ relations'[req[s].rel] # None
        /\ \A r \in Relations \ {req[s].rel} : relations'[r] = relations[r]
        /\ req'[s] = Idle /\ \A t \in Slots \ {s} : req'[t] = req[t]
    BY <1>14, <1>e, <1>r DEF RegisterCommit, Typed, TypeOK, At, WellFormed, Pair, PairOf
  <2>2. InUseDrawn'
    BY <1>i, <2>1 DEF InUseDrawn, DocumentsInv, At
  <2>3. UploadOwnsKey'
    BY <1>i, <2>1 DEF UploadOwnsKey, DocumentsInv
  <2>4. FlushedHasRelation' /\ RegisterOwnsId'
    BY <1>i, <1>r, <2>1 DEF FlushedHasRelation, RegisterOwnsId, DocumentsInv, At, WellFormed
  <2>5. DeletedFileGone' /\ LoadedOwned'
    BY <1>i, <1>r, <1>l, <2>1 DEF NoDanglingRow, DeletedFileGone, LoadedOwned, DocumentsInv,
       At, RegisterOwnsId, WellFormed
  <2>6. NoDanglingRow' /\ DownloadsLogged'
    BY <1>l, <2>1 DEF NoDanglingRow, DownloadsLogged, DocumentsInv
  <2>7. FilesExplained'
    BY <2>1 DEF FilesExplained, DocumentsInv, At
  <2> QED BY <2>2, <2>3, <2>4, <2>5, <2>6, <2>7 DEF DocumentsInv
<1>15. ASSUME NEW s \in Slots, RemoveCommit(s)
      PROVE  DocumentsInv'
  <2>1. /\ At(s, "remove", "checked") /\ UNCHANGED <<files, drawn>>
        /\ ~RelationLocked(req[s].rel) /\ req[s].rel \in Relations
        /\ relations'[req[s].rel] = None
        /\ \A r \in Relations \ {req[s].rel} : relations'[r] = relations[r]
        /\ \A d \in Docs : docs'[d] = IF docs[d] = req[s].rel THEN None ELSE docs[d]
        /\ \A l \in logs' : l \in logs /\ docs[l.doc] # req[s].rel
        /\ \A l \in logs : docs[l.doc] # req[s].rel => l \in logs'
        /\ past'.fetched = past.fetched /\ past'.unlogged = past.unlogged
        /\ past'.broken = past.broken
        /\ past'.orphaned = past.orphaned \cup {d \in Docs : docs[d] = req[s].rel}
        /\ req'[s] = Idle /\ \A t \in Slots \ {s} : req'[t] = req[t]
    BY <1>15, <1>e DEF RemoveCommit, Typed, TypeOK, Log, DropDocs
  <2>2. InUseDrawn'
    BY <1>i, <2>1 DEF InUseDrawn, DocumentsInv, At
  <2>3. UploadOwnsKey'
    BY <1>i, <1>d, <2>1 DEF UploadOwnsKey, DocumentsInv
  <2>4. FlushedHasRelation' /\ RegisterOwnsId'
    BY <1>i, <1>r, <2>1 DEF RelationLocked, FlushedHasRelation, RegisterOwnsId, DocumentsInv,
       At, WellFormed
  <2>5. DeletedFileGone' /\ LoadedOwned'
    BY <1>i, <1>r, <1>l, <2>1 DEF DeletedFileGone, LoadedOwned, DocumentsInv, At, WellFormed
  <2>6. NoDanglingRow' /\ DownloadsLogged'
    BY <1>l, <2>1 DEF NoDanglingRow, DownloadsLogged, DocumentsInv
  <2>7. FilesExplained'
    BY <2>1 DEF FilesExplained, DocumentsInv, At
  <2> QED BY <2>2, <2>3, <2>4, <2>5, <2>6, <2>7 DEF DocumentsInv
<1>16. ASSUME NEW s \in Slots, Abort(s)
      PROVE  DocumentsInv'
  <2>1. /\ req[s] # Idle /\ UNCHANGED <<relations, docs, files, logs, drawn>>
        /\ past'.orphaned = past.orphaned
                \cup {d \in Docs : d = req[s].doc /\ req[s].op = "upload"}
        /\ past'.broken = past.broken
                \cup {d \in Docs : d = req[s].doc /\ At(s, "delete", "answered")}
        /\ past'.unlogged = past.unlogged
                \cup {d \in Docs : d = req[s].doc /\ At(s, "download", "answered")}
        /\ past'.fetched = past.fetched
                \cup {d \in Docs : d = req[s].doc /\ At(s, "download", "answered")}
        /\ req'[s] = Idle /\ \A t \in Slots \ {s} : req'[t] = req[t]
    BY <1>16, <1>e DEF Abort
  <2>2. InUseDrawn'
    BY <1>i, <2>1 DEF InUseDrawn, DocumentsInv, At
  <2>3. UploadOwnsKey'
    BY <1>i, <2>1 DEF UploadOwnsKey, DocumentsInv
  <2>4. FlushedHasRelation' /\ RegisterOwnsId'
    BY <1>i, <2>1 DEF FlushedHasRelation, RegisterOwnsId, DocumentsInv, At
  <2>5. DeletedFileGone' /\ LoadedOwned'
    BY <1>i, <2>1 DEF DeletedFileGone, LoadedOwned, DocumentsInv, At
  <2>6. NoDanglingRow' /\ DownloadsLogged'
    BY <2>1 DEF NoDanglingRow, DownloadsLogged, DocumentsInv
  <2>7. FilesExplained'
    BY <2>1 DEF FilesExplained, DocumentsInv, At
  <2> QED BY <2>2, <2>3, <2>4, <2>5, <2>6, <2>7 DEF DocumentsInv
<1>17. CASE UNCHANGED vars
  BY <1>17 DEF vars, DocumentsInv, InUseDrawn, UploadOwnsKey, FlushedHasRelation,
     RegisterOwnsId, DeletedFileGone, LoadedOwned, NoDanglingRow, FilesExplained,
     DownloadsLogged, At
<1> QED BY <1>1, <1>2, <1>3, <1>4, <1>5, <1>6, <1>7, <1>8, <1>9, <1>10, <1>11, <1>12, <1>13,
           <1>14, <1>15, <1>16, <1>17 DEF Next, DocumentRoutes, CaregiverRoutes, DownloadLoad,
           DeleteLoad

\* The invariant holds in every state the server reaches.
LEMMA Invariance == Spec => []DocumentsInv
<1>1. Init => DocumentsInv
  <2> SUFFICES ASSUME Init PROVE DocumentsInv
    OBVIOUS
  <2>1. Typed
    BY IdleTyped DEF Init, Typed, TypeOK, RequestsTyped, Past
  <2>2. \A s \in Slots : req[s].op = "none" /\ req[s].doc = None
    BY DEF Init, Idle
  <2> QED BY <2>1, <2>2 DEF Init, DocumentsInv, InUseDrawn, UploadOwnsKey,
           FlushedHasRelation, RegisterOwnsId, DeletedFileGone, LoadedOwned, NoDanglingRow,
           FilesExplained, DownloadsLogged, At
<1>2. DocumentsInv /\ [Next]_vars => DocumentsInv'
  BY TypeStep, InvStep DEF DocumentsInv
<1> QED BY <1>1, <1>2, PTL DEF Spec

\* However uploads, deletes and removals of relations overlap and fail, no
\* document outlives its relation and no log its document.
THEOREM RowsReferToRows == Spec => []NoDanglingRow
<1>1. DocumentsInv => NoDanglingRow
  BY DEF DocumentsInv
<1> QED BY <1>1, Invariance, PTL

\* A row without its file and a file without its row have the causes that
\* FilesExplained lists, and no other.
THEOREM FilesAndRowsExplained == Spec => []FilesExplained
<1>1. DocumentsInv => FilesExplained
  BY DEF DocumentsInv
<1> QED BY <1>1, Invariance, PTL

\* A download that ended is in the log of a document that lives, unless the
\* commit that carried the log failed.
THEOREM EveryDownloadLogged == Spec => []DownloadsLogged
<1>1. DocumentsInv => DownloadsLogged
  BY DEF DocumentsInv
<1> QED BY <1>1, Invariance, PTL

\* A download is answered only for an administrator or for the caregiver who
\* owns the document at that moment, or of a document removed since the load:
\* the check made at the load still holds of every document that is there.
THEOREM FilesGoToOwners == Spec => HandedToOwner
<1>1. ASSUME DocumentsInv, NEW s \in Slots, At(s, "download", "checked")
      PROVE  \/ docs[req[s].doc] = None
             \/ Role[req[s].actor] = "ADMIN"
             \/ relations[docs[req[s].doc]].caregiver = req[s].actor
  BY <1>1 DEF DocumentsInv, LoadedOwned, Owns
<1>2. DocumentsInv =>
        [\A s \in Slots : At(s, "download", "checked") /\ req'[s].pc = "answered" =>
          \/ docs[req[s].doc] = None
          \/ Role[req[s].actor] = "ADMIN"
          \/ relations[docs[req[s].doc]].caregiver = req[s].actor]_vars
  BY <1>1
<1> QED BY <1>2, Invariance, PTL DEF HandedToOwner

=============================================================================
