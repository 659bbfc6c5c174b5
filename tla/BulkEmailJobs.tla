---------------------------- MODULE BulkEmailJobs ----------------------------
(***************************************************************************)
(* Bulk mailing of work journals: the endpoint POST /work-journals/bulk-   *)
(* email, the background runner run_bulk_email_job and the service methods *)
(* it calls (app/services/document.py), with the pool of database          *)
(* connections they share and the mail provider they call.                 *)
(*                                                                         *)
(* The runner is in memory: a BackgroundTasks entry of the process that    *)
(* took the request.  Nothing restarts it.  A job holds at most one        *)
(* connection; it gives it back at each commit or rollback, so it has none *)
(* while it waits for one, and keeps it while it renders and mails.        *)
(***************************************************************************)
EXTENDS Naturals, Sequences, FiniteSets

CONSTANTS
    Jobs,           \* job ids
    Cap,            \* _MAX_BULK_SCHEDULES
    MaxSchedules,   \* bound on the schedules of a company on a day
    PoolSize,       \* db_pool_max, with max_overflow = 0
    MaxFaults,      \* bound on database errors and crashes
    Modes           \* the settings to start the server with

ASSUME BoundAssumption == Cap \in Nat \ {0} /\ MaxSchedules \in Nat /\ MaxFaults \in Nat
ASSUME PoolAssumption == PoolSize \in Nat \ {0}

\* readOnly: APP_READ_ONLY; resend: resend_enabled and an API key.
Mode == [readOnly : BOOLEAN, resend : BOOLEAN]

ASSUME ModeAssumption == Modes \subseteq Mode

VARIABLES
    mode,    \* the settings, which stay as they are
    row,     \* the committed row of bulk_email_jobs
    pc,      \* where the job's runner is
    loc,     \* the row as the runner's session holds it
    total,   \* the schedules that send() found
    held,    \* the jobs whose runner holds a connection
    aborted, \* the jobs whose transaction PostgreSQL has aborted
    mails,   \* per job, the sizes of the mails the provider accepted
    faults,  \* how many errors and crashes there have been
    hit      \* history: the jobs that met a fault or a pool timeout

vars == <<mode, row, pc, loc, total, held, aborted, mails, faults, hit>>

Row == [status : {"NONE", "QUEUED", "SENDING", "SUCCESS", "FAILED"}, count : 0 .. Cap,
        mid : BOOLEAN, truncated : BOOLEAN, error : BOOLEAN,
        started : BOOLEAN, finished : BOOLEAN]

NoRow == [status |-> "NONE", count |-> 0, mid |-> FALSE, truncated |-> FALSE,
          error |-> FALSE, started |-> FALSE, finished |-> FALSE]

PCs == {"off", "mark", "commit_sending", "query", "render", "mail", "write", "commit", "over"}

Init ==
    /\ mode \in Modes
    /\ row = [j \in Jobs |-> NoRow]
    /\ pc = [j \in Jobs |-> "off"]
    /\ loc = [j \in Jobs |-> NoRow]
    /\ total = [j \in Jobs |-> 0]
    /\ held = {} /\ aborted = {}
    /\ mails = [j \in Jobs |-> << >>]
    /\ faults = 0 /\ hit = {}

-----------------------------------------------------------------------------
(* The connection pool.                                                    *)

CanHold(j) == j \in held \/ Cardinality(held) < PoolSize

Hold(j) == CanHold(j) /\ held' = held \cup {j}

\* Mutant: the session is not closed on the way out.
Stop_Leaks(j) ==
    /\ pc' = [pc EXCEPT ![j] = "over"]
    /\ aborted' = aborted \ {j}
    /\ UNCHANGED held

\* The runner is over: the session is rolled back and closed.
Stop(j) ==
    /\ pc' = [pc EXCEPT ![j] = "over"]
    /\ held' = held \ {j}
    /\ aborted' = aborted \ {j}

\* send() has returned or raised: complete_job goes on to write the outcome,
\* with the connections h held and the transactions a aborted.  The read-only
\* runner has no job to write to and is over.
SendEnds(j, outcome, h, a) ==
    IF mode.readOnly
    THEN Stop(j) /\ UNCHANGED loc
    ELSE /\ pc' = [pc EXCEPT ![j] = "write"]
         /\ loc' = [loc EXCEPT ![j] = [outcome EXCEPT !.finished = TRUE]]
         /\ held' = h /\ aborted' = a

Succeeded(j, n, mid, truncated) ==
    [loc[j] EXCEPT !.status = "SUCCESS", !.count = n, !.mid = mid, !.truncated = truncated]

Failed(j) == [loc[j] EXCEPT !.status = "FAILED", !.error = TRUE]

-----------------------------------------------------------------------------
(* POST /work-journals/bulk-email: create_job, commit, add_task.           *)

Request(j) ==
    /\ pc[j] = "off"
    /\ IF mode.readOnly
       THEN /\ pc' = [pc EXCEPT ![j] = "query"]
            /\ UNCHANGED <<row, loc>>
       ELSE /\ pc' = [pc EXCEPT ![j] = "mark"]
            /\ row' = [row EXCEPT ![j].status = "QUEUED"]
            /\ loc' = [loc EXCEPT ![j].status = "QUEUED"]
    /\ UNCHANGED <<mode, total, held, aborted, mails, faults, hit>>

(* run_bulk_email_job *)

mark_sending(j) ==
    /\ pc[j] = "mark"
    /\ Hold(j)
    /\ loc' = [loc EXCEPT ![j].status = "SENDING", ![j].started = TRUE]
    /\ pc' = [pc EXCEPT ![j] = "commit_sending"]
    /\ UNCHANGED <<mode, row, total, aborted, mails, faults, hit>>

\* Mutant: the first commit is left out.
CommitSending_Skipped(j) ==
    /\ pc[j] = "commit_sending"
    /\ pc' = [pc EXCEPT ![j] = "query"]
    /\ UNCHANGED <<mode, row, loc, total, held, aborted, mails, faults, hit>>

CommitSending(j) ==
    /\ pc[j] = "commit_sending"
    /\ row' = [row EXCEPT ![j] = loc[j]]
    /\ held' = held \ {j}
    /\ pc' = [pc EXCEPT ![j] = "query"]
    /\ UNCHANGED <<mode, loc, total, aborted, mails, faults, hit>>

(* complete_job and send: the job, the schedules of the company and day,   *)
(* the journals, the mail.                                                 *)

\* complete_job reads the job, then send() the schedules, on one connection.
Query(j, n) ==
    /\ pc[j] = "query"
    /\ CanHold(j)
    /\ total' = [total EXCEPT ![j] = n]
    /\ IF n = 0
       THEN SendEnds(j, Succeeded(j, 0, FALSE, FALSE), held \cup {j}, aborted)
       ELSE /\ pc' = [pc EXCEPT ![j] = "render"]
            /\ held' = held \cup {j}
            /\ UNCHANGED <<loc, aborted>>
    /\ UNCHANGED <<mode, row, mails, faults, hit>>

Render(j) ==
    /\ pc[j] = "render"
    /\ pc' = [pc EXCEPT ![j] = "mail"]
    /\ UNCHANGED <<mode, row, loc, total, held, aborted, mails, faults, hit>>

\* Mutant: a failure to render leaves the runner at once.
RenderFails_Escapes(j) ==
    /\ pc[j] = "render"
    /\ Stop(j)
    /\ UNCHANGED <<mode, row, loc, total, mails, faults, hit>>

\* A journal cannot be rendered (missing row, converter failure).
RenderFails(j) ==
    /\ pc[j] = "render"
    /\ SendEnds(j, Failed(j), held, aborted)
    /\ UNCHANGED <<mode, row, total, mails, faults, hit>>

\* Mutant: the journals are not capped.
Attached_NoCap(j) == total[j]

Attached(j) == IF total[j] > Cap THEN Cap ELSE total[j]

\* Mutant: a failed call is taken for a success without an id.
Mail_IgnoresFailure(j, accepted, answered) ==
    /\ pc[j] = "mail"
    /\ answered => accepted
    /\ ~mode.resend => ~accepted
    /\ mails' = IF accepted THEN [mails EXCEPT ![j] = Append(@, Attached(j))] ELSE mails
    /\ SendEnds(j, Succeeded(j, Attached(j), answered, total[j] > Cap), held, aborted)
    /\ UNCHANGED <<mode, row, total, faults, hit>>

\* send_email.  accepted: the provider took the mail; answered: its answer
\* came back.  Switched off, nothing is sent and no id returned.
Mail(j, accepted, answered) ==
    /\ pc[j] = "mail"
    /\ answered => accepted
    /\ ~mode.resend => ~accepted
    /\ mails' = IF accepted THEN [mails EXCEPT ![j] = Append(@, Attached(j))] ELSE mails
    /\ SendEnds(j, IF answered \/ ~mode.resend
                   THEN Succeeded(j, Attached(j), answered, total[j] > Cap)
                   ELSE Failed(j), held, aborted)
    /\ UNCHANGED <<mode, row, total, faults, hit>>

\* The flush at the end of complete_job.  An aborted transaction refuses it.
Write(j) ==
    /\ pc[j] = "write" /\ j \notin aborted
    /\ Hold(j)
    /\ pc' = [pc EXCEPT ![j] = "commit"]
    /\ UNCHANGED <<mode, row, loc, total, aborted, mails, faults, hit>>

WriteRefused(j) ==
    /\ pc[j] = "write" /\ j \in aborted
    /\ Stop(j)
    /\ UNCHANGED <<mode, row, loc, total, mails, faults, hit>>

CommitResult(j) ==
    /\ pc[j] = "commit"
    /\ row' = [row EXCEPT ![j] = loc[j]]
    /\ Stop(j)
    /\ UNCHANGED <<mode, loc, total, mails, faults, hit>>

-----------------------------------------------------------------------------
(* What can go wrong.                                                      *)

\* pool_timeout: every connection is taken by another job for too long.  The
\* statements that need one are the reads of the job in mark_sending and, after
\* the commit, in complete_job; both are outside its try and end the runner.
\* (The read-only runner has only those of send(), which end it as well.)
PoolTimeout(j) ==
    /\ pc[j] \in {"mark", "query"}
    /\ ~CanHold(j)
    /\ Stop(j)
    /\ hit' = hit \cup {j}
    /\ UNCHANGED <<mode, row, loc, total, mails, faults>>

\* A statement or a commit fails.  An exception inside send() is caught, but
\* PostgreSQL has aborted the transaction; any other ends the runner, that of
\* complete_job's read of the job too.
DbError(j) ==
    /\ faults < MaxFaults /\ faults' = faults + 1
    /\ hit' = hit \cup {j}
    /\ \/ /\ pc[j] \in {"query", "render"}
          /\ CanHold(j)
          /\ SendEnds(j, Failed(j), held \cup {j}, aborted \cup {j})
       \/ /\ pc[j] \in {"mark", "commit_sending", "query", "write", "commit"}
          /\ CanHold(j)
          /\ Stop(j)
          /\ UNCHANGED loc
    /\ UNCHANGED <<mode, row, total, mails>>

\* The process that runs the job dies or is redeployed.
Crash(j) ==
    /\ faults < MaxFaults /\ faults' = faults + 1
    /\ pc[j] \notin {"off", "over"}
    /\ hit' = hit \cup {j}
    /\ Stop(j)
    /\ UNCHANGED <<mode, row, loc, total, mails>>

-----------------------------------------------------------------------------
Run(j) ==
    \/ mark_sending(j) \/ CommitSending(j)
    \/ \E n \in 0 .. MaxSchedules : Query(j, n)
    \/ Render(j) \/ RenderFails(j)
    \/ \E accepted, answered \in BOOLEAN : Mail(j, accepted, answered)
    \/ Write(j) \/ WriteRefused(j) \/ CommitResult(j)

Next == \E j \in Jobs : Request(j) \/ Run(j) \/ PoolTimeout(j) \/ DbError(j) \/ Crash(j)

Spec == Init /\ [][Next]_vars

\* A started runner goes on: the event loop schedules it, and each call it
\* makes returns or times out.
FairSpec == Spec /\ \A j \in Jobs : WF_vars(Run(j) \/ PoolTimeout(j))

-----------------------------------------------------------------------------
(* Properties.                                                             *)

\* The type invariant; no row or mail counts more journals than the cap.
TypeOK ==
    /\ mode \in Mode
    /\ row \in [Jobs -> Row] /\ loc \in [Jobs -> Row]
    /\ pc \in [Jobs -> PCs]
    /\ total \in [Jobs -> Nat]
    /\ held \subseteq Jobs /\ aborted \subseteq Jobs /\ hit \subseteq Jobs
    /\ mails \in [Jobs -> Seq(1 .. Cap)]
    /\ faults \in 0 .. MaxFaults

\* A connection goes back to the pool on every way out of a runner, and only
\* a runner between its first statement and its commit holds one.
NoConnectionLeak ==
    /\ Cardinality(held) <= PoolSize
    /\ \A j \in held : pc[j] \in {"commit_sending", "render", "mail", "write", "commit"}

\* A closed job tells the truth: SUCCESS shows a message id exactly when the
\* provider took a mail, of the number of journals shown, and the truncation
\* flag exactly when some schedules were left out; FAILED shows a reason.
ClosedRowHonest ==
    \A j \in Jobs :
        /\ row[j].status = "SUCCESS" =>
               /\ row[j].started /\ row[j].finished /\ ~row[j].error
               /\ mails[j] = (IF row[j].mid THEN <<row[j].count>> ELSE << >>)
               /\ row[j].truncated <=> row[j].count < total[j]
        /\ row[j].status = "FAILED" => row[j].finished /\ row[j].error /\ ~row[j].mid

Lifecycle == INSTANCE JobLifecycle WITH
    sends <- mode.resend,
    status <- [j \in Jobs |-> row[j].status],
    count <- [j \in Jobs |-> row[j].count],
    sent <- [j \in Jobs |-> IF row[j].status = "NONE" THEN << >> ELSE mails[j]]

\* The rows and the mails of recorded jobs behave as the job history promises
\* (JobLifecycle; in read-only mode there are mails without a job): in
\* particular a mail leaves only after SENDING is committed, once at most.
ImplementsLifecycle == Lifecycle!Spec

\* A queued job is closed in the end, unless a crash, a database error or an
\* exhausted pool hits its runner.
EventuallyClosed ==
    \A j \in Jobs :
        row[j].status = "QUEUED" ~> row[j].status \in {"SUCCESS", "FAILED"} \/ j \in hit

\* What the comment in complete_job and the test of the failure path say: a
\* runner leaves its job closed, with a reason if it failed.
RunnerClosesJob ==
    \A j \in Jobs : pc[j] = "over" => row[j].status \in {"SUCCESS", "FAILED"}

=============================================================================
