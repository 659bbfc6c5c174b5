-------------------------- MODULE BulkEmailJobsProofs --------------------------
(***************************************************************************)
(* Proofs about BulkEmailJobs, for every set of jobs, every size of the    *)
(* pool, every cap and every bound on schedules and faults.                *)
(***************************************************************************)
EXTENDS BulkEmailJobs, FiniteSetTheorems, TLAPS

-----------------------------------------------------------------------------
(***************************************************************************)
(* The inductive invariant: what the committed row and the row of the      *)
(* runner's session say at each point of the runner.                       *)
(***************************************************************************)

\* A row that no outcome has been written to.
Pending(w, status) == w.status = status /\ w.count = 0 /\ ~w.mid /\ ~w.error

Sending(w) == Pending(w, "SENDING") /\ w.started

\* A row with an outcome, of a job that mailed the sizes m and found n schedules.
Closed(w, m, n) ==
    /\ w.finished /\ w.status \in {"SUCCESS", "FAILED"}
    /\ w.status = "SUCCESS" =>
           /\ w.started /\ ~w.error /\ m = (IF w.mid THEN <<w.count>> ELSE << >>)
           /\ w.truncated <=> w.count < n
           /\ mode.resend => (w.mid <=> w.count # 0)
    /\ w.status = "FAILED" => w.error /\ ~w.mid /\ w.count = 0

\* In read-only mode no job is recorded, and so none has to be written.
ReadOnlyRunner(j) ==
    /\ Pending(row[j], "NONE")
    /\ pc[j] \notin {"mark", "commit_sending", "write", "commit"}

Runner(j) ==
    /\ pc[j] = "off" => Pending(row[j], "NONE") /\ Pending(loc[j], "NONE") /\ mails[j] = << >>
    /\ pc[j] = "mark" => Pending(row[j], "QUEUED") /\ Pending(loc[j], "QUEUED") /\ mails[j] = << >>
    /\ pc[j] = "commit_sending" => Pending(row[j], "QUEUED") /\ Sending(loc[j]) /\ mails[j] = << >>
    /\ pc[j] \in {"query", "render", "mail"} => Sending(row[j]) /\ Sending(loc[j]) /\ mails[j] = << >>
    /\ pc[j] \in {"write", "commit"} => Sending(row[j]) /\ Closed(loc[j], mails[j], total[j])
    /\ pc[j] = "over" => \/ Pending(row[j], "QUEUED") \/ Sending(row[j])
                         \/ Closed(row[j], mails[j], total[j])

\* There are schedules to render, and a journal to mail.
SomethingToMail == \A j \in Jobs : pc[j] \in {"render", "mail"} => total[j] # 0

Typed == TypeOK /\ SomethingToMail

PoolInv == IsFiniteSet(held) /\ NoConnectionLeak

RunnerInv == Typed /\ \A j \in Jobs : IF mode.readOnly THEN ReadOnlyRunner(j) ELSE Runner(j)

JobsInv == RunnerInv /\ PoolInv

-----------------------------------------------------------------------------
(* The pool.                                                               *)

HolderPCs == {"commit_sending", "render", "mail", "write", "commit"}

\* What a step of the runner of j may do to the pool: nothing, take a
\* connection when there is one, give its own back.
LEMMA PoolMove ==
    ASSUME PoolInv, NEW j \in Jobs,
           \/ held' = held
           \/ held' = held \cup {j} /\ CanHold(j)
           \/ held' = held \ {j},
           \A i \in Jobs \ {j} : pc'[i] = pc[i],
           held \subseteq Jobs,
           j \in held' => pc'[j] \in HolderPCs
    PROVE  PoolInv'
<1>1. IsFiniteSet(held) /\ Cardinality(held) \in Nat /\ Cardinality(held) <= PoolSize
  BY FS_CardinalityType DEF PoolInv, NoConnectionLeak
<1>2. IsFiniteSet(held') /\ Cardinality(held') <= PoolSize
  <2>1. CASE held' = held
    BY <1>1, <2>1
  <2>2. CASE held' = held \cup {j} /\ CanHold(j)
    <3>1. /\ IsFiniteSet(held \cup {j})
          /\ Cardinality(held \cup {j}) = IF j \in held THEN Cardinality(held) ELSE Cardinality(held) + 1
      BY <1>1, FS_AddElement
    <3> QED BY <1>1, <2>2, <3>1, PoolAssumption DEF CanHold
  <2>3. CASE held' = held \ {j}
    <3>1. /\ IsFiniteSet(held \ {j})
          /\ Cardinality(held \ {j}) = IF j \in held THEN Cardinality(held) - 1 ELSE Cardinality(held)
      BY <1>1, FS_RemoveElement
    <3> QED BY <1>1, <2>3, <3>1, PoolAssumption
  <2> QED BY <2>1, <2>2, <2>3
<1>3. \A i \in held' : pc'[i] \in HolderPCs
  BY DEF PoolInv, NoConnectionLeak, HolderPCs
<1> QED BY <1>2, <1>3 DEF PoolInv, NoConnectionLeak, HolderPCs

\* Every step leaves the pool sound.
LEMMA PoolStep == TypeOK /\ PoolInv /\ [Next]_vars => PoolInv'
<1> SUFFICES ASSUME TypeOK, PoolInv, [Next]_vars PROVE PoolInv'
  OBVIOUS
<1>h. held \subseteq Jobs /\ pc \in [Jobs -> PCs] /\ \A i \in held : pc[i] \in HolderPCs
  BY DEF TypeOK, PoolInv, NoConnectionLeak, HolderPCs
<1>s. ASSUME NEW j \in Jobs, Stop(j) PROVE PoolInv'
  <2>1. held' = held \ {j} /\ \A i \in Jobs \ {j} : pc'[i] = pc[i]
    BY <1>h, <1>s DEF Stop
  <2> QED BY <1>h, <2>1, PoolMove
<1>e. ASSUME NEW j \in Jobs, NEW outcome, NEW h, NEW a, SendEnds(j, outcome, h, a),
             h = held \/ (h = held \cup {j} /\ CanHold(j))
      PROVE  PoolInv'
  <2>1. CASE mode.readOnly
    BY <1>e, <1>s, <2>1 DEF SendEnds
  <2>2. CASE ~mode.readOnly
    <3>1. held' = h /\ pc'[j] = "write" /\ \A i \in Jobs \ {j} : pc'[i] = pc[i]
      BY <1>e, <1>h, <2>2 DEF SendEnds
    <3> QED BY <1>e, <1>h, <3>1, PoolMove DEF HolderPCs
  <2> QED BY <2>1, <2>2
<1>m. ASSUME NEW j \in Jobs, NEW p, pc' = [pc EXCEPT ![j] = p],
             \/ held' = held
             \/ held' = held \cup {j} /\ CanHold(j)
             \/ held' = held \ {j},
             j \in held' => p \in HolderPCs
      PROVE  PoolInv'
  <2>1. pc'[j] = p /\ \A i \in Jobs \ {j} : pc'[i] = pc[i]
    BY <1>h, <1>m
  <2> QED BY <1>h, <1>m, <2>1, PoolMove
<1>1. ASSUME NEW j \in Jobs, Request(j) PROVE PoolInv'
  BY <1>1, <1>h, <1>m DEF Request, HolderPCs
<1>2. ASSUME NEW j \in Jobs, mark_sending(j) PROVE PoolInv'
  BY <1>2, <1>m DEF mark_sending, Hold, HolderPCs
<1>3. ASSUME NEW j \in Jobs, CommitSending(j) PROVE PoolInv'
  BY <1>3, <1>m DEF CommitSending
<1>4. ASSUME NEW j \in Jobs, NEW n \in 0 .. MaxSchedules, Query(j, n) PROVE PoolInv'
  <2>1. CASE n = 0
    BY <1>4, <1>e, <2>1 DEF Query
  <2>2. CASE n # 0
    BY <1>4, <1>m, <2>2 DEF Query, HolderPCs
  <2> QED BY <2>1, <2>2
<1>5. ASSUME NEW j \in Jobs, Render(j) PROVE PoolInv'
  BY <1>5, <1>m DEF Render, HolderPCs
<1>6. ASSUME NEW j \in Jobs, RenderFails(j) PROVE PoolInv'
  BY <1>6, <1>e DEF RenderFails
<1>7. ASSUME NEW j \in Jobs, NEW accepted \in BOOLEAN, NEW answered \in BOOLEAN,
             Mail(j, accepted, answered)
      PROVE  PoolInv'
  BY <1>7, <1>e DEF Mail
<1>8. ASSUME NEW j \in Jobs, Write(j) PROVE PoolInv'
  BY <1>8, <1>m DEF Write, Hold, HolderPCs
<1>9. ASSUME NEW j \in Jobs, WriteRefused(j) \/ CommitResult(j) \/ Crash(j) PROVE PoolInv'
  BY <1>9, <1>s DEF WriteRefused, CommitResult, Crash
<1>10. ASSUME NEW j \in Jobs, PoolTimeout(j) PROVE PoolInv'
  BY <1>10, <1>s DEF PoolTimeout
<1>11. ASSUME NEW j \in Jobs, DbError(j) PROVE PoolInv'
  BY <1>11, <1>e, <1>s DEF DbError
<1>12. CASE UNCHANGED vars
  BY <1>12 DEF vars, PoolInv, NoConnectionLeak
<1> QED BY <1>1, <1>2, <1>3, <1>4, <1>5, <1>6, <1>7, <1>8, <1>9, <1>10, <1>11, <1>12 DEF Next, Run

-----------------------------------------------------------------------------
(* The rows.                                                               *)

\* What a step of the runner of j leaves alone.
OthersKept(j) ==
    /\ mode' = mode /\ faults' \in 0 .. MaxFaults
    /\ row' \in [Jobs -> Row] /\ loc' \in [Jobs -> Row] /\ pc' \in [Jobs -> PCs]
    /\ total' \in [Jobs -> Nat] /\ mails' \in [Jobs -> Seq(1 .. Cap)]
    /\ held' \subseteq Jobs /\ aborted' \subseteq Jobs /\ hit' \subseteq Jobs
    /\ \A i \in Jobs \ {j} :
           /\ row'[i] = row[i] /\ loc'[i] = loc[i] /\ pc'[i] = pc[i]
           /\ total'[i] = total[i] /\ mails'[i] = mails[i]

\* It is enough to look at the job that moves.
LEMMA LocalStep ==
    ASSUME RunnerInv, NEW j \in Jobs, OthersKept(j),
           pc'[j] \in {"render", "mail"} => total'[j] # 0,
           IF mode.readOnly THEN ReadOnlyRunner(j)' ELSE Runner(j)'
    PROVE  RunnerInv'
<1>1. Typed'
  BY DEF OthersKept, RunnerInv, Typed, TypeOK, SomethingToMail
<1>2. ASSUME NEW i \in Jobs PROVE IF mode'.readOnly THEN ReadOnlyRunner(i)' ELSE Runner(i)'
  <2>1. CASE i = j
    BY <2>1 DEF OthersKept
  <2>2. CASE i # j
    <3>1. /\ mode' = mode /\ row'[i] = row[i] /\ loc'[i] = loc[i] /\ pc'[i] = pc[i]
          /\ total'[i] = total[i] /\ mails'[i] = mails[i]
      BY <2>2 DEF OthersKept
    <3> QED BY <3>1 DEF RunnerInv, ReadOnlyRunner, Runner, Closed
  <2> QED BY <2>1, <2>2
<1> QED BY <1>1, <1>2 DEF RunnerInv

\* The types, unfolded once.
LEMMA Types ==
    ASSUME RunnerInv
    PROVE  /\ mode \in Mode /\ faults \in 0 .. MaxFaults
           /\ row \in [Jobs -> Row] /\ loc \in [Jobs -> Row] /\ pc \in [Jobs -> PCs]
           /\ total \in [Jobs -> Nat] /\ mails \in [Jobs -> Seq(1 .. Cap)]
           /\ held \subseteq Jobs /\ aborted \subseteq Jobs /\ hit \subseteq Jobs
  BY DEF RunnerInv, Typed, TypeOK

\* A runner that stops with the row as it is committed.
LEMMA StopStep ==
    ASSUME RunnerInv, NEW j \in Jobs, Stop(j), pc[j] # "off",
           UNCHANGED <<mode, row, loc, total, mails>>, faults' \in 0 .. MaxFaults,
           hit' \subseteq Jobs
    PROVE  RunnerInv'
<1>1. pc'[j] = "over" /\ OthersKept(j)
  BY Types DEF Stop, OthersKept, PCs
<1>2. IF mode.readOnly THEN ReadOnlyRunner(j)' ELSE Runner(j)'
  <2>1. mode.readOnly => Pending(row[j], "NONE")
    BY DEF RunnerInv, ReadOnlyRunner
  <2>2. ~mode.readOnly =>
            Pending(row[j], "QUEUED") \/ Sending(row[j]) \/ Closed(row[j], mails[j], total[j])
    BY Types DEF RunnerInv, Runner, PCs
  <2> QED BY <1>1, <2>1, <2>2 DEF ReadOnlyRunner, Runner, Closed
<1> QED BY <1>1, <1>2, LocalStep

\* send() ends with an outcome that is honest about what happened in it.
LEMMA SendStep ==
    ASSUME RunnerInv, NEW j \in Jobs, pc[j] \in {"query", "render", "mail"},
           NEW outcome \in Row, NEW h \in SUBSET Jobs, NEW a \in SUBSET Jobs,
           SendEnds(j, outcome, h, a),
           mode' = mode, row' = row, faults' \in 0 .. MaxFaults, hit' \subseteq Jobs,
           total' \in [Jobs -> Nat], mails' \in [Jobs -> Seq(1 .. Cap)],
           \A i \in Jobs \ {j} : total'[i] = total[i] /\ mails'[i] = mails[i],
           ~mode.readOnly => Closed([outcome EXCEPT !.finished = TRUE], mails'[j], total'[j])
    PROVE  RunnerInv'
<1> DEFINE o == [outcome EXCEPT !.finished = TRUE]
<1>0. o \in Row
  BY DEF Row
<1> HIDE DEF o
<1>1. CASE mode.readOnly
  <2>1. pc'[j] = "over" /\ OthersKept(j)
    BY <1>1, Types DEF SendEnds, Stop, OthersKept, PCs
  <2>2. ReadOnlyRunner(j)'
    BY <1>1, <2>1 DEF RunnerInv, ReadOnlyRunner
  <2> QED BY <1>1, <2>1, <2>2, LocalStep
<1>2. CASE ~mode.readOnly
  <2>1. pc'[j] = "write" /\ loc' = [loc EXCEPT ![j] = o] /\ OthersKept(j)
    BY <1>0, <1>2, Types DEF SendEnds, OthersKept, PCs, o
  <2>2. Sending(row'[j]) /\ Closed(loc'[j], mails'[j], total'[j])
    BY <1>2, <2>1, Types DEF RunnerInv, Runner, o
  <2>3. Runner(j)'
    BY <2>1, <2>2 DEF Runner, Closed, OthersKept
  <2> QED BY <1>2, <2>1, <2>3, LocalStep
<1> QED BY <1>1, <1>2

\* What an outcome of success writes.
LEMMA SucceededRow ==
    ASSUME RunnerInv, NEW j \in Jobs, NEW n \in 0 .. Cap, NEW mid \in BOOLEAN, NEW cut \in BOOLEAN
    PROVE  LET w == Succeeded(j, n, mid, cut)
           IN  /\ w \in Row /\ [w EXCEPT !.finished = TRUE] \in Row
               /\ ~mode.readOnly /\ pc[j] \in {"query", "render", "mail"} =>
                      \A m, t : /\ m = (IF mid THEN <<n>> ELSE << >>) /\ (cut <=> n < t)
                                /\ mode.resend => (mid <=> n # 0)
                                => Closed([w EXCEPT !.finished = TRUE], m, t)
<1> DEFINE w == Succeeded(j, n, mid, cut)
           o == [w EXCEPT !.finished = TRUE]
<1>1. loc[j] \in Row
  BY Types
<1>2. w \in Row
  BY <1>1 DEF Succeeded, Row
<1>3. /\ w.status = "SUCCESS" /\ w.count = n /\ w.mid = mid /\ w.truncated = cut
      /\ w.started = loc[j].started /\ w.error = loc[j].error
  BY <1>1 DEF Succeeded, Row
<1> HIDE DEF w
<1>4. /\ o \in Row /\ o.finished /\ o.status = "SUCCESS" /\ o.count = n /\ o.mid = mid
      /\ o.truncated = cut /\ o.started = loc[j].started /\ o.error = loc[j].error
  BY <1>2, <1>3 DEF Row
<1> HIDE DEF o
<1>5. ~mode.readOnly /\ pc[j] \in {"query", "render", "mail"} => loc[j].started /\ ~loc[j].error
  BY DEF RunnerInv, Runner, Sending, Pending
<1>6. ~mode.readOnly /\ pc[j] \in {"query", "render", "mail"} =>
          \A m, t : /\ m = (IF mid THEN <<n>> ELSE << >>) /\ (cut <=> n < t)
                    /\ mode.resend => (mid <=> n # 0)
                    => Closed(o, m, t)
  BY <1>4, <1>5 DEF Closed
<1> QED BY <1>2, <1>4, <1>6 DEF w, o

\* A failure is an honest outcome at any point of send().
LEMMA FailedIsHonest ==
    ASSUME RunnerInv, NEW j \in Jobs, pc[j] \in {"query", "render", "mail"}, NEW m, NEW n
    PROVE  /\ Failed(j) \in Row
           /\ ~mode.readOnly => Closed([Failed(j) EXCEPT !.finished = TRUE], m, n)
<1>1. loc[j] \in Row
  BY Types
<1>2. ~mode.readOnly => Sending(loc[j])
  BY DEF RunnerInv, Runner
<1> QED BY <1>1, <1>2 DEF Failed, Row, Closed, Sending, Pending

\* Every step leaves the rows and the runners in agreement.
LEMMA RunnerStep == RunnerInv /\ [Next]_vars => RunnerInv'
<1> SUFFICES ASSUME RunnerInv, [Next]_vars PROVE RunnerInv'
  OBVIOUS
<1> USE BoundAssumption
<1>r. \A j \in Jobs : row[j] \in Row /\ loc[j] \in Row
  BY Types
<1>j. \A j \in Jobs : IF mode.readOnly THEN ReadOnlyRunner(j) ELSE Runner(j)
  BY DEF RunnerInv
<1>1. ASSUME NEW j \in Jobs, Request(j) PROVE RunnerInv'
  <2>1. CASE mode.readOnly
    <3>1. pc'[j] = "query" /\ row' = row /\ OthersKept(j)
      BY <1>1, <2>1, Types DEF Request, OthersKept, PCs
    <3> QED BY <1>j, <2>1, <3>1, LocalStep DEF ReadOnlyRunner
  <2>2. CASE ~mode.readOnly
    <3>1. /\ pc[j] = "off" /\ pc' = [pc EXCEPT ![j] = "mark"]
          /\ row' = [row EXCEPT ![j].status = "QUEUED"] /\ loc' = [loc EXCEPT ![j].status = "QUEUED"]
          /\ UNCHANGED <<mode, total, held, aborted, mails, faults, hit>>
      BY <1>1, <2>2 DEF Request
    <3>2. /\ [row[j] EXCEPT !.status = "QUEUED"] \in Row /\ [loc[j] EXCEPT !.status = "QUEUED"] \in Row
      BY <1>r DEF Row
    <3>3. pc'[j] = "mark" /\ OthersKept(j)
      BY <3>1, <3>2, Types DEF OthersKept, PCs
    <3>4. Pending(row'[j], "QUEUED") /\ Pending(loc'[j], "QUEUED") /\ mails'[j] = << >>
      BY <1>j, <1>r, <2>2, <3>1, Types DEF Runner, Pending, Row
    <3>5. Runner(j)'
      BY <3>3, <3>4 DEF Runner
    <3> QED BY <2>2, <3>3, <3>5, LocalStep
  <2> QED BY <2>1, <2>2
<1>2. ASSUME NEW j \in Jobs, mark_sending(j) PROVE RunnerInv'
  <2> DEFINE w == [loc[j] EXCEPT !.status = "SENDING", !.started = TRUE]
  <2>1. /\ pc[j] = "mark" /\ pc' = [pc EXCEPT ![j] = "commit_sending"]
        /\ loc' = [loc EXCEPT ![j] = w] /\ held' \subseteq Jobs
        /\ UNCHANGED <<mode, row, total, aborted, mails, faults, hit>>
    BY <1>2, Types DEF mark_sending, Hold
  <2>2. ~mode.readOnly /\ Pending(row[j], "QUEUED") /\ Pending(loc[j], "QUEUED") /\ mails[j] = << >>
    BY <1>j, <2>1 DEF ReadOnlyRunner, Runner
  <2>3. w \in Row /\ Sending(w)
    BY <1>r, <2>2 DEF Row, Sending, Pending
  <2> HIDE DEF w
  <2>4. pc'[j] = "commit_sending" /\ loc'[j] = w /\ OthersKept(j)
    BY <2>1, <2>3, Types DEF OthersKept, PCs
  <2>5. Runner(j)'
    BY <2>1, <2>2, <2>3, <2>4 DEF Runner
  <2> QED BY <2>2, <2>4, <2>5, LocalStep
<1>3. ASSUME NEW j \in Jobs, CommitSending(j) PROVE RunnerInv'
  <2>1. /\ pc[j] = "commit_sending" /\ pc'[j] = "query" /\ row'[j] = loc[j] /\ loc' = loc /\ mails' = mails
        /\ OthersKept(j)
    BY <1>3, <1>r, Types DEF CommitSending, OthersKept, PCs
  <2>2. ~mode.readOnly /\ Sending(loc[j]) /\ mails[j] = << >>
    BY <1>j, <2>1 DEF ReadOnlyRunner, Runner
  <2>3. Runner(j)'
    BY <2>1, <2>2 DEF Runner
  <2> QED BY <2>1, <2>2, <2>3, LocalStep
<1>4. ASSUME NEW j \in Jobs, NEW n \in 0 .. MaxSchedules, Query(j, n) PROVE RunnerInv'
  <2>1. /\ pc[j] = "query" /\ total' = [total EXCEPT ![j] = n] /\ n \in Nat
        /\ UNCHANGED <<mode, row, mails, faults, hit>>
    BY <1>4 DEF Query
  <2>2. total' \in [Jobs -> Nat] /\ total'[j] = n /\ \A i \in Jobs \ {j} : total'[i] = total[i]
    BY <2>1, Types
  <2>3. ~mode.readOnly => Sending(row[j]) /\ Sending(loc[j]) /\ mails[j] = << >>
    BY <1>j, <2>1 DEF Runner
  <2>4. CASE n = 0
    <3> DEFINE no == FALSE
               o == Succeeded(j, 0, no, no)
    <3>0. no \in BOOLEAN /\ ~no /\ 0 \in 0 .. Cap
      OBVIOUS
    <3>1. SendEnds(j, o, held \cup {j}, aborted)
      BY <1>4, <2>4 DEF Query
    <3> HIDE DEF no
    <3>2. o \in Row
      BY <3>0, SucceededRow
    <3>3. ~mode.readOnly => Closed([o EXCEPT !.finished = TRUE], mails'[j], total'[j])
      BY <2>1, <2>2, <2>3, <2>4, <3>0, SucceededRow
    <3> HIDE DEF o
    <3> QED BY <2>1, <2>2, <3>1, <3>2, <3>3, SendStep, Types
  <2>5. CASE n # 0
    <3>1. pc'[j] = "render" /\ loc' = loc /\ OthersKept(j)
      <4>1. /\ pc' = [pc EXCEPT ![j] = "render"] /\ held' = held \cup {j}
            /\ UNCHANGED <<loc, aborted>>
        BY <1>4, <2>5 DEF Query
      <4> QED BY <2>1, <2>2, <4>1, Types DEF OthersKept, PCs
    <3>2. IF mode.readOnly THEN ReadOnlyRunner(j)' ELSE Runner(j)'
      BY <1>j, <2>1, <2>3, <3>1 DEF ReadOnlyRunner, Runner
    <3> QED BY <2>2, <2>5, <3>1, <3>2, LocalStep
  <2> QED BY <2>4, <2>5
<1>5. ASSUME NEW j \in Jobs, Render(j) PROVE RunnerInv'
  <2>1. /\ pc[j] = "render" /\ pc'[j] = "mail" /\ OthersKept(j)
        /\ UNCHANGED <<mode, row, loc, total, mails>>
    BY <1>5, Types DEF Render, OthersKept, PCs
  <2>2. IF mode.readOnly THEN ReadOnlyRunner(j)' ELSE Runner(j)'
    BY <1>j, <2>1 DEF ReadOnlyRunner, Runner
  <2> QED BY <2>1, <2>2, LocalStep DEF RunnerInv, Typed, SomethingToMail
<1>6. ASSUME NEW j \in Jobs, RenderFails(j) PROVE RunnerInv'
  <2>1. /\ pc[j] = "render" /\ SendEnds(j, Failed(j), held, aborted)
        /\ UNCHANGED <<mode, row, total, mails, faults, hit>>
    BY <1>6 DEF RenderFails
  <2> QED BY <2>1, FailedIsHonest, SendStep, Types
<1>7. ASSUME NEW j \in Jobs, NEW accepted \in BOOLEAN, NEW answered \in BOOLEAN,
             Mail(j, accepted, answered)
      PROVE  RunnerInv'
  <2> DEFINE n == Attached(j)
             good == answered \/ ~mode.resend
             cut == total[j] > Cap
             o == IF good THEN Succeeded(j, n, answered, cut) ELSE Failed(j)
  <2>1. /\ pc[j] = "mail"
        /\ answered => accepted
        /\ ~mode.resend => ~accepted
        /\ mails' = IF accepted THEN [mails EXCEPT ![j] = Append(@, n)] ELSE mails
        /\ SendEnds(j, o, held, aborted)
        /\ UNCHANGED <<mode, row, total, faults, hit>>
    BY <1>7 DEF Mail
  <2>2. total[j] \in Nat /\ total[j] # 0 /\ Cap \in Nat \ {0}
    BY <2>1, Types DEF RunnerInv, Typed, SomethingToMail
  <2>3. n \in 1 .. Cap /\ cut \in BOOLEAN /\ (cut <=> n < total[j])
    BY <2>2 DEF Attached
  <2>4. ~mode.readOnly => Sending(loc[j]) /\ mails[j] = << >>
    BY <1>j, <2>1 DEF Runner
  <2> HIDE DEF n, cut
  <2>5. /\ mails' \in [Jobs -> Seq(1 .. Cap)] /\ \A i \in Jobs \ {j} : mails'[i] = mails[i]
        /\ mails'[j] = IF accepted THEN Append(mails[j], n) ELSE mails[j]
    BY <2>1, <2>3, Types
  <2>6. ~mode.readOnly => mails'[j] = IF accepted THEN <<n>> ELSE << >>
    <3>1. Append(<< >>, n) = <<n>>
      OBVIOUS
    <3> QED BY <2>4, <2>5, <3>1
  <2>7. CASE good
    <3> DEFINE s == Succeeded(j, n, answered, cut)
    <3>0. n \in 0 .. Cap
      BY <2>2, <2>3
    <3>1. s \in Row
      BY <2>3, <3>0, SucceededRow
    <3>2. ~mode.readOnly => Closed([s EXCEPT !.finished = TRUE], mails'[j], total'[j])
      BY <2>1, <2>2, <2>3, <2>6, <2>7, SucceededRow
    <3>3. SendEnds(j, s, held, aborted)
      BY <2>1, <2>7
    <3> HIDE DEF s
    <3> QED BY <2>1, <2>5, <3>1, <3>2, <3>3, SendStep, Types
  <2>8. CASE ~good
    <3>1. SendEnds(j, Failed(j), held, aborted)
      BY <2>1, <2>8
    <3> QED BY <2>1, <2>5, <3>1, FailedIsHonest, SendStep, Types
  <2> QED BY <2>7, <2>8
<1>8. ASSUME NEW j \in Jobs, Write(j) PROVE RunnerInv'
  <2>1. /\ pc[j] = "write" /\ pc'[j] = "commit" /\ OthersKept(j)
        /\ UNCHANGED <<mode, row, loc, total, mails>>
    BY <1>8, Types DEF Write, Hold, OthersKept, PCs
  <2>2. ~mode.readOnly /\ Runner(j)'
    BY <1>j, <2>1 DEF ReadOnlyRunner, Runner, Closed
  <2> QED BY <2>1, <2>2, LocalStep
<1>9. ASSUME NEW j \in Jobs, WriteRefused(j) PROVE RunnerInv'
  BY <1>9, StopStep, Types DEF WriteRefused
<1>10. ASSUME NEW j \in Jobs, CommitResult(j) PROVE RunnerInv'
  <2>1. /\ pc[j] = "commit" /\ pc'[j] = "over" /\ row'[j] = loc[j] /\ OthersKept(j)
        /\ UNCHANGED <<mode, total, mails>>
    BY <1>10, <1>r, Types DEF CommitResult, Stop, OthersKept, PCs
  <2>2. ~mode.readOnly /\ Closed(loc[j], mails[j], total[j])
    BY <1>j, <2>1 DEF ReadOnlyRunner, Runner
  <2>3. Runner(j)'
    BY <2>1, <2>2 DEF Runner, Closed
  <2> QED BY <2>1, <2>2, <2>3, LocalStep
<1>11. ASSUME NEW j \in Jobs, PoolTimeout(j) PROVE RunnerInv'
  <2>1. hit' \subseteq Jobs
    BY <1>11, Types DEF PoolTimeout
  <2> QED BY <1>11, <2>1, StopStep, Types DEF PoolTimeout
<1>12. ASSUME NEW j \in Jobs, DbError(j) PROVE RunnerInv'
  <2>1. /\ hit' \subseteq Jobs /\ faults' \in 0 .. MaxFaults
        /\ UNCHANGED <<mode, row, total, mails>>
    BY <1>12, Types DEF DbError
  <2>2. CASE /\ pc[j] \in {"query", "render"}
             /\ SendEnds(j, Failed(j), held \cup {j}, aborted \cup {j})
    <3>1. held \cup {j} \in SUBSET Jobs /\ aborted \cup {j} \in SUBSET Jobs
      BY Types
    <3>2. Failed(j) \in Row /\ (~mode.readOnly => Closed([Failed(j) EXCEPT !.finished = TRUE],
                                                        mails[j], total[j]))
      BY <2>2, FailedIsHonest
    <3> QED BY <2>1, <2>2, <3>1, <3>2, SendStep, Types
  <2>3. CASE /\ pc[j] \in {"mark", "commit_sending", "query", "write", "commit"}
             /\ Stop(j) /\ UNCHANGED loc
    BY <2>1, <2>3, StopStep
  <2> QED BY <1>12, <2>2, <2>3 DEF DbError
<1>13. ASSUME NEW j \in Jobs, Crash(j) PROVE RunnerInv'
  <2>1. hit' \subseteq Jobs /\ faults' \in 0 .. MaxFaults
    BY <1>13, Types DEF Crash
  <2> QED BY <1>13, <2>1, StopStep DEF Crash
<1>14. CASE UNCHANGED vars
  BY <1>14 DEF vars, RunnerInv, Typed, TypeOK, SomethingToMail, ReadOnlyRunner, Runner, Closed
<1> QED BY <1>1, <1>2, <1>3, <1>4, <1>5, <1>6, <1>7, <1>8, <1>9, <1>10, <1>11, <1>12, <1>13, <1>14
        DEF Next, Run

\* The invariant holds in every state the server reaches.
LEMMA Invariance == Spec => []JobsInv
<1>1. Init => JobsInv
  <2> SUFFICES ASSUME Init PROVE JobsInv
    OBVIOUS
  <2>1. NoRow \in Row /\ Pending(NoRow, "NONE")
    BY BoundAssumption DEF NoRow, Row, Pending
  <2>2. Typed
    BY <2>1, BoundAssumption, ModeAssumption DEF Init, Typed, TypeOK, SomethingToMail, PCs
  <2>3. \A j \in Jobs : IF mode.readOnly THEN ReadOnlyRunner(j) ELSE Runner(j)
    BY <2>1 DEF Init, ReadOnlyRunner, Runner
  <2>4. PoolInv
    BY FS_EmptySet, PoolAssumption DEF Init, PoolInv, NoConnectionLeak
  <2> QED BY <2>2, <2>3, <2>4 DEF JobsInv, RunnerInv
<1>2. JobsInv /\ [Next]_vars => JobsInv'
  BY PoolStep, RunnerStep DEF JobsInv, RunnerInv, Typed
<1> QED BY <1>1, <1>2, PTL DEF Spec

\* The type invariant holds in every state the server reaches.
THEOREM TypeCorrect == Spec => []TypeOK
<1>1. JobsInv => TypeOK
  BY DEF JobsInv, RunnerInv, Typed
<1> QED BY <1>1, Invariance, PTL

\* The row that readers see and the row of the runner's session are those of
\* its place in run_bulk_email_job and complete_job: QUEUED until SENDING is
\* committed, SENDING and unmailed until the provider is called, and an outcome
\* only once one is about to be committed, or was.
THEOREM RowsFollowRunners == Spec => []RunnerInv
<1>1. JobsInv => RunnerInv
  BY DEF JobsInv
<1> QED BY <1>1, Invariance, PTL

\* Whatever fails where, the runners together never hold more connections than
\* the pool has, and one that is over, or is between two transactions, none.
THEOREM NoLeak == Spec => []NoConnectionLeak
<1>1. JobsInv => NoConnectionLeak
  BY DEF JobsInv, PoolInv
<1> QED BY <1>1, Invariance, PTL

\* A row that shows an outcome tells what the provider was given and what was
\* left out.
THEOREM OutcomesHonest == Spec => []ClosedRowHonest
<1>1. JobsInv => ClosedRowHonest
  <2> SUFFICES ASSUME JobsInv, NEW j \in Jobs
               PROVE  /\ row[j].status = "SUCCESS" =>
                             /\ row[j].started /\ row[j].finished /\ ~row[j].error
                             /\ mails[j] = (IF row[j].mid THEN <<row[j].count>> ELSE << >>)
                             /\ row[j].truncated <=> row[j].count < total[j]
                      /\ row[j].status = "FAILED" => row[j].finished /\ row[j].error /\ ~row[j].mid
    BY DEF ClosedRowHonest
  <2>1. CASE row[j].status \in {"SUCCESS", "FAILED"}
    <3>1. ~mode.readOnly /\ Runner(j) /\ pc[j] \in PCs
      BY <2>1 DEF JobsInv, RunnerInv, ReadOnlyRunner, Pending, Typed, TypeOK
    <3>2. Closed(row[j], mails[j], total[j])
      BY <2>1, <3>1 DEF Runner, Sending, Pending, PCs
    <3> QED BY <3>2 DEF Closed
  <2>2. CASE row[j].status \notin {"SUCCESS", "FAILED"}
    BY <2>2
  <2> QED BY <2>1, <2>2
<1> QED BY <1>1, Invariance, PTL

-----------------------------------------------------------------------------
(* The job history is implemented.                                         *)

\* A row, and the mails behind it, change as the history promises.
LEMMA HistoryStep == JobsInv /\ [Next]_vars => [Lifecycle!Next]_Lifecycle!vars
<1> SUFFICES ASSUME JobsInv, [Next]_vars PROVE [Lifecycle!Next]_Lifecycle!vars
  OBVIOUS
<1> USE DEF Lifecycle!vars
<1>t. RunnerInv
  BY DEF JobsInv
<1>j. \A j \in Jobs : /\ row[j] \in Row /\ pc[j] \in PCs
                      /\ IF mode.readOnly THEN ReadOnlyRunner(j) ELSE Runner(j)
  BY <1>t, Types DEF RunnerInv
<1>u. UNCHANGED <<mode, row, mails>> => UNCHANGED Lifecycle!vars
  OBVIOUS
<1>1. ASSUME NEW j \in Jobs, Request(j) PROVE Lifecycle!Next \/ UNCHANGED Lifecycle!vars
  <2>1. CASE mode.readOnly
    BY <1>1, <1>u, <2>1 DEF Request
  <2>2. CASE ~mode.readOnly
    <3>1. /\ pc[j] = "off" /\ row' = [row EXCEPT ![j].status = "QUEUED"]
          /\ mode' = mode /\ mails' = mails
      BY <1>1, <2>2 DEF Request
    <3>2. row[j].status = "NONE" /\ mails[j] = << >>
      BY <1>j, <2>2, <3>1 DEF Runner, Pending
    <3>3. /\ row'[j].status = "QUEUED" /\ row'[j].count = row[j].count
          /\ \A i \in Jobs \ {j} : row'[i] = row[i]
      BY <1>t, <3>1, Types DEF Row
    <3>4. \A i \in Jobs : (IF row'[i].status = "NONE" THEN << >> ELSE mails'[i])
                          = (IF row[i].status = "NONE" THEN << >> ELSE mails[i])
      BY <3>1, <3>2, <3>3
    <3>5. [i \in Jobs |-> IF row'[i].status = "NONE" THEN << >> ELSE mails'[i]]
          = [i \in Jobs |-> IF row[i].status = "NONE" THEN << >> ELSE mails[i]]
      BY <3>4
    <3>6. [i \in Jobs |-> row'[i].status] = [[i \in Jobs |-> row[i].status] EXCEPT ![j] = "QUEUED"]
      BY <3>3
    <3>7. [i \in Jobs |-> row'[i].count] = [i \in Jobs |-> row[i].count]
      BY <3>3
    <3>8. Lifecycle!Queue(j)
      BY <3>1, <3>2, <3>5, <3>6, <3>7 DEF Lifecycle!Queue
    <3> QED BY <3>8 DEF Lifecycle!Next
  <2> QED BY <2>1, <2>2
<1>2. ASSUME NEW j \in Jobs, CommitSending(j) PROVE Lifecycle!Next
  <2>1. /\ pc[j] = "commit_sending" /\ row'[j] = loc[j] /\ mode' = mode /\ mails' = mails
        /\ \A i \in Jobs \ {j} : row'[i] = row[i]
    BY <1>2, <1>t, Types DEF CommitSending
  <2>2. /\ row[j].status = "QUEUED" /\ row[j].count = 0
        /\ row'[j].status = "SENDING" /\ row'[j].count = 0
    BY <1>j, <2>1 DEF ReadOnlyRunner, Runner, Sending, Pending
  <2>3. Lifecycle!Start(j)
    BY <2>1, <2>2 DEF Lifecycle!Start
  <2> QED BY <2>3 DEF Lifecycle!Next
<1>3. ASSUME NEW j \in Jobs, NEW accepted \in BOOLEAN, NEW answered \in BOOLEAN,
             Mail(j, accepted, answered)
      PROVE  Lifecycle!Next \/ UNCHANGED Lifecycle!vars
  <2>1. /\ pc[j] = "mail" /\ mode' = mode /\ row' = row
        /\ ~mode.resend => ~accepted
        /\ mails' = IF accepted THEN [mails EXCEPT ![j] = Append(@, Attached(j))] ELSE mails
    BY <1>3 DEF Mail
  <2>2. CASE ~accepted
    BY <1>u, <2>1, <2>2
  <2>3. CASE mode.readOnly
    <3>1. \A i \in Jobs : row[i].status = "NONE"
      BY <1>j, <2>3 DEF ReadOnlyRunner, Pending
    <3> QED BY <2>1, <3>1
  <2>4. CASE accepted /\ ~mode.readOnly
    <3>1. mode.resend /\ row[j].status = "SENDING" /\ mails[j] = << >>
      BY <1>j, <2>1, <2>4, <1>t, Types DEF Runner, Sending, Pending, Mode
    <3>2. Attached(j) \in 1 .. Cap
      <4>1. total[j] \in Nat /\ total[j] # 0 /\ Cap \in Nat \ {0}
        BY <1>t, <2>1, BoundAssumption, Types DEF RunnerInv, Typed, SomethingToMail
      <4> QED BY <4>1 DEF Attached
    <3>3. mails'[j] = <<Attached(j)>> /\ \A i \in Jobs \ {j} : mails'[i] = mails[i]
      <4>1. Append(<< >>, Attached(j)) = <<Attached(j)>>
        BY <3>2
      <4> QED BY <1>t, <2>1, <2>4, <3>1, <4>1, Types
    <3>4. Lifecycle!Deliver(j)
      BY <2>1, <3>1, <3>2, <3>3 DEF Lifecycle!Deliver
    <3> QED BY <3>4 DEF Lifecycle!Next
  <2> QED BY <2>2, <2>3, <2>4
<1>4. ASSUME NEW j \in Jobs, CommitResult(j) PROVE Lifecycle!Next
  <2>1. /\ pc[j] = "commit" /\ row'[j] = loc[j] /\ mode' = mode /\ mails' = mails
        /\ \A i \in Jobs \ {j} : row'[i] = row[i]
    BY <1>4, <1>t, Types DEF CommitResult
  <2>2. /\ row[j].status = "SENDING" /\ row[j].count = 0 /\ loc[j] \in Row
        /\ Closed(loc[j], mails[j], total[j])
    BY <1>j, <1>t, <2>1, Types DEF ReadOnlyRunner, Runner, Sending, Pending
  <2>3. CASE loc[j].status = "SUCCESS"
    <3>1. PICK n \in 0 .. Cap : n = loc[j].count
      BY <2>2 DEF Row
    <3>2. mode.resend => mails[j] = IF n = 0 THEN << >> ELSE <<n>>
      BY <2>2, <2>3, <3>1 DEF Closed
    <3>3. Lifecycle!Succeed(j, n)
      BY <2>1, <2>2, <2>3, <3>1, <3>2 DEF Lifecycle!Succeed
    <3> QED BY <3>3 DEF Lifecycle!Next
  <2>4. CASE loc[j].status = "FAILED"
    <3>1. loc[j].count = 0
      BY <2>2, <2>4 DEF Closed
    <3>2. Lifecycle!Fail(j)
      BY <2>1, <2>2, <2>4, <3>1 DEF Lifecycle!Fail
    <3> QED BY <3>2 DEF Lifecycle!Next
  <2> QED BY <2>2, <2>3, <2>4 DEF Closed
<1>5. ASSUME NEW j \in Jobs,
             \/ mark_sending(j) \/ Render(j) \/ RenderFails(j) \/ Write(j) \/ WriteRefused(j)
             \/ PoolTimeout(j) \/ DbError(j) \/ Crash(j)
             \/ \E n \in 0 .. MaxSchedules : Query(j, n)
      PROVE  UNCHANGED Lifecycle!vars
  BY <1>5, <1>u DEF mark_sending, Render, RenderFails, Write, WriteRefused, PoolTimeout, DbError,
     Crash, Query
<1>6. CASE UNCHANGED vars
  BY <1>6, <1>u DEF vars
<1> QED BY <1>1, <1>2, <1>3, <1>4, <1>5, <1>6 DEF Next, Run

\* The runners implement the job history: QUEUED, SENDING, then one outcome, a
\* mail only after SENDING is committed, and the count that was mailed.
THEOREM HistoryImplemented == Spec => ImplementsLifecycle
<1>1. Init => Lifecycle!Init
  <2> SUFFICES ASSUME Init PROVE Lifecycle!Init
    OBVIOUS
  <2>1. mode.resend \in BOOLEAN
    BY ModeAssumption DEF Init, Mode
  <2> QED BY <2>1 DEF Init, NoRow, Lifecycle!Init
<1> QED BY <1>1, HistoryStep, Invariance, PTL DEF Spec, ImplementsLifecycle, Lifecycle!Spec

-----------------------------------------------------------------------------
(***************************************************************************)
(* What follows from the job history alone, and so for whatever implements *)
(* it.  h, c and m are the variables of the history.                       *)
(***************************************************************************)

\* No step of the history mails twice, or ahead of its time.
LEMMA OneMailStep == Lifecycle!OneMail /\ [Lifecycle!Next]_Lifecycle!vars => Lifecycle!OneMail'
<1> DEFINE h == [j \in Jobs |-> row[j].status]
           c == [j \in Jobs |-> row[j].count]
           m == [j \in Jobs |-> IF row[j].status = "NONE" THEN << >> ELSE mails[j]]
           Honest(j) ==
             /\ m[j] # << >> => /\ Len(m[j]) = 1
                                /\ mode.resend /\ h[j] \in {"SENDING", "SUCCESS", "FAILED"}
             /\ mode.resend /\ h[j] = "SUCCESS" =>
                    m[j] = (IF c[j] = 0 THEN << >> ELSE <<c[j]>>)
<1>d. /\ h = [j \in Jobs |-> h[j]] /\ c = [j \in Jobs |-> c[j]] /\ m = [j \in Jobs |-> m[j]]
      /\ Lifecycle!OneMail <=> \A j \in Jobs : Honest(j)
      /\ Lifecycle!OneMail' <=> \A j \in Jobs : Honest(j)'
  BY DEF Lifecycle!OneMail
<1> SUFFICES ASSUME \A j \in Jobs : Honest(j), [Lifecycle!Next]_Lifecycle!vars,
                    NEW i \in Jobs
             PROVE  Honest(i)'
  BY <1>d
<1>1. ASSUME NEW j \in Jobs, Lifecycle!Queue(j) PROVE Honest(i)'
  <2>1. /\ h[j] = "NONE" /\ h' = [h EXCEPT ![j] = "QUEUED"]
        /\ mode'.resend = mode.resend /\ c' = c /\ m' = m
    BY <1>1 DEF Lifecycle!Queue
  <2> HIDE DEF h, c, m
  <2> QED BY <1>d, <2>1
<1>2. ASSUME NEW j \in Jobs, Lifecycle!Start(j) PROVE Honest(i)'
  <2>1. /\ h[j] = "QUEUED" /\ h' = [h EXCEPT ![j] = "SENDING"]
        /\ mode'.resend = mode.resend /\ c' = c /\ m' = m
    BY <1>2 DEF Lifecycle!Start
  <2> HIDE DEF h, c, m
  <2> QED BY <1>d, <2>1
<1>3. ASSUME NEW j \in Jobs, Lifecycle!Deliver(j) PROVE Honest(i)'
  <2>1. PICK n \in 1 .. Cap :
             /\ mode.resend /\ h[j] = "SENDING" /\ m' = [m EXCEPT ![j] = <<n>>]
             /\ mode'.resend = mode.resend /\ h' = h /\ c' = c
    BY <1>3 DEF Lifecycle!Deliver
  <2>2. Len(<<n>>) = 1
    OBVIOUS
  <2> HIDE DEF h, c, m
  <2> QED BY <1>d, <2>1, <2>2
<1>4. ASSUME NEW j \in Jobs, NEW n \in 0 .. Cap, Lifecycle!Succeed(j, n) PROVE Honest(i)'
  <2>1. /\ h[j] = "SENDING" /\ h' = [h EXCEPT ![j] = "SUCCESS"] /\ c' = [c EXCEPT ![j] = n]
        /\ mode.resend => m[j] = (IF n = 0 THEN << >> ELSE <<n>>)
        /\ mode'.resend = mode.resend /\ m' = m
    BY <1>4 DEF Lifecycle!Succeed
  <2> HIDE DEF h, c, m
  <2> QED BY <1>d, <2>1
<1>5. ASSUME NEW j \in Jobs, Lifecycle!Fail(j) PROVE Honest(i)'
  <2>1. /\ h[j] = "SENDING" /\ h' = [h EXCEPT ![j] = "FAILED"]
        /\ mode'.resend = mode.resend /\ c' = c /\ m' = m
    BY <1>5 DEF Lifecycle!Fail
  <2> HIDE DEF h, c, m
  <2> QED BY <1>d, <2>1
<1>6. CASE UNCHANGED Lifecycle!vars
  <2>1. mode'.resend = mode.resend /\ h' = h /\ c' = c /\ m' = m
    BY <1>6 DEF Lifecycle!vars
  <2> HIDE DEF h, c, m
  <2> QED BY <1>d, <2>1
<1> QED BY <1>1, <1>2, <1>3, <1>4, <1>5, <1>6 DEF Lifecycle!Next

\* A job is mailed once at most, not before SENDING is committed, and SUCCESS
\* shows the number of journals in that mail (complete_job), whatever fails.
THEOREM OneMailPerJob == Spec => []Lifecycle!OneMail
<1>1. Lifecycle!Init => Lifecycle!OneMail
  BY DEF Lifecycle!Init, Lifecycle!OneMail
<1> QED BY <1>1, OneMailStep, HistoryImplemented, PTL DEF ImplementsLifecycle, Lifecycle!Spec

\* An action property: once a row shows SUCCESS or FAILED, no runner changes
\* its status, its count or its mails.
THEOREM OutcomesStand == Spec => Lifecycle!OutcomeStands
<1>1. ASSUME [Lifecycle!Next]_Lifecycle!vars, NEW i \in Jobs PROVE Lifecycle!Final(i)
  <2> USE DEF Lifecycle!Final
  <2>1. ASSUME NEW j \in Jobs, Lifecycle!Queue(j) \/ Lifecycle!Start(j) \/ Lifecycle!Fail(j)
        PROVE  Lifecycle!Final(i)
    BY <2>1 DEF Lifecycle!Queue, Lifecycle!Start, Lifecycle!Fail
  <2>2. ASSUME NEW j \in Jobs, Lifecycle!Deliver(j) PROVE Lifecycle!Final(i)
    BY <2>2 DEF Lifecycle!Deliver
  <2>3. ASSUME NEW j \in Jobs, NEW n \in 0 .. Cap, Lifecycle!Succeed(j, n)
        PROVE  Lifecycle!Final(i)
    BY <2>3 DEF Lifecycle!Succeed
  <2>4. CASE UNCHANGED Lifecycle!vars
    BY <2>4 DEF Lifecycle!vars
  <2> QED BY <1>1, <2>1, <2>2, <2>3, <2>4 DEF Lifecycle!Next
<1>2. [Lifecycle!Next]_Lifecycle!vars => \A j \in Jobs : Lifecycle!Final(j)
  BY <1>1
<1>3. [][Lifecycle!Next]_Lifecycle!vars => [][\A j \in Jobs : Lifecycle!Final(j)]_Lifecycle!vars
  BY <1>2, PTL
<1>4. Spec => [][Lifecycle!Next]_Lifecycle!vars
  BY HistoryImplemented, PTL DEF ImplementsLifecycle, Lifecycle!Spec
<1>5. Lifecycle!OutcomeStands <=> [][\A j \in Jobs : Lifecycle!Final(j)]_Lifecycle!vars
  BY PTL DEF Lifecycle!OutcomeStands
<1> QED BY <1>3, <1>4, <1>5, PTL

-----------------------------------------------------------------------------
(***************************************************************************)
(* What liveness rests on: every step takes some runner further, and a     *)
(* runner that no fault hits closes its job.                               *)
(***************************************************************************)

\* How far a runner is from its end.
Remaining == [p \in PCs |->
    CASE p = "off" -> 8 [] p = "mark" -> 7 [] p = "commit_sending" -> 6 [] p = "query" -> 5
      [] p = "render" -> 4 [] p = "mail" -> 3 [] p = "write" -> 2 [] p = "commit" -> 1
      [] p = "over" -> 0]

\* Nothing happens over and over: there is no retry and no way back in
\* run_bulk_email_job and complete_job.
StepsAdvance ==
    [][\E j \in Jobs : /\ Remaining[pc'[j]] < Remaining[pc[j]]
                       /\ \A i \in Jobs \ {j} : pc'[i] = pc[i]]_vars

\* What a step does to the program counters.
LEMMA Advance ==
    ASSUME TypeOK, NEW j \in Jobs, Request(j) \/ Run(j) \/ PoolTimeout(j) \/ DbError(j) \/ Crash(j)
    PROVE  \E p \in PCs : pc' = [pc EXCEPT ![j] = p] /\ Remaining[p] < Remaining[pc[j]]
<1>1. pc[j] \in PCs
  BY DEF TypeOK
<1>2. pc[j] # "over" /\ \E p \in PCs : pc' = [pc EXCEPT ![j] = p] /\ <<pc[j], p>> \in
        {<<"off", "query">>, <<"off", "mark">>, <<"mark", "commit_sending">>,
         <<"commit_sending", "query">>, <<"query", "render">>, <<"query", "write">>,
         <<"render", "mail">>, <<"render", "write">>, <<"mail", "write">>, <<"write", "commit">>}
        \cup ((PCs \ {"over"}) \X {"over"})
  <2> USE DEF SendEnds, Stop, PCs
  <2>1. CASE Request(j) \/ mark_sending(j) \/ CommitSending(j)
    BY <1>1, <2>1 DEF Request, mark_sending, CommitSending
  <2>2. ASSUME NEW n \in 0 .. MaxSchedules, Query(j, n)
        PROVE  \E p \in {"render", "write", "over"} : pc[j] = "query" /\ pc' = [pc EXCEPT ![j] = p]
    BY <2>2 DEF Query
  <2>3. CASE Render(j) \/ RenderFails(j)
    BY <1>1, <2>3 DEF Render, RenderFails
  <2>4. ASSUME NEW accepted \in BOOLEAN, NEW answered \in BOOLEAN, Mail(j, accepted, answered)
        PROVE  \E p \in {"write", "over"} : pc[j] = "mail" /\ pc' = [pc EXCEPT ![j] = p]
    BY <2>4 DEF Mail
  <2>5. CASE Write(j) \/ WriteRefused(j) \/ CommitResult(j)
    BY <1>1, <2>5 DEF Write, WriteRefused, CommitResult
  <2>6. CASE PoolTimeout(j) \/ DbError(j) \/ Crash(j)
    BY <1>1, <2>6 DEF PoolTimeout, DbError, Crash
  <2> QED BY <2>1, <2>2, <2>3, <2>4, <2>5, <2>6 DEF Run
<1>3. PICK p \in PCs : pc' = [pc EXCEPT ![j] = p] /\ (p = "over" \/ <<pc[j], p>> \in
        {<<"off", "query">>, <<"off", "mark">>, <<"mark", "commit_sending">>,
         <<"commit_sending", "query">>, <<"query", "render">>, <<"query", "write">>,
         <<"render", "mail">>, <<"render", "write">>, <<"mail", "write">>, <<"write", "commit">>})
  BY <1>2
<1>4. /\ Remaining["off"] = 8 /\ Remaining["mark"] = 7 /\ Remaining["commit_sending"] = 6
      /\ Remaining["query"] = 5 /\ Remaining["render"] = 4 /\ Remaining["mail"] = 3
      /\ Remaining["write"] = 2 /\ Remaining["commit"] = 1 /\ Remaining["over"] = 0
  BY DEF Remaining, PCs
<1>5. pc[j] \in PCs \ {"over"}
  BY <1>1, <1>2
<1>6. Remaining[p] < Remaining[pc[j]]
  <2>1. CASE p = "over"
    BY <1>4, <1>5, <2>1 DEF PCs
  <2>2. CASE p # "over"
    BY <1>3, <1>4, <2>2
  <2> QED BY <2>1, <2>2
<1> QED BY <1>3, <1>6

\* An action property: each step takes one runner nearer to its end and leaves
\* the others where they are, so that a job takes 8 steps at most.
THEOREM RunnersAdvance == Spec => StepsAdvance
<1> DEFINE Nearer == \E j \in Jobs : /\ Remaining[pc'[j]] < Remaining[pc[j]]
                                     /\ \A i \in Jobs \ {j} : pc'[i] = pc[i]
<1>1. ASSUME TypeOK, Next PROVE Nearer
  <2>1. PICK j \in Jobs : Request(j) \/ Run(j) \/ PoolTimeout(j) \/ DbError(j) \/ Crash(j)
    BY <1>1 DEF Next
  <2>2. PICK p \in PCs : pc' = [pc EXCEPT ![j] = p] /\ Remaining[p] < Remaining[pc[j]]
    BY <1>1, <2>1, Advance
  <2>3. pc'[j] = p /\ \A i \in Jobs \ {j} : pc'[i] = pc[i]
    BY <1>1, <2>2 DEF TypeOK
  <2> QED BY <2>2, <2>3
<1>2. TypeOK /\ [Next]_vars => [Nearer]_vars
  BY <1>1
<1> QED BY <1>2, TypeCorrect, PTL DEF Spec, StepsAdvance

\* A runner that is over has closed its job, unless a crash, a database error
\* or an exhausted pool hit it: the only ways to leave a job QUEUED or SENDING.
UnhitRunnersClose ==
    \A j \in Jobs : pc[j] = "over" /\ ~mode.readOnly /\ j \notin hit =>
        row[j].status \in {"SUCCESS", "FAILED"}

\* Only a database error aborts a transaction.
HitInv == aborted \subseteq hit /\ UnhitRunnersClose

LEMMA HitStep == JobsInv /\ HitInv /\ [Next]_vars => HitInv'
<1> SUFFICES ASSUME JobsInv, HitInv, [Next]_vars PROVE HitInv'
  OBVIOUS
<1>t. TypeOK /\ \A j \in Jobs : ~mode.readOnly => Runner(j)
  BY DEF JobsInv, RunnerInv, Typed
<1> DEFINE Left(j) == pc[j] = "over" /\ ~mode.readOnly /\ j \notin hit
                      /\ row[j].status \notin {"SUCCESS", "FAILED"}
\* The others' runners and rows stay; the runner of j stops only closed or hit.
<1>s. ASSUME NEW j \in Jobs, mode' = mode, hit' \in {hit, hit \cup {j}},
             \A i \in Jobs \ {j} : pc'[i] = pc[i] /\ row'[i] = row[i],
             aborted' \subseteq hit', ~Left(j)'
      PROVE  HitInv'
  BY <1>s DEF HitInv, UnhitRunnersClose
<1>1. ASSUME NEW j \in Jobs, Request(j) PROVE HitInv'
  <2>1. /\ mode' = mode /\ hit' = hit /\ aborted' = aborted /\ pc'[j] # "over"
        /\ \A i \in Jobs \ {j} : pc'[i] = pc[i] /\ row'[i] = row[i]
    BY <1>1, <1>t DEF Request, TypeOK
  <2> QED BY <1>s, <2>1 DEF HitInv
<1>2. ASSUME NEW j \in Jobs, mark_sending(j) \/ CommitSending(j) \/ Render(j) \/ Write(j) PROVE HitInv'
  <2>1. /\ mode' = mode /\ hit' = hit /\ aborted' = aborted /\ pc'[j] # "over"
        /\ \A i \in Jobs \ {j} : pc'[i] = pc[i] /\ row'[i] = row[i]
    BY <1>2, <1>t DEF mark_sending, CommitSending, Render, Write, TypeOK
  <2> QED BY <1>s, <2>1 DEF HitInv
\* Inside send() only the read-only runner stops.
<1>3. ASSUME NEW j \in Jobs, NEW o, NEW h, SendEnds(j, o, h, aborted), mode' = mode, row' = row,
             hit' = hit
      PROVE  HitInv'
  <2>1. /\ aborted' \subseteq aborted /\ (pc'[j] = "over" => mode.readOnly)
        /\ \A i \in Jobs \ {j} : pc'[i] = pc[i]
    BY <1>3, <1>t DEF SendEnds, Stop, TypeOK
  <2> QED BY <1>3, <1>s, <2>1 DEF HitInv
<1>4. ASSUME NEW j \in Jobs, NEW n \in 0 .. MaxSchedules, Query(j, n) PROVE HitInv'
  <2>1. mode' = mode /\ row' = row /\ hit' = hit
    BY <1>4 DEF Query
  <2>2. CASE n = 0
    BY <1>3, <1>4, <2>1, <2>2 DEF Query
  <2>3. CASE n # 0
    <3>1. pc' = [pc EXCEPT ![j] = "render"] /\ aborted' = aborted
      BY <1>4, <2>3 DEF Query
    <3> QED BY <1>s, <1>t, <2>1, <3>1 DEF HitInv, TypeOK
  <2> QED BY <2>2, <2>3
<1>5. ASSUME NEW j \in Jobs, RenderFails(j) PROVE HitInv'
  BY <1>3, <1>5 DEF RenderFails
<1>6. ASSUME NEW j \in Jobs, NEW accepted \in BOOLEAN, NEW answered \in BOOLEAN,
             Mail(j, accepted, answered)
      PROVE  HitInv'
  BY <1>3, <1>6 DEF Mail
<1>7. ASSUME NEW j \in Jobs, WriteRefused(j) PROVE HitInv'
  <2>1. /\ mode' = mode /\ row' = row /\ hit' = hit /\ aborted' \subseteq aborted /\ j \in hit
        /\ \A i \in Jobs \ {j} : pc'[i] = pc[i]
    BY <1>7, <1>t DEF WriteRefused, Stop, HitInv, TypeOK
  <2> QED BY <1>s, <2>1 DEF HitInv
<1>8. ASSUME NEW j \in Jobs, CommitResult(j) PROVE HitInv'
  <2>1. /\ mode' = mode /\ hit' = hit /\ aborted' \subseteq aborted /\ row'[j] = loc[j]
        /\ pc[j] = "commit" /\ \A i \in Jobs \ {j} : pc'[i] = pc[i] /\ row'[i] = row[i]
    BY <1>8, <1>t DEF CommitResult, Stop, TypeOK
  <2>2. ~mode.readOnly => loc[j].status \in {"SUCCESS", "FAILED"}
    BY <1>t, <2>1 DEF Runner, Closed
  <2> QED BY <1>s, <2>1, <2>2 DEF HitInv
<1>9. ASSUME NEW j \in Jobs, PoolTimeout(j) \/ DbError(j) \/ Crash(j) PROVE HitInv'
  <2>1. /\ mode' = mode /\ row' = row /\ hit' = hit \cup {j} /\ aborted' \subseteq aborted \cup {j}
        /\ \A i \in Jobs \ {j} : pc'[i] = pc[i]
    BY <1>9, <1>t DEF PoolTimeout, DbError, Crash, SendEnds, Stop, TypeOK
  <2> QED BY <1>s, <2>1 DEF HitInv
<1>10. CASE UNCHANGED vars
  BY <1>10 DEF vars, HitInv, UnhitRunnersClose
<1> QED BY <1>1, <1>2, <1>4, <1>5, <1>6, <1>7, <1>8, <1>9, <1>10 DEF Next, Run

\* The run bulk_pool shows a job left QUEUED; this is the extent of it.
THEOREM UnfinishedJobsExplained == Spec => []UnhitRunnersClose
<1>1. Init => HitInv
  BY DEF Init, HitInv, UnhitRunnersClose
<1>2. HitInv => UnhitRunnersClose
  BY DEF HitInv
<1> QED BY <1>1, <1>2, HitStep, Invariance, PTL DEF Spec

=============================================================================
