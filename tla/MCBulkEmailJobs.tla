--------------------------- MODULE MCBulkEmailJobs ---------------------------
(* Small instances of BulkEmailJobs for TLC.                               *)
EXTENDS BulkEmailJobs

\* Production; read-only; mails switched off.
AllModes == {[readOnly |-> FALSE, resend |-> TRUE], [readOnly |-> TRUE, resend |-> TRUE],
             [readOnly |-> FALSE, resend |-> FALSE]}

Production == {[readOnly |-> FALSE, resend |-> TRUE]}

\* With no request left to make and every runner over, nothing more happens.
\* A runner that cannot go on before that would be a deadlock of the pool.
Quiet == (\A j \in Jobs : pc[j] = "over") /\ UNCHANGED vars

MCSpec == Init /\ [][Next \/ Quiet]_vars /\ \A j \in Jobs : WF_vars(Run(j) \/ PoolTimeout(j))

=============================================================================
