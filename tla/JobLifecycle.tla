---------------------------- MODULE JobLifecycle ----------------------------
(***************************************************************************)
(* What the history of bulk mail jobs promises its readers, whatever runs  *)
(* the jobs: the status goes QUEUED -> SENDING -> SUCCESS | FAILED, a mail *)
(* leaves only while the job is SENDING and at most once, and SUCCESS is   *)
(* recorded with the number of journals that were mailed.                  *)
(***************************************************************************)
EXTENDS Naturals, Sequences

CONSTANTS
    Jobs,
    Cap     \* most journals in one mail

VARIABLES
    sends,   \* FALSE where mails are switched off
    status,  \* the status the history shows; "NONE" before the request
    count,   \* the number of journals the history shows
    sent     \* per job: the sizes of the mails that left

vars == <<sends, status, count, sent>>

Init ==
    /\ sends \in BOOLEAN
    /\ status = [j \in Jobs |-> "NONE"]
    /\ count = [j \in Jobs |-> 0]
    /\ sent = [j \in Jobs |-> << >>]

Queue(j) ==
    /\ status[j] = "NONE"
    /\ status' = [status EXCEPT ![j] = "QUEUED"]
    /\ UNCHANGED <<sends, count, sent>>

Start(j) ==
    /\ status[j] = "QUEUED"
    /\ status' = [status EXCEPT ![j] = "SENDING"]
    /\ UNCHANGED <<sends, count, sent>>

Deliver(j) ==
    /\ sends /\ status[j] = "SENDING" /\ sent[j] = << >>
    /\ \E n \in 1 .. Cap : sent' = [sent EXCEPT ![j] = <<n>>]
    /\ UNCHANGED <<sends, status, count>>

Succeed(j, n) ==
    /\ status[j] = "SENDING"
    /\ sends => sent[j] = (IF n = 0 THEN << >> ELSE <<n>>)
    /\ status' = [status EXCEPT ![j] = "SUCCESS"]
    /\ count' = [count EXCEPT ![j] = n]
    /\ UNCHANGED <<sends, sent>>

Fail(j) ==
    /\ status[j] = "SENDING"
    /\ status' = [status EXCEPT ![j] = "FAILED"]
    /\ UNCHANGED <<sends, count, sent>>

Next ==
    \E j \in Jobs :
        \/ Queue(j) \/ Start(j) \/ Deliver(j) \/ Fail(j)
        \/ \E n \in 0 .. Cap : Succeed(j, n)

Spec == Init /\ [][Next]_vars

-----------------------------------------------------------------------------
(* What a reader may conclude from the history.                            *)

\* A job is mailed once at most, never before it is SENDING, and SUCCESS shows
\* the journals that the mail had.
OneMail ==
    \A j \in Jobs :
        /\ sent[j] # << >> => /\ Len(sent[j]) = 1
                             /\ sends /\ status[j] \in {"SENDING", "SUCCESS", "FAILED"}
        /\ sends /\ status[j] = "SUCCESS" =>
               sent[j] = (IF count[j] = 0 THEN << >> ELSE <<count[j]>>)

\* An outcome is the last word: neither it nor the mail changes afterwards.
Final(j) ==
    status[j] \in {"SUCCESS", "FAILED"} =>
        status'[j] = status[j] /\ count'[j] = count[j] /\ sent'[j] = sent[j]

OutcomeStands == [][\A j \in Jobs : Final(j)]_vars

=============================================================================
