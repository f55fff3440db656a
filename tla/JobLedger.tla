----------------------------- MODULE JobLedger -----------------------------
(***************************************************************************)
(* The rows and calls of DeleteJobs read as the ledger of DeletionLedger:  *)
(* a deletion counts as sent once the downloader was called for it and as  *)
(* acknowledged once its step row says completed.                          *)
(***************************************************************************)
EXTENDS DeleteJobs, FiniteSets

Called(j) == {i \in Steps : calls[j][i] > 0}
Done(j)   == {i \in Steps : stepStatus[j][i] = "completed"}

LedgerState ==
    [j \in JobIds |->
        IF jobStatus[j] = "absent" THEN "none"
        ELSE IF jobStatus[j] = "pending" THEN "accepted"
        ELSE IF jobStatus[j] \in {"executing", "verifying"} THEN "running"
        ELSE jobStatus[j]]

LedgerTotal == [j \in JobIds |-> IF jobStatus[j] = "absent" THEN 0 ELSE Size[jobPlan[j]]]
LedgerSent  == [j \in JobIds |-> Cardinality(Called(j))]
LedgerAcked == [j \in JobIds |-> Cardinality(Done(j))]

Ledger == INSTANCE DeletionLedger WITH
    Jobs  <- JobIds,
    state <- LedgerState,
    total <- LedgerTotal,
    sent  <- LedgerSent,
    acked <- LedgerAcked

\* The protocol with all its retries, failures and restarts keeps the ledger's
\* promises: deletions leave one at a time and once each, and the outcome of a job
\* claims no more than was acknowledged (execute, fail and
\* ReconcileInterruptedDeleteJobs).
LedgerKept == Ledger!Spec

-----------------------------------------------------------------------------
(* What the refinement needs beyond Inductive.                              *)

\* A step is recorded as completed only after its call.
RecordTrailsCall(j) == \A i \in Steps : stepStatus[j][i] = "completed" => calls[j][i] = 1

\* The step whose answer is awaited or in doubt is not recorded as completed; a
\* goroutine that reports a doubt has begun its job.
AnswerOpen(h) ==
    /\ wpc[h] \in {"inflight", "ack", "doubt"} => stepStatus[reqJob[h]][wstep[h]] # "completed"
    /\ wpc[h] = "fail" /\ verdict[h] = "uncertain" =>
            jobStatus[reqJob[h]] \in {"executing", "verifying"}

RecordsTrailCalls ==
    /\ \A j \in JobIds : RecordTrailsCall(j)
    /\ \A h \in Requests : AnswerOpen(h)
=============================================================================
